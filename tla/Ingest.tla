------------------------------- MODULE Ingest -------------------------------
(***************************************************************************)
(* POST /api/v1/events: handleCreateEvent from the body of the request to  *)
(* the answer, with the checks of internal/webhook, the deduplication over *)
(* UNIQUE(source_id, event_id), the fan-out over what MatchRules returns   *)
(* and the status the event is left with.                                  *)
(*                                                                         *)
(* Every SQL statement is a step of its own, requests run side by side,    *)
(* a request's context may end at any point (the client leaves, or the     *)
(* 30 s of the middleware are over) and the process may end at any point;  *)
(* nothing looks at the events table when it starts again.                 *)
(*                                                                         *)
(* Abstractions.  A key is a pair (source_id, event_id).  What the checks  *)
(* look at is a record of small enumerations.  Deliver is two steps,       *)
(* CreateDelivery and the rest with any outcome the Dispatcher module      *)
(* allows; Background stands for the retries, automatic and manual.        *)
(* Targets stay enabled or disabled: a target's row never changes, since   *)
(* no PUT commits (module ConfigStore).  Of SQL errors only those of an    *)
(* ended context and of the UNIQUE constraint are modelled.                *)
(***************************************************************************)
EXTENDS Naturals, Sequences, FiniteSets

CONSTANTS
  Requests,     \* POSTs to /api/v1/events
  Leaving,      \* those whose context may end
  NoRequest,    \* no request: the event is not in the table
  Keys,         \* pairs of source_id and event_id
  Targets,      \* ids of targets
  Enabled,      \* those enabled
  Inputs,       \* what requests look like to the checks
  Plans,        \* target lists MatchRules may yield, rule after rule
  JitterRaces,  \* may concurrent draws from the unlocked rand.Rand panic?
  MaxCrashes    \* bound: ends of the process in a behaviour

Input == [body    : {"within", "beyond", "malformed", "broken"},   \* MaxPayload + 1 bytes
          id      : {"given", "empty"},
          source  : {"known", "disabled", "missing"},
          signed  : BOOLEAN,
          payload : {"object", "grown", "other"},
          type    : {"allowed", "foreign"},
          stamp   : {"absent", "negative", "fresh", "stale", "future"}]

ASSUME IngestAssumption ==
  /\ Leaving \subseteq Requests
  /\ NoRequest \notin Requests
  /\ Enabled \subseteq Targets
  /\ Inputs \subseteq Input
  /\ Plans \subseteq Seq(Targets)
  /\ JitterRaces \in BOOLEAN
  /\ MaxCrashes \in Nat

VARIABLES
  status,      \* status[k]: of the event with key k, "none" if not stored
  by,          \* by[k]: the request that stored it (it alone knows the id)
  deliveries,  \* table deliveries in id order: key, target, status
  pc,          \* pc[r]: where the handler of r is
  key,         \* key[r], input[r]: what r asks for
  input,
  plan,        \* plan[r]: the target lists of the matched rules, in a row
  pos,         \* pos[r]: the position in plan[r] the fan-out is at
  seen,        \* seen[r]: seenTarget
  tally,       \* tally[r]: the counters delivered and failed
  reply,       \* reply[r]: the code of the answer
  ended,       \* requests whose context has ended
  crashes      \* counts against MaxCrashes

vars == <<status, by, deliveries, pc, key, input, plan, pos, seen, tally, reply,
          ended, crashes>>

asked == <<key, input>>
loop == <<plan, pos, seen, tally>>

-----------------------------------------------------------------------------
\* Slips: what a definition below would be with a plausible mistake in the code
\* it stands for.  No definition of the system uses them.

InsertsAlways(r) == r \notin ended               \* no UNIQUE constraint

InsertsIntoSource(r) ==                          \* UNIQUE(source_id)
  r \notin ended /\ \A k \in Keys : status[k] = "none"

PassesSeen(r, t) == r \in ended \/ t \notin Enabled    \* seenTarget not consulted

StatusTakesAlways(r) == TRUE                     \* the background context

PassesAfterFailure(r, t) ==                      \* give up after a failed target
  t \in seen[r] \/ r \in ended \/ t \notin Enabled \/ tally[r].failed > 0

FinalStatusOfSuccess(delivered, failed) ==       \* no case for failures alone
  IF delivered > 0 THEN (IF failed > 0 THEN "partially_failed" ELSE "delivered")
  ELSE "accepted"

FinalStatusMisnamed(delivered, failed) ==        \* a status events do not have
  IF failed > 0 THEN "dead" ELSE IF delivered > 0 THEN "delivered" ELSE "accepted"

-----------------------------------------------------------------------------
\* ParseTimestamp and ValidateTimestamp; the handler asks only when there is a
\* timestamp at all.
Replayed(i) == i.stamp \in {"negative", "stale", "future"}

\* The checks of handleCreateEvent in their order, each with the code of its
\* error.  "broken": the connection fails while the body is read.  "beyond": the
\* reader stops after MaxPayload + 1 bytes, and what it has read is no JSON.  The
\* payload outgrows MaxPayload only when json.Marshal escapes it.
Checks(i, gone) ==
  << <<i.body = "broken",                       "bad_request">>,
     <<i.body \in {"beyond", "malformed"},      "payload_invalid">>,
     <<i.id = "empty",                          "payload_invalid">>,
     <<gone,                                    "internal">>,
     <<i.source # "known",                      "source_not_found">>,
     <<~i.signed,                               "signature_invalid">>,
     <<i.payload = "grown",                     "payload_too_large">>,
     <<i.payload = "other",                     "payload_invalid">>,
     <<i.type = "foreign",                      "event_type_not_allowed">>,
     <<Replayed(i),                              "replay_rejected">> >>

Failing(i, gone) == {n \in DOMAIN Checks(i, gone) : Checks(i, gone)[n][1]}

\* The code of the first check that fails.
Objection(i, gone) ==
  Checks(i, gone)[CHOOSE n \in Failing(i, gone) : \A m \in Failing(i, gone) : n <= m][2]

\* The status an event is left with.
FinalStatus(delivered, failed) ==
  CASE delivered > 0 /\ failed > 0 -> "partially_failed"
    [] delivered > 0 /\ failed = 0 -> "delivered"
    [] delivered = 0 /\ failed > 0 -> "failed"
    [] delivered = 0 /\ failed = 0 -> "accepted"

DeliveryRow(k, t, s) == [key |-> k, target |-> t, status |-> s]

Tally(d, f) == [delivered |-> d, failed |-> f]

-----------------------------------------------------------------------------
Init ==
  /\ status = [k \in Keys |-> "none"]
  /\ by = [k \in Keys |-> NoRequest]
  /\ deliveries = <<>>
  /\ pc = [r \in Requests |-> "idle"]
  /\ key \in [Requests -> Keys]
  /\ input \in [Requests -> Inputs]
  /\ plan = [r \in Requests |-> <<>>]
  /\ pos = [r \in Requests |-> 1]
  /\ seen = [r \in Requests |-> {}]
  /\ tally = [r \in Requests |-> Tally(0, 0)]
  /\ reply = [r \in Requests |-> "none"]
  /\ ended = {}
  /\ crashes = 0

Goto(r, where) == pc' = [pc EXCEPT ![r] = where]

Answer(r, code) == Goto(r, "done") /\ reply' = [reply EXCEPT ![r] = code]

Arrive(r) ==
  /\ pc[r] = "idle"
  /\ Goto(r, "screen")
  /\ UNCHANGED <<status, by, deliveries, asked, loop, reply, ended, crashes>>

\* Reading the body, GetSource and the checks.
Screen(r) ==
  /\ pc[r] = "screen"
  /\ IF Failing(input[r], r \in ended) = {}
     THEN Goto(r, "lookup") /\ UNCHANGED reply
     ELSE Answer(r, Objection(input[r], r \in ended))
  /\ UNCHANGED <<status, by, deliveries, asked, loop, ended, crashes>>

\* GetByKey.  Its error is taken for "not found".
Lookup(r) ==
  /\ pc[r] = "lookup"
  /\ IF status[key[r]] # "none" /\ r \notin ended
     THEN Answer(r, "duplicate")
     ELSE Goto(r, "insert") /\ UNCHANGED reply
  /\ UNCHANGED <<status, by, deliveries, asked, loop, ended, crashes>>

\* The UNIQUE constraint holds whatever Lookup saw.
Inserts(r) == r \notin ended /\ status[key[r]] = "none"

\* CreateEvent.
Insert(r) ==
  /\ pc[r] = "insert"
  /\ IF Inserts(r)
     THEN /\ status' = [status EXCEPT ![key[r]] = "accepted"]
          /\ by' = [by EXCEPT ![key[r]] = r]
          /\ Goto(r, "rules")
          /\ UNCHANGED reply
     ELSE /\ Answer(r, "internal")
          /\ UNCHANGED <<status, by>>
  /\ UNCHANGED <<deliveries, asked, loop, ended, crashes>>

\* ListEnabledRules and MatchRules: the rules as they are at this moment.
Match(r) ==
  /\ pc[r] = "rules"
  /\ IF r \in ended
     THEN Answer(r, "internal") /\ UNCHANGED plan
     ELSE /\ \E p \in Plans : plan' = [plan EXCEPT ![r] = p]
          /\ Goto(r, "fanout")
          /\ UNCHANGED reply
  /\ UNCHANGED <<status, by, deliveries, asked, pos, seen, tally, ended, crashes>>

-----------------------------------------------------------------------------
\* The fan-out.

InPlan(r) == pos[r] <= Len(plan[r])

\* Served already, GetTarget fails, or the target is disabled: continue.
Passes(r, t) == t \in seen[r] \/ r \in ended \/ t \notin Enabled

Pass(r) ==
  /\ pc[r] = "fanout"
  /\ InPlan(r)
  /\ Passes(r, plan[r][pos[r]])
  /\ pos' = [pos EXCEPT ![r] = @ + 1]
  /\ UNCHANGED <<status, by, deliveries, pc, asked, plan, seen, tally, reply, ended, crashes>>

Take(r) ==
  /\ pc[r] = "fanout"
  /\ InPlan(r)
  /\ ~Passes(r, plan[r][pos[r]])
  /\ seen' = [seen EXCEPT ![r] = @ \cup {plan[r][pos[r]]}]
  /\ Goto(r, "create")
  /\ UNCHANGED <<status, by, deliveries, asked, plan, pos, tally, reply, ended, crashes>>

\* Deliver's CreateDelivery.  When it fails Deliver returns nil, the handler
\* reads dv.Status, and net/http recovers the panic.
CreateDelivery(r) ==
  /\ pc[r] = "create"
  /\ IF r \in ended
     THEN Goto(r, "gone") /\ UNCHANGED deliveries
     ELSE /\ deliveries' = Append(deliveries, DeliveryRow(key[r], plan[r][pos[r]], "pending"))
          /\ Goto(r, "sending")
  /\ UNCHANGED <<status, by, asked, loop, reply, ended, crashes>>

\* The row r is sending for.
Current(r) ==
  CHOOSE i \in DOMAIN deliveries :
    /\ deliveries[i].key = key[r]
    /\ deliveries[i].target = plan[r][pos[r]]
    /\ deliveries[i].status = "pending"

\* UpdateDelivery: deliveries with s for the status of row i.
Marked(i, s) ==
  [deliveries EXCEPT ![i] = DeliveryRow(deliveries[i].key, deliveries[i].target, s)]

\* What Deliver may return and leave in the row: once the context has ended,
\* only markFailed still reaches the table.
Outcomes(r) ==
  IF r \in ended
  THEN {<<"delivered", "pending">>, <<"dead", "pending">>,
        <<"retrying", "retrying">>, <<"dead", "dead">>}
  ELSE {<<s, s>> : s \in {"delivered", "retrying", "dead"}}

\* The rest of Deliver, and the counting of what it returns.
Sent(r) ==
  /\ pc[r] = "sending"
  /\ \E o \in Outcomes(r) :
       /\ deliveries' = Marked(Current(r), o[2])
       /\ tally' = [tally EXCEPT ![r] =
                       IF o[1] = "delivered" THEN Tally(@.delivered + 1, @.failed)
                                             ELSE Tally(@.delivered, @.failed + 1)]
  /\ pos' = [pos EXCEPT ![r] = @ + 1]
  /\ Goto(r, "fanout")
  /\ UNCHANGED <<status, by, asked, plan, seen, reply, ended, crashes>>

\* A row whose first attempt failed may have been dead before it was delivered.
WasDead(i) ==
  deliveries[i].status = "delivered" /\ tally[by[deliveries[i].key]].failed > 0

\* The jitter source panics under a second draw, of another handler or of a
\* retry; net/http recovers, and the row stays as it was created.
JitterPanic(r) ==
  /\ JitterRaces
  /\ pc[r] = "sending"
  /\ \/ \E s \in Requests \ {r} : pc[s] = "sending"
     \/ \E i \in DOMAIN deliveries :
          deliveries[i].status \in {"retrying", "dead"} \/ WasDead(i)
  /\ Goto(r, "gone")
  /\ UNCHANGED <<status, by, deliveries, asked, loop, reply, ended, crashes>>

\* UpdateStatus runs with the context of the request.
StatusTakes(r) == r \notin ended

\* The status and the answer, 202 whatever has become of the targets.
Conclude(r) ==
  /\ pc[r] = "fanout"
  /\ ~InPlan(r)
  /\ status' = IF StatusTakes(r)
               THEN [status EXCEPT ![key[r]] =
                       FinalStatus(tally[r].delivered, tally[r].failed)]
               ELSE status
  /\ Answer(r, "accepted")
  /\ UNCHANGED <<by, deliveries, asked, loop, ended, crashes>>

-----------------------------------------------------------------------------
\* The retries, which never look at the event: the worker sends a row that waits,
\* Requeue puts a dead one back.  Two Requeues that both read a row as dead may even
\* take back what the retry of the first delivered.
Background(i) ==
  /\ \E s \in CASE deliveries[i].status = "retrying"             -> {"delivered", "dead"}
                [] deliveries[i].status = "dead" \/ WasDead(i) -> {"retrying"}
                [] OTHER                                       -> {} :
       deliveries' = Marked(i, s)
  /\ UNCHANGED <<status, by, pc, asked, loop, reply, ended, crashes>>

End(r) ==
  /\ r \in Leaving \ ended
  /\ pc[r] \notin {"idle", "done", "gone"}
  /\ ended' = ended \cup {r}
  /\ UNCHANGED <<status, by, deliveries, pc, asked, loop, reply, crashes>>

\* The process ends and is started again: handlers are gone, the tables stay.
Crash ==
  /\ crashes < MaxCrashes
  /\ crashes' = crashes + 1
  /\ pc' = [r \in Requests |-> IF pc[r] \in {"idle", "done"} THEN pc[r] ELSE "gone"]
  /\ UNCHANGED <<status, by, deliveries, asked, loop, reply, ended>>

Step(r) ==
  \/ Screen(r) \/ Lookup(r) \/ Insert(r) \/ Match(r)
  \/ Pass(r) \/ Take(r) \/ CreateDelivery(r) \/ Sent(r) \/ JitterPanic(r) \/ Conclude(r)

Next ==
  \/ \E r \in Requests : Arrive(r) \/ Step(r) \/ End(r)
  \/ \E i \in DOMAIN deliveries : Background(i)
  \/ Crash

Spec == Init /\ [][Next]_vars

-----------------------------------------------------------------------------
\* Properties.

\* The targets r has to serve.
Due(r) == {plan[r][n] : n \in DOMAIN plan[r]} \cap Enabled

\* The enabled targets among the first n of plan p.
Named(p, n) == {p[m] : m \in {m \in DOMAIN p : m <= n}} \cap Enabled

RowsOf(k) == {i \in DOMAIN deliveries : deliveries[i].key = k}
Served(r) == {deliveries[i].target : i \in RowsOf(key[r])}

\* Every variable has its type.
TypeOK ==
  /\ status \in [Keys -> {"none", "accepted", "delivered", "partially_failed", "failed"}]
  /\ by \in [Keys -> Requests \cup {NoRequest}]
  /\ \A i \in DOMAIN deliveries :
       deliveries[i] \in [key : Keys, target : Enabled,
                          status : {"pending", "delivered", "retrying", "dead"}]
  /\ pc \in [Requests -> {"idle", "screen", "lookup", "insert", "rules", "fanout", "create",
                         "sending", "done", "gone"}]
  /\ key \in [Requests -> Keys] /\ input \in [Requests -> Inputs]
  /\ plan \in [Requests -> Seq(Targets)]
  /\ seen \in [Requests -> SUBSET Enabled]
  /\ ended \subseteq Leaving

\* Idempotency: whatever requests with the same key overlap, are sent again after
\* a crash or a lost answer, and however rules overlap, no target gets two
\* deliveries of one event.
OneDeliveryPerTarget ==
  \A i, j \in DOMAIN deliveries :
    deliveries[i].key = deliveries[j].key /\ deliveries[i].target = deliveries[j].target => i = j

\* "delivered" is said of an event only when every target it had to be routed to
\* has its delivery, and all of them are delivered; neither a context that ends
\* during the fan-out, nor retries and manual retries that overlap, make that untrue.
DeliveredMeansAll ==
  \A k \in Keys : status[k] = "delivered" =>
    /\ Due(by[k]) \subseteq Served(by[k])
    /\ \A i \in RowsOf(k) : deliveries[i].status = "delivered"

\* What 202 says of the routing, to every client that reads it: no failed, disabled
\* or repeated target costs a later one its turn.  The targets served are the enabled
\* ones among the first of the plan, all of them unless the context has ended, by the
\* 30 s of the middleware or otherwise, and then those whose turn came before.
AcceptedMeansRouted ==
  \A r \in Requests :
    reply[r] = "accepted" =>
      /\ by[key[r]] = r
      /\ \E n \in 0 .. Len(plan[r]) : Served(r) = Named(plan[r], n)
      /\ r \notin ended => Served(r) = Due(r)

\* What an answer tells of the tables.  202: the event is this request's; 409: another
\* request's.  500: another's too, so that nothing need be sent again; but with a
\* context that has ended, by the 30 s of the middleware or otherwise, nothing at all
\* may be stored, or the event without a delivery, which sending again will not
\* route.  Any other refusal: not this request's.  Several statements decide it, and
\* requests with one key overlap.
AnswerTellsTable ==
  \A r \in Requests :
    LET owner == by[key[r]] IN
    /\ reply[r] = "accepted" => owner = r
    /\ reply[r] = "duplicate" => owner \notin {r, NoRequest}
    /\ reply[r] = "internal" => owner \notin {r, NoRequest} \/ (r \in ended /\ Served(r) = {})
    /\ reply[r] \notin {"none", "accepted", "internal"} => owner # r

-----------------------------------------------------------------------------
\* What the documents say and the code does not do (the violation run).

\* PROJECT_SPEC.md:12, an accepted event is posted to every target.
AcceptedServesAll ==
  \A r \in Requests : reply[r] = "accepted" => Due(r) \subseteq Served(r)

-----------------------------------------------------------------------------
\* Why there is one delivery per target: the conjuncts of an inductive invariant.

\* The part of the handler between CreateEvent and the answer.
Routing == {"rules", "fanout", "create", "sending"}

\* A key belongs to the request whose insert the UNIQUE constraint let through.
KeyOwned ==
  \A k \in Keys : (by[k] = NoRequest <=> status[k] = "none") /\ (by[k] # NoRequest => key[by[k]] = k)

RoutesOwnKey == \A r \in Requests : pc[r] \in Routing => by[key[r]] = r

\* seenTarget starts empty and has every target that was served.
SeenFromRules ==
  \A r \in Requests :
    pc[r] \in {"idle", "screen", "lookup", "insert", "rules"} => seen[r] = {}

TakenIsSeen ==
  \A r \in Requests : pc[r] \in {"create", "sending"} => plan[r][pos[r]] \in seen[r]

\* Row i was made by the owner of its key, which will not make it again.
RowOwned(i) ==
  LET r == by[deliveries[i].key] IN
  /\ r # NoRequest
  /\ deliveries[i].target \in seen[r]
  /\ pc[r] = "create" => deliveries[i].target # plan[r][pos[r]]

RowsOwned == \A i \in DOMAIN deliveries : RowOwned(i)

DeliveryRows ==
  [key : Keys, target : Targets, status : {"pending", "delivered", "retrying", "dead"}]

\* The types that the argument needs.
Shape ==
  /\ status \in [Keys -> {"none", "accepted", "delivered", "partially_failed", "failed"}]
  /\ by \in [Keys -> Requests \cup {NoRequest}]
  /\ deliveries \in Seq(DeliveryRows)
  /\ pc \in [Requests -> {"idle", "screen", "lookup", "insert", "done", "gone"} \cup Routing]
  /\ key \in [Requests -> Keys]
  /\ plan \in [Requests -> Seq(Targets)]
  /\ pos \in [Requests -> Nat \ {0}]
  /\ seen \in [Requests -> SUBSET Targets]
  /\ tally \in [Requests -> [delivered : Nat, failed : Nat]]
  /\ \A r \in Requests : pc[r] \in {"create", "sending"} => InPlan(r)

IInv ==
  /\ Shape
  /\ KeyOwned
  /\ RoutesOwnKey
  /\ SeenFromRules
  /\ TakenIsSeen
  /\ RowsOwned
  /\ OneDeliveryPerTarget
=============================================================================
