------------------------------- MODULE Router -------------------------------
(***************************************************************************)
(* The process as a whole: the handlers of module Ingest and the           *)
(* deliveries of module Dispatcher over the same tables, context by        *)
(* context and crash by crash, and the counters of internal/metrics that   *)
(* both feed.                                                              *)
(*                                                                         *)
(* Ingest describes Deliver by its outcomes and the retries by what they   *)
(* may do to a row; here both are the steps of Dispatcher, and it is a     *)
(* property that Ingest still describes what happens (IngestKept).  A      *)
(* delivery is named by its request and its target.                        *)
(***************************************************************************)
EXTENDS Naturals, Sequences, FiniteSets

CONSTANTS
  Requests, Leaving, NoRequest, Keys, Targets, Enabled, Inputs, Plans,   \* of Ingest
  Forbidden,                                                \* targets Allowed refuses
  Requesters, NoReq, MaxRetries, BatchLimit, MaxRequeues,   \* of Dispatcher
  JitterRaces, MaxCrashes                                   \* of both

VARIABLES
  status, by, hpc, key, input, plan, pos, seen, tally, reply, ended,   \* of Ingest
  rows, trail, pc, dv, answer, canceled, req, phase, requeues,         \* of Dispatcher
  crashes,   \* of both
  order,     \* the deliveries in the order of their ids
  counters   \* webhook_events_total and webhook_deliveries_total, per status

Deliveries == Requests \X Targets

handlers == <<status, by, hpc, key, input, plan, pos, seen, tally, reply, ended>>
dispatching == <<rows, trail, pc, dv, answer, canceled, req, phase, requeues>>
vars == <<handlers, dispatching, crashes, order, counters>>

D == INSTANCE Dispatcher WITH
  Blocked <- Requests \X Forbidden,
  Disconnects <- Leaving \X Targets

\* The table deliveries as the handlers of Ingest see it.
Table ==
  [i \in DOMAIN order |->
     [key |-> key[order[i][1]], target |-> order[i][2], status |-> rows[order[i]].status]]

I == INSTANCE Ingest WITH pc <- hpc, deliveries <- Table

\* What the two modules assume of these constants.
ASSUME RouterAssumption ==
  /\ Leaving \subseteq Requests
  /\ NoRequest \notin Requests
  /\ Enabled \subseteq Targets
  /\ Forbidden \subseteq Targets
  /\ Inputs \subseteq I!Input
  /\ Plans \subseteq Seq(Targets)
  /\ NoReq \notin Deliveries
  /\ MaxRetries \in Nat \ {0}
  /\ BatchLimit \in Nat \ {0}
  /\ JitterRaces \in BOOLEAN
  /\ MaxRequeues \in Nat
  /\ MaxCrashes \in Nat

-----------------------------------------------------------------------------
\* The counters, and Inc for an event or a delivery.

Zero == [events |-> [accepted |-> 0, duplicate |-> 0],
         deliveries |-> [delivered |-> 0, retrying |-> 0, dead |-> 0]]

CountEvent(s) == counters' = [counters EXCEPT !.events[s] = @ + 1]

-----------------------------------------------------------------------------
\* Slips: what a definition below would be with a plausible mistake in the code
\* it stands for.  No definition of the system uses them.

ReturnedHopefully(d) == "delivered"          \* counted before the status is known

-----------------------------------------------------------------------------
Init ==
  /\ order = <<>>
  /\ counters = Zero
  /\ D!Init
  /\ I!Init

\* The delivery that r is at work on.
Current(r) == <<r, plan[r][pos[r]]>>

\* The status of the row that Deliver returns for d, the last step before it.
Returned(d) ==
  IF pc["handler"][d] = "check" THEN "dead"
  ELSE D!Outcome(dv["handler"][d], answer["handler"][d]).status

Still == UNCHANGED <<key, dispatching, crashes, order>>

\* What handleCreateEvent does on its own.
Handle(r) ==
  /\ phase = "running" \/ (phase = "stopping" /\ hpc[r] # "idle")
  /\ Still
  /\ \/ I!Arrive(r) \/ I!Screen(r) \/ I!Lookup(r) \/ I!Insert(r) \/ I!Match(r)
     \/ I!Pass(r) \/ I!Take(r) \/ I!Conclude(r)
  /\ CASE reply'[r] # reply[r] /\ reply'[r] \in {"accepted", "duplicate"} -> CountEvent(reply'[r])
       [] OTHER -> UNCHANGED counters

\* Deliver is called: CreateDelivery.  Without a row the handler panics.
Open(r) ==
  /\ D!Alive
  /\ hpc[r] = "create"
  /\ IF r \in ended
     THEN /\ UNCHANGED <<dispatching, crashes, order>>
          /\ hpc' = [hpc EXCEPT ![r] = "gone"]
     ELSE /\ D!Create(Current(r))
          /\ order' = Append(order, Current(r))
          /\ hpc' = [hpc EXCEPT ![r] = "sending"]
  /\ UNCHANGED <<status, by, key, input, plan, pos, seen, tally, reply, ended, counters>>

\* Between its first and its last statement Deliver concerns the dispatcher alone.
Proceed(r) ==
  /\ hpc[r] = "sending"
  /\ LET d == Current(r) IN
       D!CheckAllow(d) \/ D!Post("handler", d) \/ D!Record("handler", d)
  /\ UNCHANGED <<handlers, order, counters>>

\* Deliver returns: the handler counts the status of the row it holds, whatever the
\* table has.
Close(r) ==
  /\ hpc[r] = "sending"
  /\ LET d == Current(r)
         s == Returned(d)
     IN  /\ D!CheckRefuse(d) \/ D!Write("handler", d)
         /\ tally' = [tally EXCEPT ![r] =
                        IF s = "delivered" THEN I!Tally(@.delivered + 1, @.failed)
                                           ELSE I!Tally(@.delivered, @.failed + 1)]
         /\ counters' = [counters EXCEPT !.deliveries[s] = @ + 1]
  /\ pos' = [pos EXCEPT ![r] = @ + 1]
  /\ hpc' = [hpc EXCEPT ![r] = "fanout"]
  /\ UNCHANGED <<status, by, key, input, plan, seen, reply, ended, order>>

\* rng panics in the handler.
Panic(r) ==
  /\ hpc[r] = "sending"
  /\ D!JitterPanic("handler", Current(r))
  /\ hpc' = [hpc EXCEPT ![r] = "gone"]
  /\ UNCHANGED <<status, by, key, input, plan, pos, seen, tally, reply, ended, order, counters>>

\* The context of r ends, and with it that of the delivery it is at work on.
End(r) ==
  /\ D!Alive
  /\ r \in Leaving \ ended
  /\ hpc[r] \notin {"idle", "done", "gone"}
  /\ ended' = ended \cup {r}
  /\ IF hpc[r] = "sending" THEN D!Cancel(Current(r)) ELSE UNCHANGED dispatching
  /\ UNCHANGED <<status, by, hpc, key, input, plan, pos, seen, tally, reply, crashes, order, counters>>

-----------------------------------------------------------------------------
\* The rest of the process: the worker, the manual retries, the clock.

Work ==
  /\ \/ D!Scan
     \/ \E d \in Deliveries : D!Fetch(d) \/ D!Skip(d) \/ D!SendStep("worker", d)
  /\ UNCHANGED <<handlers, order, counters>>

Requeue(r) ==
  /\ (\E d \in Deliveries : D!RequeueLoad(r, d)) \/ D!RequeueWrite(r) \/ D!RequeueDrop(r)
  /\ UNCHANGED <<handlers, order, counters>>

Elapse(d) == D!Elapse(d) /\ UNCHANGED <<handlers, order, counters>>

Stop == D!Stop /\ UNCHANGED <<handlers, order, counters>>

\* The process ends, by itself or because rng panics in the worker: what was in memory
\* is lost, the counters too.
Crash ==
  /\ D!Crash \/ \E d \in Deliveries : D!JitterPanic("worker", d)
  /\ hpc' = [r \in Requests |-> IF hpc[r] \in {"idle", "done"} THEN hpc[r] ELSE "gone"]
  /\ counters' = Zero
  /\ UNCHANGED <<status, by, key, input, plan, pos, seen, tally, reply, ended, order>>

Restart == D!Restart /\ UNCHANGED <<handlers, order, counters>>

Serve(r) == Handle(r) \/ Open(r) \/ Proceed(r) \/ Close(r) \/ Panic(r)

Next ==
  \/ \E r \in Requests : Serve(r) \/ End(r)
  \/ Work \/ Stop \/ Crash \/ Restart
  \/ \E r \in Requesters : Requeue(r)
  \/ \E d \in Deliveries : Elapse(d)

Spec == Init /\ [][Next]_vars

\* As in the two modules: what has been begun is carried on, time passes, the ticker
\* fires, a process that stops ends and is started again.  A condition on each kind of
\* step is enough, and less than one on each request and delivery.
Fairness ==
  /\ WF_vars(\E r \in Requests : hpc[r] # "idle" /\ Serve(r))
  /\ WF_vars(Work)
  /\ WF_vars(\E d \in Deliveries : Elapse(d))
  /\ WF_vars(\E r \in Requesters : req[r] # NoReq /\ Requeue(r))
  /\ WF_vars((phase = "stopping" /\ Crash) \/ Restart)

FairSpec == Spec /\ Fairness

-----------------------------------------------------------------------------
\* Properties.

Stored(r) == by[key[r]] = r

\* Module Ingest describes the handlers truly: what it lets Deliver return and leave in
\* the table, and what it lets the background do to rows, is all that happens.
IngestKept == I!Spec

\* An event that is called delivered has had a 2xx from every target of its plan.
DeliveredIsAcked ==
  \A r \in Requests :
    Stored(r) /\ status[key[r]] = "delivered" => \A t \in I!Due(r) : D!Acked(<<r, t>>)

\* The counters claim no more than the tables show: a delivery counted as delivered has
\* its 2xx on record, but for one whose request ended before that was written, and no
\* more events and deliveries are counted than there are.
CountersBacked ==
  LET total == counters.deliveries IN
  /\ total.delivered <= Cardinality({d \in Deliveries : D!Acked(d) \/ d \in canceled})
  /\ total.delivered + total.retrying + total.dead <= Len(order)
  /\ counters.events.accepted <= Cardinality({k \in Keys : status[k] # "none"})

\* An event that is stored and has a target is concluded with a status, and every
\* target of it is served until it has taken the event or the retries are used up,
\* through the end of the process, the batch limit and manual retries; but for an event
\* whose request ends, or whose handler dies with the process or under the jitter source,
\* before it has answered.
EveryTargetSettles ==
  \A r \in Requests :
    Stored(r) /\ I!Due(r) # {} ~>
      \/ /\ status[key[r]] # "accepted"
         /\ \A t \in I!Due(r) : rows[<<r, t>>].status \in {"delivered", "dead"}
      \/ r \in ended \/ hpc[r] = "gone"

-----------------------------------------------------------------------------
\* Why the handlers and the deliveries fit: the conjuncts that the invariant needs
\* beyond those of the two modules.

\* What the fan-out is at work on is a delivery there can be.
FanOutInPlan ==
  /\ hpc \in [Requests -> {"idle", "screen", "lookup", "insert", "done", "gone"} \cup I!Routing]
  /\ plan \in [Requests -> Seq(Targets)]
  /\ pos \in [Requests -> Nat \ {0}]
  /\ \A r \in Requests : hpc[r] \in {"create", "sending"} => I!InPlan(r)

\* The handler is between the first and the last statement of Deliver.
Delivering(d) == pc["handler"][d] \in {"check", "post", "record", "write"}

\* A delivery has one id, and has it from its creation on.
OrderIsTable ==
  /\ order \in Seq(Deliveries)
  /\ \A i, j \in DOMAIN order : order[i] = order[j] => i = j
  /\ \A d \in Deliveries : pc["handler"][d] # "idle" <=> \E i \in DOMAIN order : order[i] = d

\* The delivery a handler is at work on is the one the fan-out of its request is at.
SendersAgree ==
  /\ \A d \in Deliveries : Delivering(d) => hpc[d[1]] = "sending" /\ d = Current(d[1])
  /\ \A r \in Requests : hpc[r] = "sending" => Delivering(Current(r))

\* A request has one context, whichever module looks at it.
ContextsAgree ==
  /\ \A d \in canceled : d[1] \in ended
  /\ \A r \in Requests : hpc[r] = "sending" /\ r \in ended => Current(r) \in canceled

\* Deliveries are made by the request that stored the event.
MadeByOwner == \A i \in DOMAIN order : by[key[order[i][1]]] = order[i][1]

Joined ==
  /\ FanOutInPlan
  /\ OrderIsTable
  /\ SendersAgree
  /\ ContextsAgree
  /\ MadeByOwner

\* What is retried, by the worker or by hand, was counted as failed by its handler; so a
\* manual retry, also one that another has overtaken, never touches a delivery whose
\* first attempt went well.
FailedFirst ==
  /\ \A d \in Deliveries : rows[d].status \in {"retrying", "dead"} => tally[d[1]].failed > 0
  /\ \A q \in Requesters : req[q] # NoReq =>
       /\ rows[req[q]].status \in {"retrying", "dead", "delivered"}
       /\ tally[req[q][1]].failed > 0
=============================================================================
