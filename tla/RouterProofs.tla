---------------------------- MODULE RouterProofs ----------------------------
(***************************************************************************)
(* What holds of Router for every set of requests, targets and plans: it   *)
(* implements Dispatcher, and Ingest too; an event called delivered is     *)
(* acknowledged by every target, and the counters claim no more than the   *)
(* tables show.  Manual retries may overlap in all of this.                *)
(***************************************************************************)
EXTENDS Router, FiniteSetTheorems, SequenceTheorems, TLAPS

\* The theorems of the two modules about these deliveries and these handlers.
DP == INSTANCE DispatcherProofs WITH
  Blocked <- Requests \X Forbidden,
  Disconnects <- Leaving \X Targets

IP == INSTANCE IngestOutcomeProofs WITH pc <- hpc, deliveries <- Table

-----------------------------------------------------------------------------
\* D and DP name the same module, and so do I and IP.

\* Their assumptions follow from that of Router.
LEMMA DispatcherConstants ==
  /\ Requests \X Forbidden \subseteq Deliveries
  /\ Leaving \X Targets \subseteq Deliveries
  /\ NoReq \notin Deliveries
  /\ MaxRetries \in Nat \ {0}
  /\ BatchLimit \in Nat \ {0}
  /\ JitterRaces \in BOOLEAN
  /\ MaxRequeues \in Nat
  /\ MaxCrashes \in Nat
BY RouterAssumption DEF Deliveries

\* The same of the handlers.
LEMMA IngestConstants ==
  /\ Leaving \subseteq Requests
  /\ NoRequest \notin Requests
  /\ Enabled \subseteq Targets
  /\ Inputs \subseteq IP!Input
  /\ Plans \subseteq Seq(Targets)
  /\ JitterRaces \in BOOLEAN
  /\ MaxCrashes \in Nat
BY RouterAssumption DEF I!Input, IP!Input

\* What the goroutines make of rows.
LEMMA SameRows ==
  /\ D!NewRow = DP!NewRow /\ D!NoRow = DP!NoRow /\ D!Requeued = DP!Requeued
  /\ \A v : D!Refused(v) = DP!Refused(v) /\ D!Due(v) = DP!Due(v) /\ (D!IsDue(v) <=> DP!IsDue(v))
  /\ \A v : D!Requeueable(v) <=> DP!Requeueable(v)
  /\ \A v, a : D!Outcome(v, a) = DP!Outcome(v, a)
  /\ D!Kind = DP!Kind /\ D!Answers = DP!Answers
BY DEF D!NewRow, DP!NewRow, D!NoRow, DP!NoRow, D!Requeued, DP!Requeued, D!Refused, DP!Refused,
  D!Due, DP!Due, D!IsDue, DP!IsDue, D!Requeueable, DP!Requeueable, D!Outcome, DP!Outcome,
  D!MarkFailed, DP!MarkFailed, D!RowWith, DP!RowWith, D!Kind, DP!Kind, D!Answers, DP!Answers

\* How goroutines leave a delivery, and how all of them end.
LEMMA SameLeaving ==
  /\ D!Alive <=> DP!Alive
  /\ \A k, d : (D!CtxDone(k, d) <=> DP!CtxDone(k, d)) /\ (D!Finish(k, d) <=> DP!Finish(k, d))
  /\ D!Die <=> DP!Die
BY SameRows DEF D!Alive, DP!Alive, D!CtxDone, DP!CtxDone, D!Finish, DP!Finish, D!Left, DP!Left,
  D!Die, DP!Die

\* The handler's part of Deliver.
LEMMA SameHandling ==
  \A d : /\ D!Create(d) <=> DP!Create(d)
         /\ D!CheckRefuse(d) <=> DP!CheckRefuse(d)
         /\ D!CheckAllow(d) <=> DP!CheckAllow(d)
         /\ D!Cancel(d) <=> DP!Cancel(d)
BY SameRows, SameLeaving DEF D!Create, DP!Create, D!CheckRefuse, DP!CheckRefuse, D!CheckAllow,
  DP!CheckAllow, D!Cancel, DP!Cancel

\* send, and the panics under it.
LEMMA SameSending ==
  \A k, d : /\ D!Post(k, d) <=> DP!Post(k, d)
            /\ D!Record(k, d) <=> DP!Record(k, d)
            /\ D!Write(k, d) <=> DP!Write(k, d)
            /\ D!JitterPanic(k, d) <=> DP!JitterPanic(k, d)
BY SameRows, SameLeaving DEF D!Post, DP!Post, D!Record, DP!Record, D!Write, DP!Write,
  D!RecordTakes, DP!RecordTakes, D!UpdateTakes, DP!UpdateTakes, D!JitterPanic, DP!JitterPanic,
  D!Drawing, DP!Drawing, D!Drawers, DP!Drawers, D!RequestersDrawing, DP!RequestersDrawing

\* The batches of the worker.
LEMMA SameRetrying ==
  /\ D!Scan <=> DP!Scan
  /\ \A d : (D!Fetch(d) <=> DP!Fetch(d)) /\ (D!Skip(d) <=> DP!Skip(d))
<1>1. {d \in Deliveries : D!IsDue(rows[d])} = {d \in Deliveries : DP!IsDue(rows[d])}
  BY SameRows
<1>c. \A S : D!Cardinality(S) = DP!Cardinality(S)
  BY DEF D!Cardinality, DP!Cardinality
<1>2. D!Scan <=> DP!Scan
  BY <1>1, <1>c, SameRows DEF D!Scan, DP!Scan
<1>3. \A d : (D!Fetch(d) <=> DP!Fetch(d)) /\ (D!Skip(d) <=> DP!Skip(d))
  BY SameLeaving DEF D!Fetch, DP!Fetch, D!Skip, DP!Skip, D!WorkerFree, DP!WorkerFree
<1> QED BY <1>2, <1>3

\* Manual retries.
LEMMA SameRequeuing ==
  /\ \A r, d : D!RequeueLoad(r, d) <=> DP!RequeueLoad(r, d)
  /\ \A r : (D!RequeueWrite(r) <=> DP!RequeueWrite(r)) /\ (D!RequeueDrop(r) <=> DP!RequeueDrop(r))
BY SameRows, SameLeaving DEF D!RequeueLoad, DP!RequeueLoad, D!RequeueWrite, DP!RequeueWrite,
  D!RequeueDrop, DP!RequeueDrop

\* The clock and the process.
LEMMA SameProcess ==
  /\ \A d : D!Elapse(d) <=> DP!Elapse(d)
  /\ (D!Stop <=> DP!Stop) /\ (D!Crash <=> DP!Crash) /\ (D!Restart <=> DP!Restart)
BY SameRows, SameLeaving DEF D!Elapse, DP!Elapse, D!Stop, DP!Stop, D!Crash, DP!Crash,
  D!Restart, DP!Restart

\* So the two names have one specification.
LEMMA SameDispatcher ==
  /\ D!Init => DP!Init
  /\ D!Next <=> DP!Next
  /\ UNCHANGED D!vars <=> UNCHANGED DP!vars
<1>1. D!Init => DP!Init
  BY SameRows DEF D!Init, DP!Init
<1>2. \A k, d : D!SendStep(k, d) <=> DP!SendStep(k, d)
  BY SameSending DEF D!SendStep, DP!SendStep
<1>3. D!Next <=> DP!Next
  BY <1>2, SameRows, SameHandling, SameSending, SameRetrying, SameRequeuing, SameProcess
  DEF D!Next, DP!Next
<1>4. UNCHANGED D!vars <=> UNCHANGED DP!vars
  BY DEF D!vars, DP!vars
<1> QED BY <1>1, <1>3, <1>4

\* Likewise the handlers.
LEMMA SameIngest ==
  /\ I!Init <=> IP!Init
  /\ I!Next <=> IP!Next
  /\ UNCHANGED I!vars <=> UNCHANGED IP!vars
<1>1. I!Init <=> IP!Init
  BY DEF I!Init, IP!Init, I!Tally, IP!Tally
<1>2. I!Next <=> IP!Next
  BY DEF I!Next, I!Step, I!Arrive, I!Screen, I!Lookup, I!Insert, I!Match, I!Pass, I!Take,
     I!CreateDelivery, I!Sent, I!JitterPanic, I!Conclude, I!Background, I!End, I!Crash,
     I!Goto, I!Answer, I!asked, I!loop, I!Failing, I!Checks, I!Objection, I!Replayed, I!Inserts,
     I!InPlan, I!Passes, I!DeliveryRow, I!Current, I!Marked, I!Outcomes, I!Tally, I!StatusTakes,
     I!FinalStatus, I!WasDead,
     IP!Next, IP!Step, IP!Arrive, IP!Screen, IP!Lookup, IP!Insert, IP!Match, IP!Pass, IP!Take,
     IP!CreateDelivery, IP!Sent, IP!JitterPanic, IP!Conclude, IP!Background, IP!End, IP!Crash,
     IP!Goto, IP!Answer, IP!asked, IP!loop, IP!Failing, IP!Checks, IP!Objection, IP!Replayed,
     IP!Inserts, IP!InPlan, IP!Passes, IP!DeliveryRow, IP!Current, IP!Marked, IP!Outcomes,
     IP!Tally, IP!StatusTakes, IP!FinalStatus, IP!WasDead
<1>3. UNCHANGED I!vars <=> UNCHANGED IP!vars
  BY DEF I!vars, IP!vars
<1> QED BY <1>1, <1>2, <1>3

-----------------------------------------------------------------------------
\* Router implements Dispatcher.

\* What a step of the handlers' own does to the fan-out: it stays where it is, or one of
\* the steps below moves it.
LEMMA FanOutInit == Init => FanOutInPlan
BY DEF Init, I!Init, FanOutInPlan, I!Routing

\* A fan-out never leaves its plan while it is at work on a target.
LEMMA FanOutStep == FanOutInPlan /\ [Next]_vars => FanOutInPlan'
<1> SUFFICES ASSUME FanOutInPlan, [Next]_vars PROVE FanOutInPlan'
  OBVIOUS
<1> USE DEF FanOutInPlan, I!Routing, I!InPlan
<1>1. ASSUME NEW r \in Requests, Handle(r) PROVE FanOutInPlan'
  <2> USE DEF Handle, I!Goto, I!Answer, I!loop
  <2>1. CASE I!Arrive(r)
    BY <2>1 DEF I!Arrive
  <2>2. CASE I!Screen(r)
    BY <2>2 DEF I!Screen
  <2>3. CASE I!Lookup(r)
    BY <2>3 DEF I!Lookup
  <2>4. CASE I!Insert(r)
    BY <2>4 DEF I!Insert
  <2>5. CASE I!Match(r)
    BY <2>5, RouterAssumption DEF I!Match
  <2>6. CASE I!Pass(r)
    BY <2>6 DEF I!Pass
  <2>7. CASE I!Take(r)
    BY <2>7 DEF I!Take
  <2>8. CASE I!Conclude(r)
    BY <2>8 DEF I!Conclude
  <2> QED BY <1>1, <2>1, <2>2, <2>3, <2>4, <2>5, <2>6, <2>7, <2>8
<1>2. ASSUME NEW r \in Requests, Open(r) PROVE FanOutInPlan'
  BY <1>2 DEF Open
<1>3. ASSUME NEW r \in Requests, Close(r) PROVE FanOutInPlan'
  BY <1>3 DEF Close
<1>4. ASSUME NEW r \in Requests, Panic(r) PROVE FanOutInPlan'
  BY <1>4 DEF Panic
<1>5. CASE Crash
  BY <1>5 DEF Crash
<1>6. CASE UNCHANGED <<hpc, plan, pos>>
  BY <1>6
<1>7. ASSUME NEW r \in Requests, Proceed(r) \/ End(r) PROVE FanOutInPlan'
  BY <1>6, <1>7 DEF Proceed, End, handlers
<1>8. CASE Work \/ Stop \/ Restart
  BY <1>6, <1>8 DEF Work, Stop, Restart, handlers
<1>9. ASSUME NEW r \in Requesters, Requeue(r) PROVE FanOutInPlan'
  BY <1>6, <1>9 DEF Requeue, handlers
<1>10. ASSUME NEW d \in Deliveries, Elapse(d) PROVE FanOutInPlan'
  BY <1>6, <1>10 DEF Elapse, handlers
<1>11. CASE UNCHANGED vars
  BY <1>6, <1>11 DEF vars, handlers
<1> QED
  BY <1>1, <1>2, <1>3, <1>4, <1>5, <1>7, <1>8, <1>9, <1>10, <1>11 DEF Next, Serve

\* The fan-out serves deliveries there can be.
LEMMA CurrentIsDelivery ==
  ASSUME FanOutInPlan, NEW r \in Requests, hpc[r] \in {"create", "sending"}
  PROVE  Current(r) \in Deliveries /\ plan[r][pos[r]] \in Targets
BY DEF FanOutInPlan, I!InPlan, Current, Deliveries

\* A step of the process is a step of the dispatcher, or does not concern it.
LEMMA DispatcherStep == FanOutInPlan /\ [Next]_vars => [D!Next]_(D!vars)
<1> SUFFICES ASSUME FanOutInPlan, [Next]_vars PROVE D!Next \/ UNCHANGED D!vars
  OBVIOUS
<1>0. "handler" \in D!Kind /\ "worker" \in D!Kind
  BY DEF D!Kind
<1> USE DEF D!vars, dispatching
<1>1. ASSUME NEW r \in Requests, Handle(r) PROVE UNCHANGED D!vars
  BY <1>1 DEF Handle, Still
<1>2. ASSUME NEW r \in Requests, Open(r) PROVE D!Next \/ UNCHANGED D!vars
  BY <1>2, CurrentIsDelivery DEF Open, D!Next
<1>3. ASSUME NEW r \in Requests, Proceed(r) PROVE D!Next
  BY <1>0, <1>3, CurrentIsDelivery DEF Proceed, D!Next, D!SendStep
<1>4. ASSUME NEW r \in Requests, Close(r) PROVE D!Next
  BY <1>0, <1>4, CurrentIsDelivery DEF Close, D!Next, D!SendStep
<1>5. ASSUME NEW r \in Requests, Panic(r) PROVE D!Next
  BY <1>0, <1>5, CurrentIsDelivery DEF Panic, D!Next
<1>6. ASSUME NEW r \in Requests, End(r) PROVE D!Next \/ UNCHANGED D!vars
  BY <1>6, CurrentIsDelivery DEF End, D!Next
<1>7. CASE Work
  BY <1>0, <1>7 DEF Work, D!Next
<1>8. ASSUME NEW r \in Requesters, Requeue(r) PROVE D!Next
  BY <1>8 DEF Requeue, D!Next
<1>9. ASSUME NEW d \in Deliveries, Elapse(d) PROVE D!Next
  BY <1>9 DEF Elapse, D!Next
<1>10. CASE Stop \/ Restart
  BY <1>10 DEF Stop, Restart, D!Next
<1>11. CASE Crash
  BY <1>0, <1>11 DEF Crash, D!Next
<1>12. CASE UNCHANGED vars
  BY <1>12 DEF vars
<1> QED
  BY <1>1, <1>2, <1>3, <1>4, <1>5, <1>6, <1>7, <1>8, <1>9, <1>10, <1>11, <1>12 DEF Next, Serve

\* Whatever handlers do, what happens to deliveries is what Dispatcher says: all that
\* holds of Dispatcher holds here.
THEOREM ImplementsDispatcher == Spec => D!Spec
<1>1. Init => D!Init
  BY DEF Init
<1> QED
  BY <1>1, FanOutInit, FanOutStep, DispatcherStep, PTL DEF Spec, D!Spec

-----------------------------------------------------------------------------
\* Joined is kept.

\* The invariants of the two modules, and what joins them.
Good == DP!IInv /\ IP!ProgressInv /\ Joined /\ FailedFirst

\* What the steps below need of the types of Dispatcher.
LEMMA GoodTypes ==
  ASSUME DP!IInv
  PROVE  /\ pc \in [{"handler", "worker"} -> [Deliveries ->
                     {"idle", "check", "queued", "post", "record", "write", "done"}]]
         /\ rows = [d \in Deliveries |-> rows[d]]
         /\ canceled \subseteq Deliveries
BY DEF DP!IInv, DP!TypeOK, DP!Kind

\* There are no deliveries at the start.
LEMMA JoinedInit == Init => Joined
<1> SUFFICES ASSUME Init PROVE Joined
  OBVIOUS
<1>1. order = <<>> /\ DOMAIN order = {}
  BY DEF Init
<1>2. \A d \in Deliveries : pc["handler"][d] = "idle"
  BY DEF Init, D!Init, D!Kind
<1>3. canceled = {} /\ \A r \in Requests : hpc[r] = "idle"
  BY DEF Init, D!Init, I!Init
<1> QED
  BY <1>1, <1>2, <1>3, FanOutInit
  DEF Joined, OrderIsTable, SendersAgree, ContextsAgree, MadeByOwner, Delivering

\* What happens outside of the handlers leaves Joined alone.
LEMMA JoinedKept ==
  ASSUME Joined, UNCHANGED <<hpc, plan, pos, key, by, ended, order, canceled>>,
         \A d \in Deliveries : pc'["handler"][d] = pc["handler"][d]
  PROVE  Joined'
<1>1. \A r : Current(r)' = Current(r)
  BY DEF Current
<1>2. FanOutInPlan'
  BY DEF Joined, FanOutInPlan, I!InPlan, I!Routing
<1>3. OrderIsTable'
  BY DEF Joined, OrderIsTable
<1>4. \A d \in Deliveries : Delivering(d)' <=> Delivering(d)
  BY DEF Delivering
<1>5. SendersAgree'
  BY <1>1, <1>4, CurrentIsDelivery DEF Joined, SendersAgree
<1>6. ContextsAgree' /\ MadeByOwner'
  BY <1>1 DEF Joined, ContextsAgree, MadeByOwner
<1> QED BY <1>2, <1>3, <1>5, <1>6 DEF Joined

\* The handler's own steps are none of those that Deliver takes, and give no key away.
LEMMA HandleMoves ==
  ASSUME Good, NEW r \in Requests, Handle(r)
  PROVE  /\ hpc[r] # "sending" /\ hpc'[r] # "sending"
         /\ \A q \in Requests \ {r} :
              hpc'[q] = hpc[q] /\ plan'[q] = plan[q] /\ pos'[q] = pos[q]
         /\ \A k \in Keys : by[k] \in Requests => by'[k] = by[k]
         /\ UNCHANGED <<key, ended, crashes, order>>
<1>0. /\ hpc \in [Requests -> {"idle", "screen", "lookup", "insert", "done", "gone"} \cup I!Routing]
      /\ plan \in [Requests -> Seq(Targets)] /\ pos \in [Requests -> Nat \ {0}]
  BY DEF Good, Joined, FanOutInPlan
<1>k. /\ by \in [Keys -> Requests \cup {NoRequest}] /\ key \in [Requests -> Keys]
      /\ \A k \in Keys : status[k] = "none" => by[k] = NoRequest
  BY DEF Good, IP!ProgressInv, IP!RouteInv, IP!TypeInv, IP!IInv, IP!Shape, IP!KeyOwned
<1> USE <1>0, <1>k DEF Handle, Still, I!Goto, I!Answer, I!loop, I!asked
<1>1. CASE I!Arrive(r)
  BY <1>1 DEF I!Arrive
<1>2. CASE I!Screen(r)
  BY <1>2 DEF I!Screen
<1>3. CASE I!Lookup(r)
  BY <1>3 DEF I!Lookup
<1>4. CASE I!Insert(r)
  BY <1>4, RouterAssumption DEF I!Insert, I!Inserts
<1>5. CASE I!Match(r)
  BY <1>5 DEF I!Match
<1>6. CASE I!Pass(r)
  BY <1>6 DEF I!Pass
<1>7. CASE I!Take(r)
  BY <1>7 DEF I!Take
<1>8. CASE I!Conclude(r)
  BY <1>8 DEF I!Conclude
<1> QED BY <1>1, <1>2, <1>3, <1>4, <1>5, <1>6, <1>7, <1>8

\* Deliver is called: the delivery is new, and is the one its request is sending.
LEMMA JoinedOpen ==
  ASSUME Good, NEW r \in Requests, Open(r), FanOutInPlan'
  PROVE  Joined'
<1> DEFINE c == Current(r)
<1>0. c \in Deliveries /\ c[1] = r /\ c = <<r, plan[r][pos[r]]>>
  BY CurrentIsDelivery DEF Open, Good, Joined, Current
<1>t. /\ pc \in [{"handler", "worker"} -> [Deliveries ->
                  {"idle", "check", "queued", "post", "record", "write", "done"}]]
      /\ hpc = [q \in Requests |-> hpc[q]]
  BY GoodTypes DEF Good, Joined, FanOutInPlan
<1>u. UNCHANGED <<plan, pos, key, by, ended>> /\ \A q : Current(q)' = Current(q)
  BY DEF Open, Current
<1>c. c' = c
  BY <1>u
<1> HIDE DEF c
<1>1. CASE r \in ended
  <2>1. UNCHANGED <<dispatching, order>> /\ hpc' = [hpc EXCEPT ![r] = "gone"] /\ hpc[r] = "create"
    BY <1>1 DEF Open
  <2>2. \A d \in Deliveries : Delivering(d)' <=> Delivering(d)
    BY <2>1 DEF Delivering, dispatching
  <2>3. \A q \in Requests : hpc'[q] = "sending" <=> hpc[q] = "sending"
    BY <1>t, <2>1
  <2>4. \A d \in Deliveries : d[1] \in Requests
    BY DEF Deliveries
  <2>5. SendersAgree'
    BY <1>u, <2>2, <2>3, <2>4, CurrentIsDelivery DEF Good, Joined, SendersAgree
  <2> QED
    BY <1>u, <2>1, <2>3, <2>5
    DEF Good, Joined, OrderIsTable, ContextsAgree, MadeByOwner, dispatching
<1>2. CASE r \notin ended
  <2>1. /\ D!Create(c) /\ order' = Append(order, c) /\ hpc[r] = "create"
        /\ hpc' = [hpc EXCEPT ![r] = "sending"]
    BY <1>2 DEF Open, c
  <2>2. /\ pc["handler"][c] = "idle" /\ pc'["handler"][c] = "check"
        /\ \A d \in Deliveries \ {c} : pc'["handler"][d] = pc["handler"][d]
        /\ UNCHANGED canceled
    BY <1>0, <1>t, <2>1 DEF D!Create
  <2>3. /\ order' \in Seq(Deliveries)
        /\ DOMAIN order' = DOMAIN order \cup {Len(order) + 1} /\ Len(order) + 1 \notin DOMAIN order
        /\ order'[Len(order) + 1] = c
        /\ \A i \in DOMAIN order : order'[i] = order[i] /\ order[i] \in Deliveries
    BY <1>0, <2>1 DEF Good, Joined, OrderIsTable
  <2>4. \A i \in DOMAIN order : order[i] # c
    BY <1>0, <2>2 DEF Good, Joined, OrderIsTable
  <2>5. OrderIsTable'
    <3>1. \A i, j \in DOMAIN order' : order'[i] = order'[j] => i = j
      BY <2>3, <2>4 DEF Good, Joined, OrderIsTable
    <3>2. ASSUME NEW d \in Deliveries
          PROVE  pc'["handler"][d] # "idle" <=> \E i \in DOMAIN order' : order'[i] = d
      <4>1. CASE d = c
        BY <4>1, <2>2, <2>3
      <4>2. CASE d # c
        <5>1. (\E i \in DOMAIN order' : order'[i] = d) <=> \E i \in DOMAIN order : order[i] = d
          BY <4>2, <2>3
        <5> QED BY <5>1, <4>2, <2>2 DEF Good, Joined, OrderIsTable
      <4> QED BY <4>1, <4>2
    <3> QED BY <2>3, <3>1, <3>2 DEF OrderIsTable
  <2>6. /\ Delivering(c)' /\ ~Delivering(c)
        /\ \A d \in Deliveries \ {c} : Delivering(d)' <=> Delivering(d)
    BY <1>0, <1>c, <2>2 DEF Delivering
  <2>7. /\ hpc'[r] = "sending"
        /\ \A q \in Requests \ {r} : hpc'[q] = hpc[q]
    BY <1>t, <2>1
  <2>8. \A d \in Deliveries : Delivering(d)' => hpc'[d[1]] = "sending" /\ d = Current(d[1])'
    <3>1. ASSUME NEW d \in Deliveries \ {c}, Delivering(d)'
          PROVE  hpc'[d[1]] = "sending" /\ d = Current(d[1])'
      <4>1. hpc[d[1]] = "sending" /\ d = Current(d[1]) /\ d[1] \in Requests
        BY <3>1, <2>6 DEF Good, Joined, SendersAgree, Deliveries
      <4> QED BY <4>1, <1>u, <2>1, <2>7
    <3>2. ASSUME NEW d \in Deliveries, d = c
          PROVE  hpc'[d[1]] = "sending" /\ d = Current(d[1])'
      BY <1>0, <1>u, <2>7, <3>2 DEF c
    <3> QED BY <3>1, <3>2
  <2>9. ASSUME NEW q \in Requests, hpc'[q] = "sending" PROVE Delivering(Current(q))'
    <3>1. CASE q = r
      BY <3>1, <1>u, <2>6 DEF c, Delivering
    <3>2. CASE q # r
      <4>1. hpc[q] = "sending"
        BY <3>2, <2>7, <2>9
      <4>2. Delivering(Current(q)) /\ Current(q) \in Deliveries
        BY <4>1, CurrentIsDelivery DEF Good, Joined, SendersAgree
      <4>3. Current(q) # c
        BY <4>2, <2>6
      <4> QED BY <4>2, <4>3, <1>u, <2>6 DEF Delivering
    <3> QED BY <3>1, <3>2
  <2>10. ContextsAgree'
    BY <1>2, <1>u, <2>2, <2>7 DEF Good, Joined, ContextsAgree
  <2>11. MadeByOwner'
    <3>1. by[key[r]] = r
      BY <2>1 DEF Good, IP!ProgressInv, IP!RouteInv, IP!TypeInv, IP!IInv, IP!RoutesOwnKey, IP!Routing
    <3> QED BY <1>0, <1>u, <2>3, <3>1 DEF Good, Joined, MadeByOwner
  <2> QED BY <2>5, <2>8, <2>9, <2>10, <2>11 DEF Joined, SendersAgree
<1> QED BY <1>1, <1>2

\* Deliver goes on.
LEMMA JoinedProceed ==
  ASSUME Good, NEW r \in Requests, Proceed(r)
  PROVE  Joined'
<1> DEFINE c == Current(r)
<1>0. c \in Deliveries /\ Delivering(c) /\ hpc[r] = "sending"
  BY CurrentIsDelivery DEF Proceed, Good, Joined, SendersAgree
<1>t. pc \in [{"handler", "worker"} -> [Deliveries ->
              {"idle", "check", "queued", "post", "record", "write", "done"}]]
  BY GoodTypes DEF Good
<1>u. UNCHANGED <<hpc, plan, pos, key, by, ended, order>> /\ \A q : Current(q)' = Current(q)
  BY DEF Proceed, handlers, Current
<1>1. D!CheckAllow(c) \/ D!Post("handler", c) \/ D!Record("handler", c)
  BY DEF Proceed
<1> HIDE DEF c
<1>2. /\ pc'["handler"][c] \in {"post", "record", "write"}
      /\ \A d \in Deliveries \ {c} : pc'["handler"][d] = pc["handler"][d]
      /\ UNCHANGED canceled
  <2>1. CASE D!CheckAllow(c)
    BY <1>0, <1>t, <2>1 DEF D!CheckAllow
  <2>2. CASE D!Post("handler", c)
    BY <1>0, <1>t, <2>2 DEF D!Post
  <2>3. CASE D!Record("handler", c)
    BY <1>0, <1>t, <2>3 DEF D!Record
  <2> QED BY <1>1, <2>1, <2>2, <2>3
<1>3. \A d \in Deliveries : pc'["handler"][d] # "idle" <=> pc["handler"][d] # "idle"
  BY <1>0, <1>2 DEF Delivering
<1>4. \A d \in Deliveries : Delivering(d)' <=> Delivering(d)
  <2>1. ASSUME NEW d \in Deliveries, d = c PROVE Delivering(d)' /\ Delivering(d)
    BY <1>0, <1>2, <2>1 DEF Delivering
  <2>2. ASSUME NEW d \in Deliveries, d # c PROVE Delivering(d)' <=> Delivering(d)
    BY <1>2, <2>2 DEF Delivering
  <2> QED BY <2>1, <2>2
<1>5. FanOutInPlan'
  BY <1>u DEF Good, Joined, FanOutInPlan, I!InPlan, I!Routing
<1>6. OrderIsTable'
  BY <1>u, <1>3 DEF Good, Joined, OrderIsTable
<1>7. SendersAgree'
  BY <1>u, <1>4, CurrentIsDelivery DEF Good, Joined, SendersAgree
<1>8. ContextsAgree' /\ MadeByOwner'
  BY <1>u, <1>2 DEF Good, Joined, ContextsAgree, MadeByOwner
<1> QED BY <1>5, <1>6, <1>7, <1>8 DEF Joined

\* The handler leaves Deliver, by returning from it or by a panic.
LEMMA JoinedLeave ==
  ASSUME Good, FanOutInPlan', NEW r \in Requests, hpc[r] = "sending",
         UNCHANGED <<plan, key, by, ended, order, canceled>>,
         pc'["handler"][Current(r)] = "done",
         \A d \in Deliveries \ {Current(r)} : pc'["handler"][d] = pc["handler"][d],
         hpc'[r] \in {"fanout", "gone"},
         \A q \in Requests \ {r} : hpc'[q] = hpc[q] /\ pos'[q] = pos[q]
  PROVE  Joined'
<1> DEFINE c == Current(r)
<1>0. c \in Deliveries /\ Delivering(c) /\ c[1] = r
  BY CurrentIsDelivery DEF Good, Joined, SendersAgree, Current
<1>1. OrderIsTable'
  <2>1. \A d \in Deliveries : pc'["handler"][d] # "idle" <=> pc["handler"][d] # "idle"
    BY <1>0 DEF Delivering
  <2> QED BY <2>1 DEF Good, Joined, OrderIsTable
<1>2. \A q \in Requests \ {r} : Current(q)' = Current(q)
  BY DEF Current
<1>3. \A d \in Deliveries : Delivering(d)' <=> Delivering(d) /\ d # c
  <2>1. ASSUME NEW d \in Deliveries, d = c PROVE ~Delivering(d)'
    BY <2>1 DEF Delivering
  <2>2. ASSUME NEW d \in Deliveries, d # c PROVE Delivering(d)' <=> Delivering(d)
    BY <2>2 DEF Delivering
  <2> QED BY <2>1, <2>2
<1> HIDE DEF c
<1>4. ASSUME NEW d \in Deliveries, Delivering(d)'
      PROVE  hpc'[d[1]] = "sending" /\ d = Current(d[1])'
  <2>1. d # c /\ hpc[d[1]] = "sending" /\ d = Current(d[1]) /\ d[1] \in Requests
    BY <1>3, <1>4 DEF Good, Joined, SendersAgree, Deliveries
  <2>2. d[1] # r
    BY <2>1 DEF c
  <2> QED BY <1>2, <2>1, <2>2
<1>5. ASSUME NEW q \in Requests, hpc'[q] = "sending" PROVE Delivering(Current(q))'
  <2>1. q # r /\ hpc[q] = "sending"
    BY <1>5
  <2>2. Delivering(Current(q)) /\ Current(q) \in Deliveries /\ Current(q)' = Current(q)
    BY <1>2, <2>1, CurrentIsDelivery DEF Good, Joined, SendersAgree
  <2>3. Current(q) # c
    BY <2>1 DEF c, Current
  <2> QED BY <2>2, <2>3 DEF Delivering, c
<1>6. ContextsAgree' /\ MadeByOwner'
  BY <1>2 DEF Good, Joined, ContextsAgree, MadeByOwner
<1> QED BY <1>1, <1>4, <1>5, <1>6 DEF Joined, SendersAgree

\* What Deliver ends with: a row, and nobody at work on it.
LEMMA CloseMoves ==
  ASSUME Good, NEW r \in Requests, Close(r)
  PROVE  LET c == Current(r) IN
         /\ hpc[r] = "sending" /\ c \in Deliveries /\ Delivering(c)
         /\ pc'["handler"][c] = "done"
         /\ \A d \in Deliveries \ {c} : pc'["handler"][d] = pc["handler"][d]
         /\ hpc' = [hpc EXCEPT ![r] = "fanout"] /\ hpc'[r] = "fanout"
         /\ \A q \in Requests \ {r} : hpc'[q] = hpc[q] /\ pos'[q] = pos[q]
         /\ UNCHANGED <<plan, key, by, ended, order, canceled, phase, crashes>>
<1> DEFINE c == Current(r)
<1>0. c \in Deliveries /\ Delivering(c) /\ hpc[r] = "sending"
  BY CurrentIsDelivery DEF Close, Good, Joined, SendersAgree
<1>t. /\ pc \in [{"handler", "worker"} -> [Deliveries ->
                  {"idle", "check", "queued", "post", "record", "write", "done"}]]
      /\ hpc = [q \in Requests |-> hpc[q]] /\ pos = [q \in Requests |-> pos[q]]
  BY GoodTypes DEF Good, Joined, FanOutInPlan
<1>1. D!CheckRefuse(c) \/ D!Write("handler", c)
  BY DEF Close
<1>2. /\ D!Finish("handler", c) /\ UNCHANGED <<canceled, phase, crashes>>
      /\ hpc' = [hpc EXCEPT ![r] = "fanout"] /\ pos' = [pos EXCEPT ![r] = @ + 1]
      /\ UNCHANGED <<plan, key, by, ended, order>>
  BY <1>1 DEF Close, D!CheckRefuse, D!Write
<1> HIDE DEF c
<1>3. /\ pc'["handler"][c] = "done"
      /\ \A d \in Deliveries \ {c} : pc'["handler"][d] = pc["handler"][d]
  BY <1>0, <1>t, <1>2 DEF D!Finish, D!Left
<1>4. /\ hpc'[r] = "fanout"
      /\ \A q \in Requests \ {r} : hpc'[q] = hpc[q] /\ pos'[q] = pos[q]
  BY <1>t, <1>2
<1> QED BY <1>0, <1>2, <1>3, <1>4 DEF c

\* What a panic leaves of Deliver.
LEMMA PanicMoves ==
  ASSUME Good, NEW r \in Requests, Panic(r)
  PROVE  LET c == Current(r) IN
         /\ hpc[r] = "sending" /\ c \in Deliveries
         /\ pc'["handler"][c] = "done"
         /\ \A d \in Deliveries \ {c} : pc'["handler"][d] = pc["handler"][d]
         /\ hpc' = [hpc EXCEPT ![r] = "gone"] /\ hpc'[r] = "gone"
         /\ \A q \in Requests \ {r} : hpc'[q] = hpc[q] /\ pos'[q] = pos[q]
         /\ UNCHANGED <<rows, plan, pos, key, by, ended, order, canceled, crashes>>
<1> DEFINE c == Current(r)
<1>0. c \in Deliveries /\ hpc[r] = "sending"
  BY CurrentIsDelivery DEF Panic, Good, Joined
<1>t. /\ pc \in [{"handler", "worker"} -> [Deliveries ->
                  {"idle", "check", "queued", "post", "record", "write", "done"}]]
      /\ hpc = [q \in Requests |-> hpc[q]]
  BY GoodTypes DEF Good, Joined, FanOutInPlan
<1>1. D!JitterPanic("handler", c)
  BY DEF Panic
<1> HIDE DEF c
<1>2. D!Finish("handler", c) /\ UNCHANGED <<rows, canceled, crashes>>
  BY <1>1 DEF D!JitterPanic
<1>3. /\ pc'["handler"][c] = "done"
      /\ \A d \in Deliveries \ {c} : pc'["handler"][d] = pc["handler"][d]
  BY <1>0, <1>t, <1>2 DEF D!Finish, D!Left
<1>4. /\ hpc' = [hpc EXCEPT ![r] = "gone"]
      /\ UNCHANGED <<plan, pos, key, by, ended, order>>
  BY DEF Panic
<1>5. hpc'[r] = "gone" /\ \A q \in Requests \ {r} : hpc'[q] = hpc[q]
  BY <1>t, <1>4
<1> QED BY <1>0, <1>2, <1>3, <1>4, <1>5 DEF c

\* The end of a context reaches handler and delivery at once.
LEMMA JoinedEnd ==
  ASSUME Good, NEW r \in Requests, End(r)
  PROVE  Joined'
<1>u. /\ UNCHANGED <<hpc, plan, pos, key, by, order, pc>> /\ \A q : Current(q)' = Current(q)
      /\ ended' = ended \cup {r}
  BY DEF End, dispatching, D!Cancel, Current
<1>1. FanOutInPlan'
  BY <1>u DEF Good, Joined, FanOutInPlan, I!InPlan, I!Routing
<1>2. OrderIsTable' /\ MadeByOwner'
  BY <1>u DEF Good, Joined, OrderIsTable, MadeByOwner
<1>3. SendersAgree'
  BY <1>u DEF Good, Joined, SendersAgree, Delivering
<1>4. CASE hpc[r] = "sending"
  <2>1. canceled' = canceled \cup {Current(r)}
    BY <1>4 DEF End, D!Cancel
  <2>2. Current(r)[1] = r
    BY DEF Current
  <2>3. ContextsAgree'
    BY <1>u, <2>1, <2>2 DEF Good, Joined, ContextsAgree
  <2> QED BY <1>1, <1>2, <1>3, <2>3 DEF Joined
<1>5. CASE hpc[r] # "sending"
  <2>1. canceled' = canceled
    BY <1>5 DEF End, dispatching
  <2>2. ContextsAgree'
    BY <1>u, <1>5, <2>1 DEF Good, Joined, ContextsAgree
  <2> QED BY <1>1, <1>2, <1>3, <2>2 DEF Joined
<1> QED BY <1>4, <1>5

\* What the end of the process does to handlers.
LEMMA CrashMoves ==
  ASSUME Good, Crash
  PROVE  /\ crashes < MaxCrashes /\ crashes' = crashes + 1
         /\ pc' = [k \in {"handler", "worker"} |-> [d \in Deliveries |->
                     IF k = "handler" /\ pc[k][d] # "idle" THEN "done" ELSE "idle"]]
         /\ hpc' = [r \in Requests |-> IF hpc[r] \in {"idle", "done"} THEN hpc[r] ELSE "gone"]
         /\ UNCHANGED <<rows, trail, canceled, status, by, key, input, plan, pos, seen, tally,
                        reply, ended, order>>
<1>1. D!Die
  BY DEF Crash, D!Crash, D!JitterPanic
<1> QED BY <1>1 DEF Crash, D!Die, D!Kind

\* Nobody delivers when the process has ended.
LEMMA JoinedCrash ==
  ASSUME Good, Crash, FanOutInPlan'
  PROVE  Joined'
<1>u. /\ \A d \in Deliveries :
           /\ pc'["handler"][d] # "idle" <=> pc["handler"][d] # "idle"
           /\ pc'["handler"][d] \in {"idle", "done"}
      /\ \A r \in Requests : hpc'[r] # "sending"
      /\ UNCHANGED <<canceled, by, key, ended, order>>
  BY CrashMoves
<1>1. OrderIsTable' /\ MadeByOwner'
  BY <1>u DEF Good, Joined, OrderIsTable, MadeByOwner
<1>2. SendersAgree' /\ ContextsAgree'
  BY <1>u DEF Good, Joined, SendersAgree, ContextsAgree, Delivering
<1> QED BY <1>1, <1>2 DEF Joined

\* The handler's own steps leave deliveries alone.
LEMMA JoinedHandle ==
  ASSUME Good, NEW r \in Requests, Handle(r), FanOutInPlan'
  PROVE  Joined'
<1>u. UNCHANGED <<key, ended, order, pc, canceled>>
  BY HandleMoves DEF Handle, Still, dispatching
<1>h. /\ hpc[r] # "sending" /\ hpc'[r] # "sending"
      /\ \A q \in Requests \ {r} :
           hpc'[q] = hpc[q] /\ plan'[q] = plan[q] /\ pos'[q] = pos[q]
      /\ \A k \in Keys : by[k] \in Requests => by'[k] = by[k]
  BY HandleMoves
<1>1. OrderIsTable'
  BY <1>u DEF Good, Joined, OrderIsTable
<1>2. \A q \in Requests \ {r} : Current(q)' = Current(q)
  BY <1>h DEF Current
<1>3. \A d \in Deliveries : d[1] \in Requests
  BY DEF Deliveries
<1>4. \A d \in Deliveries : Delivering(d)' <=> Delivering(d)
  BY <1>u DEF Delivering
<1>5. ASSUME NEW d \in Deliveries, Delivering(d)'
      PROVE  hpc'[d[1]] = "sending" /\ d = Current(d[1])'
  <2>1. hpc[d[1]] = "sending" /\ d = Current(d[1]) /\ d[1] # r
    BY <1>4, <1>5, <1>h DEF Good, Joined, SendersAgree
  <2> QED BY <2>1, <1>2, <1>3, <1>h
<1>6. ASSUME NEW q \in Requests, hpc'[q] = "sending" PROVE Delivering(Current(q))'
  <2>1. q # r /\ hpc[q] = "sending"
    BY <1>6, <1>h
  <2> QED BY <1>2, <1>u, <2>1 DEF Good, Joined, SendersAgree, Delivering
<1>7. ContextsAgree'
  BY <1>2, <1>h, <1>u DEF Good, Joined, ContextsAgree
<1>8. MadeByOwner'
  <2>1. \A i \in DOMAIN order : order[i][1] \in Requests /\ key[order[i][1]] \in Keys
    BY <1>3 DEF Good, Joined, OrderIsTable, IP!ProgressInv, IP!RouteInv, IP!TypeInv, IP!IInv,
       IP!Shape
  <2> QED BY <1>h, <1>u, <2>1 DEF Good, Joined, MadeByOwner
<1> QED BY <1>1, <1>5, <1>6, <1>7, <1>8 DEF Joined, SendersAgree

\* The worker does nothing to the handlers' part of a delivery.
LEMMA JoinedWork ==
  ASSUME Good, Work
  PROVE  Joined'
<1>t. pc \in [{"handler", "worker"} -> [Deliveries ->
              {"idle", "check", "queued", "post", "record", "write", "done"}]]
  BY GoodTypes DEF Good
<1>u. UNCHANGED <<hpc, plan, pos, key, by, ended, order>>
  BY DEF Work, handlers
<1>1. UNCHANGED canceled /\ \A d \in Deliveries : pc'["handler"][d] = pc["handler"][d]
  <2>1. CASE D!Scan
    BY <1>t, <2>1 DEF D!Scan
  <2>2. ASSUME NEW d \in Deliveries, D!Fetch(d) \/ D!Skip(d) \/ D!SendStep("worker", d)
        PROVE  UNCHANGED canceled /\ \A e \in Deliveries : pc'["handler"][e] = pc["handler"][e]
    BY <1>t, <2>2 DEF D!Fetch, D!Skip, D!SendStep, D!Post, D!Record, D!Write, D!Finish, D!Left
  <2> QED BY <2>1, <2>2 DEF Work
<1> QED BY <1>1, <1>u, JoinedKept DEF Good

\* Every step keeps Joined.
LEMMA JoinedStep == Good /\ [Next]_vars => Joined'
<1> SUFFICES ASSUME Good, [Next]_vars PROVE Joined'
  OBVIOUS
<1>0. FanOutInPlan'
  BY FanOutStep DEF Good, Joined
<1>1. ASSUME NEW r \in Requests, Serve(r) PROVE Joined'
  <2>1. CASE Handle(r)
    BY <1>0, <2>1, JoinedHandle
  <2>2. CASE Open(r)
    BY <1>0, <2>2, JoinedOpen
  <2>3. CASE Proceed(r)
    BY <2>3, JoinedProceed
  <2>4. CASE Close(r)
    BY <1>0, <2>4, CloseMoves, JoinedLeave
  <2>5. CASE Panic(r)
    BY <1>0, <2>5, PanicMoves, JoinedLeave
  <2> QED BY <1>1, <2>1, <2>2, <2>3, <2>4, <2>5 DEF Serve
<1>2. ASSUME NEW r \in Requests, End(r) PROVE Joined'
  BY <1>2, JoinedEnd
<1>3. CASE Work
  BY <1>3, JoinedWork
<1>4. CASE Crash
  BY <1>0, <1>4, JoinedCrash
<1>5. CASE UNCHANGED <<handlers, order, pc, canceled>>
  BY <1>5, JoinedKept DEF Good, handlers
<1>6. ASSUME NEW r \in Requesters, Requeue(r) PROVE Joined'
  BY <1>5, <1>6 DEF Requeue, D!RequeueLoad, D!RequeueWrite, D!RequeueDrop
<1>7. ASSUME NEW d \in Deliveries, Elapse(d) PROVE Joined'
  BY <1>5, <1>7 DEF Elapse, D!Elapse
<1>8. CASE Stop \/ Restart
  BY <1>5, <1>8 DEF Stop, Restart, D!Stop, D!Restart
<1>9. CASE UNCHANGED vars
  BY <1>5, <1>9 DEF vars, dispatching
<1> QED BY <1>1, <1>2, <1>3, <1>4, <1>6, <1>7, <1>8, <1>9 DEF Next

-----------------------------------------------------------------------------
\* The table as the handlers see it.

\* The types that the handlers of Ingest have here.
LEMMA HandlerTypes ==
  ASSUME Good
  PROVE  /\ key \in [Requests -> Keys] /\ plan \in [Requests -> Seq(Targets)]
         /\ by \in [Keys -> Requests \cup {NoRequest}]
         /\ tally \in [Requests -> [delivered : Nat, failed : Nat]]
         /\ hpc = [r \in Requests |-> hpc[r]] /\ pos = [r \in Requests |-> pos[r]]
         /\ Table \in Seq([key : Keys, target : Targets,
                          status : {"pending", "delivered", "retrying", "dead"}])
         /\ order \in Seq(Deliveries) /\ \A i \in DOMAIN order : order[i] \in Deliveries
         /\ \A r \in Requests : hpc[r] \in {"create", "sending"} => by[key[r]] = r
<1>1. IP!Shape /\ IP!RoutesOwnKey
  BY DEF Good, IP!ProgressInv, IP!RouteInv, IP!TypeInv, IP!IInv
<1>2. order \in Seq(Deliveries) /\ \A i \in DOMAIN order : order[i] \in Deliveries
  BY DEF Good, Joined, OrderIsTable
<1> QED BY <1>1, <1>2 DEF IP!Shape, IP!DeliveryRows, IP!RoutesOwnKey, IP!Routing

\* A row of the table is a row of Dispatcher, found by its id.
LEMMA TableRows ==
  /\ DOMAIN Table = DOMAIN order
  /\ \A i \in DOMAIN order :
       /\ Table[i].key = key[order[i][1]]
       /\ Table[i].target = order[i][2]
       /\ Table[i].status = rows[order[i]].status
BY DEF Table

\* The handlers see only the statuses.
LEMMA TableKept ==
  ASSUME UNCHANGED <<order, key>>,
         \A i \in DOMAIN order : rows'[order[i]].status = rows[order[i]].status
  PROVE  Table' = Table
BY DEF Table

\* One row written is one row marked.
LEMMA TableMarked ==
  ASSUME UNCHANGED <<order, key>>, NEW i \in DOMAIN order,
         \A j \in DOMAIN order \ {i} : rows'[order[j]].status = rows[order[j]].status
  PROVE  Table' = I!Marked(i, rows'[order[i]].status)
<1> DEFINE s == rows'[order[i]].status
<1>1. I!Marked(i, s) = [j \in DOMAIN order |->
         IF j = i THEN [key |-> Table[i].key, target |-> Table[i].target, status |-> s]
         ELSE Table[j]]
  BY TableRows DEF I!Marked, I!DeliveryRow
<1>2. Table' = [j \in DOMAIN order |->
         [key |-> key[order[j][1]], target |-> order[j][2], status |-> rows'[order[j]].status]]
  BY DEF Table
<1>3. \A j \in DOMAIN order :
        Table[j] = [key |-> key[order[j][1]], target |-> order[j][2],
                    status |-> rows[order[j]].status]
  BY DEF Table
<1>4. \A j \in DOMAIN order :
        [key |-> key[order[j][1]], target |-> order[j][2], status |-> rows'[order[j]].status] =
        IF j = i THEN [key |-> Table[i].key, target |-> Table[i].target, status |-> s]
        ELSE Table[j]
  <2>1. Table[i].key = key[order[i][1]] /\ Table[i].target = order[i][2]
    BY TableRows
  <2>2. \A j \in DOMAIN order \ {i} : rows'[order[j]].status = rows[order[j]].status
    OBVIOUS
  <2> QED BY <1>3, <2>1, <2>2
<1> QED BY <1>1, <1>2, <1>4

\* A delivery created is a row appended.
LEMMA TableAppended ==
  ASSUME Good, UNCHANGED key, NEW c \in Deliveries, order' = Append(order, c),
         \A i \in DOMAIN order : rows'[order[i]].status = rows[order[i]].status
  PROVE  Table' = Append(Table, I!DeliveryRow(key[c[1]], c[2], rows'[c].status))
<1> DEFINE row == I!DeliveryRow(key[c[1]], c[2], rows'[c].status)
           n == Len(order)
<1>1. /\ order \in Seq(Deliveries) /\ n \in Nat /\ DOMAIN order = 1 .. n
      /\ DOMAIN Append(order, c) = 1 .. n + 1
      /\ Append(order, c)[n + 1] = c
      /\ \A i \in 1 .. n : Append(order, c)[i] = order[i]
  BY HandlerTypes
<1>2. Table' = [i \in 1 .. n + 1 |-> IF i = n + 1 THEN row ELSE Table[i]]
  <2>1. Table' = [i \in DOMAIN order' |->
           [key |-> key[order'[i][1]], target |-> order'[i][2], status |-> rows'[order'[i]].status]]
    BY DEF Table
  <2>2. \A i \in 1 .. n :
          Table[i] = [key |-> key[order[i][1]], target |-> order[i][2],
                      status |-> rows[order[i]].status]
    BY <1>1 DEF Table
  <2> QED BY <1>1, <2>1, <2>2 DEF I!DeliveryRow
<1>3. DOMAIN Table = 1 .. n /\ Len(Table) = n
  <2>1. DOMAIN Table = 1 .. n
    BY <1>1, TableRows
  <2>2. Table \in Seq([key : Keys, target : Targets,
                      status : {"pending", "delivered", "retrying", "dead"}])
    BY HandlerTypes
  <2>3. Len(Table) \in Nat /\ DOMAIN Table = 1 .. Len(Table)
    BY <2>2
  <2> QED BY <1>1, <2>1, <2>3
<1>4. Append(Table, row) = [i \in 1 .. n + 1 |-> IF i = n + 1 THEN row ELSE Table[i]]
  <2> DEFINE T == {Table[i] : i \in 1 .. n} \cup {row}
  <2> HIDE DEF row
  <2>1. Table = [i \in 1 .. n |-> Table[i]]
    BY <1>3 DEF Table
  <2>2. Table \in [1 .. n -> T]
    BY <2>1
  <2>3. Table \in Seq(T)
    BY <1>1, <2>2
  <2> HIDE DEF T
  <2>4. /\ Append(Table, row) \in Seq(T) /\ Len(Append(Table, row)) = n + 1
        /\ \A i \in 1 .. n : Append(Table, row)[i] = Table[i]
        /\ Append(Table, row)[n + 1] = row
    BY <1>3, <2>3, AppendProperties DEF T
  <2>5. Append(Table, row) = [i \in 1 .. n + 1 |-> Append(Table, row)[i]]
    <3>1. \A t \in Seq(T) : t = [i \in 1 .. Len(t) |-> t[i]]
      OBVIOUS
    <3> QED BY <2>4, <3>1
  <2> QED BY <1>1, <2>4, <2>5
<1> QED BY <1>2, <1>4

\* An id names one delivery.
LEMMA IdOf ==
  ASSUME Good, NEW d \in Deliveries, rows[d].status # "absent"
  PROVE  \E i \in DOMAIN order : order[i] = d /\ \A j \in DOMAIN order \ {i} : order[j] # d
<1>1. pc["handler"][d] # "idle"
  BY DEF Good, DP!IInv, DP!HandlerOwns
<1> QED BY <1>1 DEF Good, Joined, OrderIsTable

\* The row that Ingest's handler is sending for is the one its delivery has.
LEMMA CurrentRow ==
  ASSUME Good, NEW r \in Requests, hpc[r] = "sending"
  PROVE  LET c == Current(r) IN
         /\ c \in Deliveries /\ rows[c] = DP!NewRow /\ dv["handler"][c] = DP!NewRow
         /\ I!Current(r) \in DOMAIN order
         /\ order[I!Current(r)] = c
         /\ \A j \in DOMAIN order \ {I!Current(r)} : order[j] # c
<1> DEFINE c == Current(r)
<1>1. c \in Deliveries /\ Delivering(c) /\ c[1] = r /\ c[2] = plan[r][pos[r]]
  BY CurrentIsDelivery DEF Good, Joined, SendersAgree, Current
<1>2. rows[c] = DP!NewRow /\ dv["handler"][c] = DP!NewRow
  BY <1>1 DEF Good, DP!IInv, DP!HandlerOwns, DP!Sending, Delivering
<1>3. DP!NewRow.status = "pending"
  BY DEF DP!NewRow, DP!RowWith
<1>4. PICK i \in DOMAIN order : order[i] = c /\ \A j \in DOMAIN order \ {i} : order[j] # c
  BY <1>1, <1>2, <1>3, IdOf
<1>5. ASSUME NEW j \in DOMAIN order, Table[j].key = key[r], Table[j].target = plan[r][pos[r]]
      PROVE  j = i
  <2>1. key[order[j][1]] = key[r] /\ order[j][2] = c[2]
    BY <1>1, <1>5, TableRows
  <2>2. by[key[order[j][1]]] = order[j][1] /\ by[key[r]] = r
    BY HandlerTypes DEF Good, Joined, MadeByOwner
  <2>3. order[j] \in Deliveries /\ order[j][1] = r
    BY <2>1, <2>2, HandlerTypes
  <2>4. order[j] = c
    BY <1>1, <2>1, <2>3 DEF Deliveries
  <2> QED BY <1>4, <2>4
<1>6. /\ i \in DOMAIN Table /\ Table[i].key = key[r] /\ Table[i].target = plan[r][pos[r]]
      /\ Table[i].status = "pending"
  BY <1>1, <1>2, <1>3, <1>4, TableRows
<1>7. I!Current(r) = i
  BY <1>5, <1>6, TableRows DEF I!Current
<1> QED BY <1>1, <1>2, <1>4, <1>7

-----------------------------------------------------------------------------
\* Router implements Ingest.

\* Deliver's first statement is the handler's CreateDelivery.
LEMMA OpenIsCreate ==
  ASSUME Good, NEW r \in Requests, Open(r)
  PROVE  I!CreateDelivery(r)
<1> DEFINE c == Current(r)
<1>0. /\ c \in Deliveries /\ c[1] = r /\ c[2] = plan[r][pos[r]] /\ hpc[r] = "create"
      /\ UNCHANGED <<status, by, key, input, plan, pos, seen, tally, reply, ended>>
  BY CurrentIsDelivery DEF Open, Good, Joined, Current
<1> HIDE DEF c
<1>1. CASE r \in ended
  <2>1. UNCHANGED <<rows, crashes, order>> /\ hpc' = [hpc EXCEPT ![r] = "gone"]
    BY <1>1 DEF Open, dispatching
  <2>2. Table' = Table
    BY <1>0, <2>1, TableKept
  <2> QED BY <1>0, <1>1, <2>1, <2>2 DEF I!CreateDelivery, I!Goto, I!asked, I!loop
<1>2. CASE r \notin ended
  <2>1. /\ D!Create(c) /\ order' = Append(order, c) /\ hpc' = [hpc EXCEPT ![r] = "sending"]
    BY <1>2 DEF Open, c
  <2>2. /\ pc["handler"][c] = "idle" /\ UNCHANGED crashes
        /\ rows' = [rows EXCEPT ![c] = D!NewRow]
    BY <2>1 DEF D!Create
  <2>3. D!NewRow.status = "pending"
    BY DEF D!NewRow, D!RowWith
  <2>4. rows = [d \in Deliveries |-> rows[d]]
    BY GoodTypes DEF Good
  <2>5. \A i \in DOMAIN order : order[i] # c /\ order[i] \in Deliveries
    BY <1>0, <2>2, HandlerTypes DEF Good, Joined, OrderIsTable
  <2>6. /\ rows'[c].status = "pending"
        /\ \A i \in DOMAIN order : rows'[order[i]].status = rows[order[i]].status
    BY <1>0, <2>2, <2>3, <2>4, <2>5
  <2>7. Table' = Append(Table, I!DeliveryRow(key[c[1]], c[2], rows'[c].status))
    BY <1>0, <2>1, <2>6, TableAppended
  <2> QED
    BY <1>0, <1>2, <2>1, <2>2, <2>6, <2>7 DEF I!CreateDelivery, I!Goto, I!asked, I!loop
<1> QED BY <1>1, <1>2

\* What Deliver returns and what it leaves in the row of a new delivery.
LEMMA ReturnedRow ==
  ASSUME Good, NEW r \in Requests, Close(r)
  PROVE  LET c == Current(r) IN
         /\ Returned(c) \in {"delivered", "retrying", "dead"}
         /\ \A d \in Deliveries \ {c} : rows'[d] = rows[d]
         /\ \/ rows'[c].status = Returned(c) /\ (c \in canceled => Returned(c) # "delivered")
            \/ c \in canceled /\ Returned(c) \in {"delivered", "dead"} /\ rows'[c] = rows[c]
<1> DEFINE c == Current(r)
<1>0. /\ hpc[r] = "sending" /\ c \in Deliveries
      /\ rows[c] = DP!NewRow /\ dv["handler"][c] = DP!NewRow
  BY CloseMoves, CurrentRow
<1>t. /\ rows = [d \in Deliveries |-> rows[d]]
      /\ answer["handler"][c] \in DP!Answers /\ DP!NewRow \in DP!Row
  BY <1>0, GoodTypes DEF Good, DP!IInv, DP!TypeOK, DP!Kind
<1>1. D!CheckRefuse(c) \/ D!Write("handler", c)
  BY DEF Close
<1> HIDE DEF c
<1>2. CASE D!CheckRefuse(c)
  <2>1. /\ rows' = IF c \in canceled THEN rows
                   ELSE [rows EXCEPT ![c] = D!Refused(dv["handler"][c])]
        /\ pc["handler"][c] = "check"
    BY <1>2 DEF D!CheckRefuse, D!CtxDone
  <2>2. D!Refused(dv["handler"][c]).status = "dead" /\ Returned(c) = "dead"
    BY <2>1 DEF D!Refused, D!RowWith, Returned
  <2> QED BY <1>0, <1>t, <2>1, <2>2 DEF c
<1>3. CASE D!Write("handler", c)
  <2> DEFINE a == answer["handler"][c]
             o == D!Outcome(dv["handler"][c], a)
  <2>1. /\ rows' = IF (a = "2xx" => c \notin canceled) THEN [rows EXCEPT ![c] = o] ELSE rows
        /\ pc["handler"][c] = "write"
    BY <1>3 DEF D!Write, D!UpdateTakes, D!CtxDone
  <2>2. Returned(c) = o.status
    BY <2>1 DEF Returned
  <2>3. o.status \in {"delivered", "retrying", "dead"} /\ (o.status = "delivered" <=> a = "2xx")
    BY <1>0, <1>t DEF D!Outcome, D!MarkFailed, D!RowWith, DP!Answers
  <2> HIDE DEF a, o
  <2> QED BY <1>0, <1>t, <2>1, <2>2, <2>3 DEF c
<1> QED BY <1>1, <1>2, <1>3

\* Deliver's last statement is the handler's Sent, with what Ingest lets it return and
\* leave in the row.
LEMMA CloseIsSent ==
  ASSUME Good, NEW r \in Requests, Close(r)
  PROVE  I!Sent(r)
<1> DEFINE c == Current(r)
           s == Returned(c)
           i == I!Current(r)
           left == rows'[c].status
<1>0. /\ hpc[r] = "sending" /\ c \in Deliveries
      /\ UNCHANGED <<plan, key, by, ended, order, crashes>>
      /\ hpc' = [hpc EXCEPT ![r] = "fanout"]
  BY CloseMoves
<1>1. /\ rows[c].status = "pending"
      /\ i \in DOMAIN order /\ order[i] = c /\ \A j \in DOMAIN order \ {i} : order[j] # c
  BY <1>0, CurrentRow DEF DP!NewRow, DP!RowWith
<1>2. /\ s \in {"delivered", "retrying", "dead"}
      /\ \A d \in Deliveries \ {c} : rows'[d] = rows[d]
      /\ \/ left = s /\ (c \in canceled => s # "delivered")
         \/ c \in canceled /\ s \in {"delivered", "dead"} /\ left = "pending"
  BY <1>1, ReturnedRow
<1>3. Table' = I!Marked(i, left)
  <2>1. \A j \in DOMAIN order \ {i} : rows'[order[j]].status = rows[order[j]].status
    BY <1>1, <1>2, HandlerTypes
  <2> HIDE DEF i
  <2>2. Table' = I!Marked(i, rows'[order[i]].status)
    BY <1>0, <1>1, <2>1, TableMarked
  <2> QED BY <1>1, <2>2
<1>4. <<s, left>> \in I!Outcomes(r)
  <2> HIDE DEF s, left
  <2>1. CASE r \in ended
    <3>1. c \in canceled
      BY <1>0, <2>1 DEF Good, Joined, ContextsAgree
    <3> QED BY <1>2, <2>1, <3>1 DEF I!Outcomes
  <2>2. CASE r \notin ended
    <3>1. c \notin canceled
      BY <2>2 DEF Good, Joined, ContextsAgree, Current
    <3> QED BY <1>2, <2>2, <3>1 DEF I!Outcomes
  <2> QED BY <2>1, <2>2
<1>5. /\ tally' = [tally EXCEPT ![r] = IF s = "delivered" THEN I!Tally(@.delivered + 1, @.failed)
                                                       ELSE I!Tally(@.delivered, @.failed + 1)]
      /\ pos' = [pos EXCEPT ![r] = @ + 1]
      /\ UNCHANGED <<status, input, seen, reply>>
  BY DEF Close
<1> HIDE DEF s, left, i, c
<1>6. /\ Table' = I!Marked(I!Current(r), <<s, left>>[2])
      /\ tally' = [tally EXCEPT ![r] =
                      IF <<s, left>>[1] = "delivered" THEN I!Tally(@.delivered + 1, @.failed)
                                                      ELSE I!Tally(@.delivered, @.failed + 1)]
  BY <1>3, <1>5 DEF i
<1> QED BY <1>0, <1>4, <1>5, <1>6 DEF I!Sent, I!Goto, I!asked, i

\* A panic in Deliver needs a second draw: of another handler, or of a retry.
LEMMA PanicIsPanic ==
  ASSUME Good, NEW r \in Requests, Panic(r)
  PROVE  I!JitterPanic(r)
<1> DEFINE c == Current(r)
<1>0. /\ hpc[r] = "sending" /\ c \in Deliveries /\ c[1] = r
      /\ UNCHANGED <<rows, status, by, key, input, plan, pos, seen, tally, reply, ended, order,
                     crashes>>
      /\ hpc' = [hpc EXCEPT ![r] = "gone"]
  BY PanicMoves DEF Panic, Current
<1>1. Table' = Table
  BY <1>0, TableKept
<1>2. /\ JitterRaces
      /\ D!Drawers # {<<"handler", c>>} \/ D!RequestersDrawing # {}
      /\ <<"handler", c>> \in D!Drawers
  BY <1>0 DEF Panic, D!JitterPanic, D!Drawers, D!Kind
<1>3. \/ \E q \in Requests \ {r} : hpc[q] = "sending"
      \/ \E i \in DOMAIN Table : Table[i].status \in {"retrying", "dead"} \/ I!WasDead(i)
  <2>1. ASSUME NEW d \in Deliveries, rows[d].status \in {"retrying", "dead", "delivered"},
               tally[d[1]].failed > 0
        PROVE  \E i \in DOMAIN Table : Table[i].status \in {"retrying", "dead"} \/ I!WasDead(i)
    <3>1. PICK i \in DOMAIN order : order[i] = d
      BY <2>1, IdOf
    <3>2. i \in DOMAIN Table /\ Table[i].status = rows[d].status /\ by[Table[i].key] = d[1]
      BY <3>1, TableRows DEF Good, Joined, MadeByOwner
    <3> QED BY <2>1, <3>2 DEF I!WasDead
  <2>2. CASE D!RequestersDrawing # {}
    <3>1. PICK q \in Requesters : req[q] # NoReq
      BY <2>2 DEF D!RequestersDrawing
    <3>2. /\ req[q] \in Deliveries /\ tally[req[q][1]].failed > 0
          /\ rows[req[q]].status \in {"retrying", "dead", "delivered"}
      BY <3>1 DEF Good, FailedFirst, DP!IInv, DP!TypeOK
    <3> QED BY <2>1, <3>2
  <2>3. CASE D!RequestersDrawing = {}
    <3>1. PICK k \in {"handler", "worker"}, d \in Deliveries :
             D!Drawing(k, d) /\ <<k, d>> # <<"handler", c>>
      <4>1. PICK kd \in D!Drawers : kd # <<"handler", c>>
        BY <1>2, <2>3
      <4>2. kd \in {"handler", "worker"} \X Deliveries /\ D!Drawing(kd[1], kd[2])
        BY <4>1 DEF D!Drawers, D!Kind
      <4>3. kd = <<kd[1], kd[2]>> /\ kd[1] \in {"handler", "worker"} /\ kd[2] \in Deliveries
        BY <4>2
      <4> QED BY <4>1, <4>2, <4>3
    <3>2. pc[k][d] = "write"
      BY <3>1 DEF D!Drawing
    <3>3. CASE k = "worker"
      <4>1. rows[d].status = "retrying" /\ tally[d[1]].failed > 0
        BY <3>2, <3>3 DEF Good, FailedFirst, DP!IInv, DP!WorkerOwns
      <4> QED BY <2>1, <4>1
    <3>4. CASE k = "handler"
      <4>1. hpc[d[1]] = "sending" /\ d = Current(d[1]) /\ d # c
        BY <3>1, <3>2, <3>4 DEF Good, Joined, SendersAgree, Delivering
      <4>2. d[1] \in Requests \ {r}
        BY <4>1 DEF Deliveries
      <4> QED BY <4>1, <4>2
    <3> QED BY <3>3, <3>4
  <2> QED BY <2>2, <2>3
<1> HIDE DEF c
<1> QED BY <1>0, <1>1, <1>2, <1>3 DEF I!JitterPanic, I!Goto, I!asked, I!loop

\* What happens to one row outside of its handler is Ingest's Background, or not seen.
LEMMA RowIsBackground ==
  ASSUME Good, UNCHANGED <<handlers, order, crashes>>, NEW d \in Deliveries,
         \A e \in Deliveries \ {d} : rows'[e].status = rows[e].status,
         \/ rows'[d].status = rows[d].status
         \/ rows[d].status = "retrying" /\ rows'[d].status \in {"delivered", "dead"}
         \/ /\ rows[d].status \in {"dead", "delivered"} /\ tally[d[1]].failed > 0
            /\ rows'[d].status = "retrying"
  PROVE  I!Next \/ UNCHANGED I!vars
<1>1. CASE rows'[d].status = rows[d].status
  <2>1. Table' = Table
    BY <1>1, TableKept, HandlerTypes DEF handlers
  <2> QED BY <2>1 DEF I!vars, handlers
<1>2. CASE rows'[d].status # rows[d].status
  <2>1. rows[d].status # "absent"
    BY <1>2
  <2>2. PICK i \in DOMAIN order : order[i] = d /\ \A j \in DOMAIN order \ {i} : order[j] # d
    BY <2>1, IdOf
  <2>3. \A j \in DOMAIN order \ {i} : rows'[order[j]].status = rows[order[j]].status
    BY <2>2, HandlerTypes
  <2>4. Table' = I!Marked(i, rows'[d].status)
    BY <2>2, <2>3, TableMarked DEF handlers
  <2>5. i \in DOMAIN Table /\ Table[i].status = rows[d].status /\ by[Table[i].key] = d[1]
    BY <2>2, TableRows DEF Good, Joined, MadeByOwner
  <2>6. I!Background(i)
    BY <1>2, <2>4, <2>5 DEF I!Background, I!WasDead, I!asked, I!loop, handlers
  <2> QED BY <2>5, <2>6 DEF I!Next
<1> QED BY <1>1, <1>2

\* The worker writes to rows that are retrying.
LEMMA WorkIsBackground ==
  ASSUME Good, Work
  PROVE  I!Next \/ UNCHANGED I!vars
<1>t. /\ rows = [d \in Deliveries |-> rows[d]]
      /\ \A d \in Deliveries : answer["worker"][d] \in DP!Answers
  BY GoodTypes DEF Good, DP!IInv, DP!TypeOK, DP!Kind
<1>u. UNCHANGED <<handlers, order>>
  BY DEF Work
<1>1. ASSUME UNCHANGED <<rows, crashes>> PROVE UNCHANGED I!vars
  <2>1. Table' = Table
    BY <1>1, <1>u, TableKept DEF handlers
  <2> QED BY <1>1, <1>u, <2>1 DEF I!vars, handlers
<1>2. CASE D!Scan
  BY <1>1, <1>2 DEF D!Scan
<1>3. ASSUME NEW d \in Deliveries,
             D!Fetch(d) \/ D!Skip(d) \/ D!Post("worker", d) \/ D!Record("worker", d)
      PROVE  UNCHANGED I!vars
  BY <1>1, <1>3 DEF D!Fetch, D!Skip, D!Post, D!Record
<1>4. ASSUME NEW d \in Deliveries, D!Write("worker", d)
      PROVE  I!Next \/ UNCHANGED I!vars
  <2> DEFINE o == D!Outcome(dv["worker"][d], answer["worker"][d])
  <2>1. rows' \in {rows, [rows EXCEPT ![d] = o]} /\ pc["worker"][d] = "write" /\ UNCHANGED crashes
    BY <1>4 DEF D!Write
  <2>2. o.status \in {"delivered", "retrying", "dead"}
    BY DEF D!Outcome, D!MarkFailed, D!RowWith
  <2>3. rows[d].status = "retrying"
    BY <2>1 DEF Good, DP!IInv, DP!WorkerOwns
  <2> HIDE DEF o
  <2>4. /\ rows'[d].status = "retrying" \/ rows'[d].status \in {"delivered", "dead"}
        /\ \A e \in Deliveries \ {d} : rows'[e].status = rows[e].status
    BY <1>t, <2>1, <2>2, <2>3
  <2> QED BY <1>u, <2>1, <2>3, <2>4, RowIsBackground
<1> QED BY <1>2, <1>3, <1>4 DEF Work, D!SendStep

\* A manual retry writes to a row that is dead, or was when it was read.
LEMMA RequeueIsBackground ==
  ASSUME Good, NEW r \in Requesters, Requeue(r)
  PROVE  I!Next \/ UNCHANGED I!vars
<1>u. UNCHANGED <<handlers, order>>
  BY DEF Requeue
<1>1. ASSUME UNCHANGED <<rows, crashes>> PROVE UNCHANGED I!vars
  <2>1. Table' = Table
    BY <1>1, <1>u, TableKept DEF handlers
  <2> QED BY <1>1, <1>u, <2>1 DEF I!vars, handlers
<1>2. ASSUME NEW d \in Deliveries, D!RequeueLoad(r, d) PROVE UNCHANGED I!vars
  BY <1>1, <1>2 DEF D!RequeueLoad
<1>3. CASE D!RequeueDrop(r)
  BY <1>1, <1>3 DEF D!RequeueDrop
<1>4. CASE D!RequeueWrite(r)
  <2>1. /\ req[r] # NoReq /\ UNCHANGED crashes
        /\ rows' = [rows EXCEPT ![req[r]] = D!Requeued]
    BY <1>4 DEF D!RequeueWrite
  <2>2. /\ req[r] \in Deliveries /\ tally[req[r][1]].failed > 0
        /\ rows[req[r]].status \in {"retrying", "dead", "delivered"}
    BY <2>1 DEF Good, FailedFirst, DP!IInv, DP!TypeOK
  <2>3. D!Requeued.status = "retrying" /\ rows = [d \in Deliveries |-> rows[d]]
    BY GoodTypes DEF D!Requeued, D!RowWith, Good
  <2>4. /\ rows'[req[r]].status = "retrying"
        /\ \A e \in Deliveries \ {req[r]} : rows'[e].status = rows[e].status
    BY <2>1, <2>2, <2>3
  <2> QED BY <1>u, <2>1, <2>2, <2>4, RowIsBackground
<1> QED BY <1>2, <1>3, <1>4 DEF Requeue

\* A step of the process is a step of Ingest, or its handlers do not see it.
LEMMA IngestStep == Good /\ [Next]_vars => [I!Next]_(I!vars)
<1> SUFFICES ASSUME Good, [Next]_vars PROVE I!Next \/ UNCHANGED I!vars
  OBVIOUS
<1>t. rows = [d \in Deliveries |-> rows[d]]
  BY GoodTypes DEF Good
<1>1. ASSUME NEW r \in Requests, Handle(r) PROVE I!Next
  BY <1>1 DEF Handle, I!Next, I!Step
<1>2. ASSUME NEW r \in Requests, Open(r) PROVE I!Next
  BY <1>2, OpenIsCreate DEF I!Next, I!Step
<1>3. ASSUME NEW r \in Requests, Close(r) PROVE I!Next
  BY <1>3, CloseIsSent DEF I!Next, I!Step
<1>4. ASSUME NEW r \in Requests, Panic(r) PROVE I!Next
  BY <1>4, PanicIsPanic DEF I!Next, I!Step
<1>5. ASSUME UNCHANGED <<handlers, order, rows, crashes>> PROVE UNCHANGED I!vars
  <2>1. Table' = Table
    BY <1>5, TableKept DEF handlers
  <2> QED BY <1>5, <2>1 DEF I!vars, handlers
<1>6. ASSUME NEW r \in Requests, Proceed(r) PROVE UNCHANGED I!vars
  BY <1>5, <1>6 DEF Proceed, D!CheckAllow, D!Post, D!Record
<1>7. ASSUME NEW r \in Requests, End(r) PROVE I!Next
  <2>1. /\ r \in Leaving \ ended /\ hpc[r] \notin {"idle", "done", "gone"}
        /\ ended' = ended \cup {r}
        /\ UNCHANGED <<status, by, hpc, key, input, plan, pos, seen, tally, reply, crashes, order,
                       rows>>
    BY <1>7 DEF End, dispatching, D!Cancel
  <2>2. Table' = Table
    BY <2>1, TableKept
  <2>3. I!End(r)
    BY <2>1, <2>2 DEF I!End, I!asked, I!loop
  <2> QED BY <2>3 DEF I!Next
<1>8. CASE Crash
  <2>1. Table' = Table
    BY <1>8, CrashMoves, TableKept
  <2>2. I!Crash
    BY <1>8, <2>1, CrashMoves DEF I!Crash, I!asked, I!loop
  <2> QED BY <2>2 DEF I!Next
<1>9. CASE Work
  BY <1>9, WorkIsBackground
<1>10. ASSUME NEW r \in Requesters, Requeue(r) PROVE I!Next \/ UNCHANGED I!vars
  BY <1>10, RequeueIsBackground
<1>11. ASSUME NEW d \in Deliveries, Elapse(d) PROVE UNCHANGED I!vars
  <2>1. rows' = [rows EXCEPT ![d] = D!Due(rows[d])] /\ UNCHANGED <<handlers, order, crashes>>
    BY <1>11 DEF Elapse, D!Elapse
  <2>2. D!Due(rows[d]).status = rows[d].status
    BY DEF D!Due, D!RowWith
  <2>3. \A e \in Deliveries : rows'[e].status = rows[e].status
    BY <1>t, <2>1, <2>2
  <2>4. Table' = Table
    BY <2>1, <2>3, TableKept, HandlerTypes DEF handlers
  <2> QED BY <2>1, <2>4 DEF I!vars, handlers
<1>12. CASE Stop \/ Restart
  BY <1>5, <1>12 DEF Stop, Restart, D!Stop, D!Restart
<1>13. CASE UNCHANGED vars
  BY <1>5, <1>13 DEF vars, dispatching
<1> QED
  BY <1>1, <1>2, <1>3, <1>4, <1>6, <1>7, <1>8, <1>9, <1>10, <1>11, <1>12, <1>13 DEF Next, Serve

-----------------------------------------------------------------------------
\* FailedFirst is kept.

\* There is nothing to retry at the start.
LEMMA FailedInit == Init => FailedFirst
BY DEF Init, D!Init, D!NoRow, D!RowWith, FailedFirst

\* What a step may do to the rows while no count changes: create one, or write to one that
\* was counted as failed; and a manual retry begins with a dead one.
RowsMove ==
  /\ UNCHANGED tally
  /\ \A d \in Deliveries :
       \/ rows'[d].status = rows[d].status
       \/ rows[d].status = "absent" /\ rows'[d].status = "pending"
       \/ rows'[d].status \in {"retrying", "dead", "delivered"} /\ tally[d[1]].failed > 0
  /\ \A q \in Requesters :
       \/ req'[q] \in {req[q], NoReq}
       \/ req'[q] \in Deliveries /\ rows[req'[q]].status = "dead"

\* Such a step keeps it,
LEMMA FailedKept ==
  ASSUME DP!TypeOK, FailedFirst, RowsMove
  PROVE  FailedFirst'
<1>0. \A q \in Requesters : req[q] \in Deliveries \cup {NoReq}
  BY DEF DP!TypeOK
<1>1. ASSUME NEW d \in Deliveries, rows'[d].status \in {"retrying", "dead"}
      PROVE  tally'[d[1]].failed > 0
  BY <1>1 DEF FailedFirst, RowsMove
<1>2. ASSUME NEW q \in Requesters, req'[q] # NoReq
      PROVE  /\ rows'[req'[q]].status \in {"retrying", "dead", "delivered"}
             /\ tally'[req'[q][1]].failed > 0
  <2>1. /\ req'[q] \in Deliveries /\ tally[req'[q][1]].failed > 0
        /\ rows[req'[q]].status \in {"retrying", "dead", "delivered"}
    BY <1>0, <1>2 DEF FailedFirst, RowsMove
  <2> QED BY <2>1 DEF RowsMove
<1> QED BY <1>1, <1>2 DEF FailedFirst

\* and so does the end of Deliver, which counts the row it leaves.
LEMMA FailedClose ==
  ASSUME Good, NEW r \in Requests, Close(r)
  PROVE  FailedFirst'
<1> DEFINE c == Current(r)
           s == Returned(c)
<1>0. /\ c \in Deliveries /\ c[1] = r /\ rows[c].status = "pending"
      /\ tally \in [Requests -> [delivered : Nat, failed : Nat]]
  BY CloseMoves, CurrentRow, HandlerTypes DEF DP!NewRow, DP!RowWith, Current
<1>1. /\ \A d \in Deliveries \ {c} : rows'[d] = rows[d]
      /\ rows'[c].status = s \/ rows'[c].status = "pending"
      /\ s \in {"delivered", "retrying", "dead"}
  BY <1>0, ReturnedRow
<1>2. tally' = [tally EXCEPT ![r] = IF s = "delivered" THEN I!Tally(@.delivered + 1, @.failed)
                                                     ELSE I!Tally(@.delivered, @.failed + 1)]
  BY DEF Close
<1>3. UNCHANGED req /\ \A q \in Requesters : req[q] \in Deliveries \cup {NoReq}
  BY DEF Close, D!CheckRefuse, D!Write, Good, DP!IInv, DP!TypeOK
<1> HIDE DEF s, c
<1>4. \A q \in Requests :
        /\ tally[q].failed > 0 => tally'[q].failed > 0
        /\ q = r /\ s # "delivered" => tally'[q].failed > 0
  BY <1>0, <1>2 DEF I!Tally
<1>5. \A d \in Deliveries : d[1] \in Requests
  BY DEF Deliveries
<1>6. ASSUME NEW d \in Deliveries, rows'[d].status \in {"retrying", "dead"}
      PROVE  tally'[d[1]].failed > 0
  <2>1. CASE d = c
    BY <1>0, <1>1, <1>4, <1>6, <2>1
  <2>2. CASE d # c
    BY <1>1, <1>4, <1>5, <1>6, <2>2 DEF Good, FailedFirst
  <2> QED BY <2>1, <2>2
<1>7. ASSUME NEW q \in Requesters, req'[q] # NoReq
      PROVE  /\ rows'[req'[q]].status \in {"retrying", "dead", "delivered"}
             /\ tally'[req'[q][1]].failed > 0
  <2>1. /\ req'[q] = req[q] /\ req[q] \in Deliveries /\ tally[req[q][1]].failed > 0
        /\ rows[req[q]].status \in {"retrying", "dead", "delivered"}
    BY <1>3, <1>7 DEF Good, FailedFirst
  <2> QED BY <1>0, <1>1, <1>4, <1>5, <2>1
<1> QED BY <1>6, <1>7 DEF FailedFirst

\* The worker writes to rows that are retrying.
LEMMA WorkRows == ASSUME Good, Work PROVE RowsMove
<1>t. /\ rows = [d \in Deliveries |-> rows[d]]
      /\ UNCHANGED <<tally, req>>
  BY GoodTypes DEF Good, Work, handlers, D!Scan, D!Fetch, D!Skip, D!SendStep, D!Post, D!Record,
     D!Write
<1>1. CASE UNCHANGED rows
  BY <1>1, <1>t DEF RowsMove
<1>2. ASSUME NEW d \in Deliveries, D!Write("worker", d) PROVE RowsMove
  <2> DEFINE o == D!Outcome(dv["worker"][d], answer["worker"][d])
  <2>1. rows' \in {rows, [rows EXCEPT ![d] = o]} /\ pc["worker"][d] = "write"
    BY <1>2 DEF D!Write
  <2>2. o.status \in {"delivered", "retrying", "dead"}
    BY DEF D!Outcome, D!MarkFailed, D!RowWith
  <2>3. tally[d[1]].failed > 0
    BY <2>1 DEF Good, FailedFirst, DP!IInv, DP!WorkerOwns
  <2> HIDE DEF o
  <2> QED BY <1>t, <2>1, <2>2, <2>3 DEF RowsMove
<1> QED BY <1>1, <1>2 DEF Work, D!Scan, D!Fetch, D!Skip, D!SendStep, D!Post, D!Record

\* A manual retry writes to the row it holds.
LEMMA RequeueRows == ASSUME Good, NEW r \in Requesters, Requeue(r) PROVE RowsMove
<1>t. /\ rows = [d \in Deliveries |-> rows[d]]
      /\ req \in [Requesters -> Deliveries \cup {NoReq}]
      /\ UNCHANGED tally
  BY GoodTypes DEF Good, Requeue, handlers, DP!IInv, DP!TypeOK
<1>1. ASSUME NEW d \in Deliveries, D!RequeueLoad(r, d) PROVE RowsMove
  <2>1. UNCHANGED rows /\ req' = [req EXCEPT ![r] = d] /\ rows[d].status = "dead"
    BY <1>1 DEF D!RequeueLoad, D!Requeueable
  <2> QED BY <1>t, <2>1 DEF RowsMove
<1>2. CASE D!RequeueDrop(r)
  BY <1>2, <1>t DEF D!RequeueDrop, RowsMove
<1>3. CASE D!RequeueWrite(r)
  <2>1. /\ rows' = [rows EXCEPT ![req[r]] = D!Requeued] /\ req' = [req EXCEPT ![r] = NoReq]
        /\ D!Requeued.status = "retrying" /\ tally[req[r][1]].failed > 0
    BY <1>3 DEF D!RequeueWrite, D!Requeued, D!RowWith, Good, FailedFirst
  <2> QED BY <1>t, <2>1 DEF RowsMove
<1> QED BY <1>1, <1>2, <1>3 DEF Requeue

\* So every step keeps it.
LEMMA FailedStep == Good /\ [Next]_vars => FailedFirst'
<1> SUFFICES ASSUME Good, [Next]_vars PROVE FailedFirst'
  OBVIOUS
<1>0. RowsMove => FailedFirst'
  BY FailedKept DEF Good, DP!IInv
<1>t. rows = [d \in Deliveries |-> rows[d]]
  BY GoodTypes DEF Good
<1>1. CASE UNCHANGED <<tally, rows, req>>
  BY <1>0, <1>1 DEF RowsMove
<1>2. ASSUME NEW r \in Requests, Handle(r) PROVE FailedFirst'
  BY <1>1, <1>2 DEF Handle, Still, dispatching, I!Arrive, I!Screen, I!Lookup, I!Insert, I!Match,
     I!Pass, I!Take, I!Conclude, I!loop
<1>3. ASSUME NEW r \in Requests, Open(r) PROVE FailedFirst'
  <2>1. CASE r \in ended
    BY <1>1, <1>3, <2>1 DEF Open, dispatching
  <2>2. CASE r \notin ended
    <3> DEFINE c == Current(r)
    <3>1. c \in Deliveries /\ UNCHANGED tally /\ D!Create(c)
      BY <1>3, <2>2, CurrentIsDelivery DEF Open, Good, Joined
    <3> HIDE DEF c
    <3>2. /\ rows' = [rows EXCEPT ![c] = D!NewRow] /\ UNCHANGED req
          /\ pc["handler"][c] = "idle" /\ D!NewRow.status = "pending"
      BY <3>1 DEF D!Create, D!NewRow, D!RowWith
    <3>3. rows[c].status = "absent"
      BY <3>1, <3>2 DEF Good, DP!IInv, DP!HandlerOwns
    <3> QED BY <1>0, <1>t, <3>1, <3>2, <3>3 DEF RowsMove
  <2> QED BY <2>1, <2>2
<1>4. ASSUME NEW r \in Requests, Proceed(r) \/ Panic(r) \/ End(r) PROVE FailedFirst'
  BY <1>1, <1>4 DEF Proceed, Panic, End, handlers, dispatching, D!CheckAllow, D!Post, D!Record,
     D!JitterPanic, D!Cancel
<1>5. ASSUME NEW r \in Requests, Close(r) PROVE FailedFirst'
  BY <1>5, FailedClose
<1>6. CASE Crash
  <2>1. D!Die /\ UNCHANGED <<tally, rows>>
    BY <1>6 DEF Crash, D!Crash, D!JitterPanic, D!Die
  <2>2. \A q \in Requesters : req'[q] = NoReq
    BY <2>1 DEF D!Die
  <2> QED BY <1>0, <2>1, <2>2 DEF RowsMove
<1>7. CASE Work
  BY <1>0, <1>7, WorkRows
<1>8. ASSUME NEW r \in Requesters, Requeue(r) PROVE FailedFirst'
  BY <1>0, <1>8, RequeueRows
<1>9. ASSUME NEW d \in Deliveries, Elapse(d) PROVE FailedFirst'
  <2>1. rows' = [rows EXCEPT ![d] = D!Due(rows[d])] /\ UNCHANGED <<tally, req>>
    BY <1>9 DEF Elapse, D!Elapse, handlers
  <2>2. D!Due(rows[d]).status = rows[d].status
    BY DEF D!Due, D!RowWith
  <2> QED BY <1>0, <1>t, <2>1, <2>2 DEF RowsMove
<1>10. CASE Stop \/ Restart \/ UNCHANGED vars
  BY <1>1, <1>10 DEF Stop, Restart, D!Stop, D!Restart, handlers, dispatching, vars
<1> QED
  BY <1>2, <1>3, <1>4, <1>5, <1>6, <1>7, <1>8, <1>9, <1>10 DEF Next, Serve

-----------------------------------------------------------------------------
\* Everything together.

\* The start is good.
LEMMA GoodInit == Init => Good
<1> SUFFICES ASSUME Init PROVE Good
  OBVIOUS
<1>1. DP!Init /\ IP!Init
  BY SameDispatcher, SameIngest DEF Init
<1>2. DP!IInv
  BY <1>1, DispatcherConstants, DP!SafeInit
<1>3. IP!ProgressInv
  BY <1>1, IngestConstants, IP!ProgressInit
<1> QED BY <1>2, <1>3, JoinedInit, FailedInit DEF Good

\* Every step is one of Dispatcher and one of Ingest, so it keeps what they promise.
LEMMA GoodStep == Good /\ [Next]_vars => Good'
<1> SUFFICES ASSUME Good, [Next]_vars PROVE Good'
  OBVIOUS
<1>1. [DP!Next]_(DP!vars)
  BY DispatcherStep, SameDispatcher DEF Good, Joined
<1>2. [IP!Next]_(IP!vars)
  BY IngestStep, SameIngest
<1>3. DP!IInv'
  BY <1>1, DispatcherConstants, DP!SafeStep DEF Good
<1>4. IP!ProgressInv'
  BY <1>2, IngestConstants, IP!ProgressStep DEF Good
<1> QED BY <1>3, <1>4, JoinedStep, FailedStep DEF Good

\* Module Ingest describes the handlers truly, whatever deliveries, the worker, manual
\* retries that overlap, panics and crashes do.
THEOREM ImplementsIngest == Spec => IngestKept
<1>1. Init => I!Init
  BY DEF Init
<1>2. Good /\ [Next]_vars => Good'
  BY GoodStep
<1> QED BY <1>1, <1>2, GoodInit, IngestStep, PTL DEF Spec, IngestKept, I!Spec

\* The invariant holds always.
LEMMA GoodAlways == Spec => []Good
<1>1. Good /\ [Next]_vars => Good'
  BY GoodStep
<1> QED BY <1>1, GoodInit, PTL DEF Spec

\* An event is called delivered only when every target of its plan has answered 2xx, and
\* the answer is on record: nothing that handlers, the worker, overlapping manual
\* retries, ended contexts and crashes do side by side makes a false "delivered".
THEOREM DeliveredIsTrue == Spec => []DeliveredIsAcked
<1>1. ASSUME Good, NEW r \in Requests, Stored(r), status[key[r]] = "delivered",
             NEW t \in I!Due(r)
      PROVE  D!Acked(<<r, t>>)
  <2>1. key[r] \in Keys /\ by[key[r]] = r /\ r # NoRequest
    BY <1>1, HandlerTypes, RouterAssumption DEF Stored
  <2>2. IP!AllServed(key[r])
    BY <1>1, <2>1 DEF Good, IP!ProgressInv
  <2>3. t \in IP!Served(r) /\ t \in Targets
    BY <1>1, <2>1, <2>2, RouterAssumption DEF IP!AllServed, IP!Due, I!Due
  <2>4. PICK i \in DOMAIN Table :
          Table[i].key = key[r] /\ Table[i].target = t /\ Table[i].status = "delivered"
    BY <2>2, <2>3 DEF IP!Served, IP!RowsOf, IP!AllServed
  <2>5. order[i] \in Deliveries /\ order[i][1] = r /\ order[i][2] = t
    BY <2>1, <2>4, TableRows, HandlerTypes, <1>1 DEF Good, Joined, MadeByOwner
  <2>6. order[i] = <<r, t>> /\ rows[<<r, t>>].status = "delivered" /\ <<r, t>> \in Deliveries
    BY <2>4, <2>5, TableRows DEF Deliveries
  <2>7. DP!Acked(<<r, t>>)
    BY <1>1, <2>6 DEF Good, DP!IInv, DP!DeliveredHasEvidence
  <2> QED BY <2>7 DEF DP!Acked, D!Acked
<1>2. Good => DeliveredIsAcked
  BY <1>1 DEF DeliveredIsAcked
<1>3. Spec => []Good
  BY GoodAlways
<1> QED BY <1>2, <1>3, PTL

-----------------------------------------------------------------------------
\* The counters.

\* The deliveries that there are.
Begun == {d \in Deliveries : pc["handler"][d] # "idle"}

\* Deliveries that Deliver has returned for, or never will; of them those that have a
\* 2xx on record and those whose context ended before it could be written.
Finished == {d \in Deliveries : pc["handler"][d] = "done"}
Vouched(d) == D!Acked(d) \/ d \in canceled
Settled == {d \in Finished : Vouched(d)}

\* Events that are stored; of them those whose request has its 202.
StoredKeys == {k \in Keys : status[k] # "none"}
AnsweredKeys == {k \in StoredKeys : reply[by[k]] = "accepted"}

\* What is counted is among them, and they are finitely many.
CountInv ==
  /\ counters \in [events : [accepted : Nat, duplicate : Nat],
                   deliveries : [delivered : Nat, retrying : Nat, dead : Nat]]
  /\ counters.deliveries.delivered <= Cardinality(Settled)
  /\ counters.deliveries.delivered + counters.deliveries.retrying + counters.deliveries.dead
       <= Cardinality(Finished)
  /\ counters.events.accepted <= Cardinality(AnsweredKeys)
  /\ IsFiniteSet(StoredKeys)
  /\ \A d \in Deliveries : Vouched(d) => pc["handler"][d] # "idle"

\* There are no more deliveries than ids.
LEMMA DeliveriesFinite == OrderIsTable => IsFiniteSet(Begun) /\ Cardinality(Begun) <= Len(order)
<1> SUFFICES ASSUME OrderIsTable PROVE IsFiniteSet(Begun) /\ Cardinality(Begun) <= Len(order)
  OBVIOUS
<1> DEFINE S == Begun
           n == Len(order)
           f == [d \in S |-> CHOOSE i \in 1 .. n : order[i] = d]
<1>1. n \in Nat /\ DOMAIN order = 1 .. n
  BY DEF OrderIsTable
<1>2. \A d \in S : \E i \in 1 .. n : order[i] = d
  BY <1>1 DEF OrderIsTable, Begun
<1>3. \A d \in S : f[d] \in 1 .. n /\ order[f[d]] = d
  BY <1>2
<1> HIDE DEF S, f, n
<1>4. f \in [S -> 1 .. n]
  BY <1>3 DEF f
<1>5. f \in Injection(S, 1 .. n)
  BY <1>3, <1>4 DEF Injection, IsInjective
<1>6. IsFiniteSet(1 .. n) /\ Cardinality(1 .. n) = n
  BY <1>1, FS_Interval
<1>7. IsFiniteSet(S) /\ Cardinality(S) <= Cardinality(1 .. n)
  BY <1>5, <1>6, FS_Injection
<1> QED BY <1>6, <1>7 DEF S, n

\* A count that a set bounds stays bounded when the set grows,
LEMMA Outgrown ==
  ASSUME NEW S, NEW T, S \subseteq T, IsFiniteSet(T), NEW n \in Nat, n <= Cardinality(S)
  PROVE  n <= Cardinality(T)
<1>1. IsFiniteSet(S) /\ Cardinality(S) <= Cardinality(T)
  BY FS_Subset
<1>2. Cardinality(S) \in Nat /\ Cardinality(T) \in Nat
  BY <1>1, FS_CardinalityType
<1> QED BY <1>1, <1>2

\* and may grow by one when the set has a new element.
LEMMA OutgrownByOne ==
  ASSUME NEW S, NEW T, S \subseteq T, NEW x \in T \ S, IsFiniteSet(T),
         NEW n \in Nat, n <= Cardinality(S)
  PROVE  n + 1 <= Cardinality(T)
<1>1. IsFiniteSet(S)
  BY FS_Subset
<1>2. IsFiniteSet(S \cup {x}) /\ Cardinality(S \cup {x}) = Cardinality(S) + 1
  BY <1>1, FS_AddElement
<1>3. Cardinality(S) \in Nat
  BY <1>1, FS_CardinalityType
<1>4. n + 1 \in Nat /\ n + 1 <= Cardinality(S \cup {x})
  BY <1>2, <1>3
<1>5. S \cup {x} \subseteq T
  OBVIOUS
<1> QED BY <1>4, <1>5, Outgrown

\* Nothing is counted at the start.
LEMMA CountInit == Init => CountInv
<1> SUFFICES ASSUME Init PROVE CountInv
  OBVIOUS
<1>1. /\ counters = Zero /\ canceled = {} /\ \A d \in Deliveries : ~Vouched(d)
      /\ \A d \in Deliveries : pc["handler"][d] = "idle"
      /\ \A k \in Keys : status[k] = "none"
  BY DEF Init, D!Init, D!Kind, I!Init, Vouched, D!Acked
<1>2. Finished = {} /\ Settled = {} /\ StoredKeys = {} /\ AnsweredKeys = {}
  BY <1>1 DEF Finished, Settled, StoredKeys, AnsweredKeys
<1> QED BY <1>1, <1>2, FS_EmptySet DEF CountInv, Zero

\* A handler never begins a delivery again nor leaves one that it has left; what is on
\* record stays there, and only a delivery that was begun is recorded or canceled.
LEMMA DeliveriesAdvance ==
  ASSUME DP!IInv, [D!Next]_(D!vars)
  PROVE  /\ \A d \in Deliveries :
              /\ pc["handler"][d] # "idle" => pc'["handler"][d] # "idle"
              /\ pc["handler"][d] = "done" => pc'["handler"][d] = "done"
         /\ \A d \in Deliveries : Vouched(d) => Vouched(d)'
         /\ \A d \in Deliveries : Vouched(d)' => Vouched(d) \/ pc["handler"][d] # "idle"
<1> DEFINE Goal == /\ \A d \in Deliveries :
                        /\ pc["handler"][d] # "idle" => pc'["handler"][d] # "idle"
                        /\ pc["handler"][d] = "done" => pc'["handler"][d] = "done"
                   /\ \A d \in Deliveries : Vouched(d) => Vouched(d)'
                   /\ \A d \in Deliveries :
                        Vouched(d)' => Vouched(d) \/ pc["handler"][d] # "idle"
<1> SUFFICES Goal
  OBVIOUS
<1>t. pc \in [{"handler", "worker"} -> [Deliveries ->
              {"idle", "check", "queued", "post", "record", "write", "done"}]]
  BY GoodTypes
<1> USE <1>t DEF D!Finish, D!Left, D!Kind, Vouched, D!Acked
<1>1. ASSUME NEW d \in Deliveries, D!Create(d) PROVE Goal
  BY <1>1 DEF D!Create
<1>2. ASSUME NEW d \in Deliveries, D!CheckRefuse(d) PROVE Goal
  BY <1>2 DEF D!CheckRefuse
<1>3. ASSUME NEW d \in Deliveries, D!CheckAllow(d) PROVE Goal
  BY <1>3 DEF D!CheckAllow
<1>4. ASSUME NEW d \in Deliveries, D!Cancel(d) PROVE Goal
  BY <1>4 DEF D!Cancel
<1>5. CASE D!Scan
  BY <1>5 DEF D!Scan
<1>6. ASSUME NEW d \in Deliveries, D!Fetch(d) \/ D!Skip(d) PROVE Goal
  BY <1>6 DEF D!Fetch, D!Skip
<1>7. ASSUME NEW k \in D!Kind, NEW d \in Deliveries, D!Post(k, d) PROVE Goal
  BY <1>7 DEF D!Post
<1>8. ASSUME NEW k \in D!Kind, NEW d \in Deliveries, D!Record(k, d) PROVE Goal
  <2>1. /\ pc[k][d] = "record" /\ pc' = [pc EXCEPT ![k][d] = "write"] /\ UNCHANGED canceled
        /\ trail' \in {trail, [trail EXCEPT ![d] = Append(@, answer[k][d])]}
    BY <1>8 DEF D!Record
  <2>2. /\ \A e \in Deliveries \ {d} : trail'[e] = trail[e]
        /\ trail'[d] \in {trail[d], Append(trail[d], answer[k][d])}
        /\ trail[d] \in Seq(DP!Answers) /\ answer[k][d] \in DP!Answers
    BY <2>1 DEF DP!IInv, DP!TypeOK, DP!Kind
  <2>3. D!Acked(d) => D!Acked(d)'
    BY <2>2
  <2>4. pc["handler"][d] # "idle"
    <3>1. DP!NoRow.status # "retrying" /\ (k = "handler" => pc["handler"][d] # "idle")
      BY <2>1 DEF DP!NoRow, DP!RowWith
    <3>2. k = "worker" => rows[d].status = "retrying"
      BY <2>1 DEF DP!IInv, DP!WorkerOwns
    <3> QED BY <3>1, <3>2 DEF DP!IInv, DP!HandlerOwns
  <2>5. \A e \in Deliveries \ {d} : Vouched(e)' <=> Vouched(e)
    BY <2>1, <2>2
  <2>6. \A e \in Deliveries :
          /\ pc["handler"][e] # "idle" => pc'["handler"][e] # "idle"
          /\ pc["handler"][e] = "done" => pc'["handler"][e] = "done"
    BY <2>1
  <2> QED BY <2>1, <2>3, <2>4, <2>5, <2>6
<1>9. ASSUME NEW k \in D!Kind, NEW d \in Deliveries, D!Write(k, d) PROVE Goal
  BY <1>9 DEF D!Write
<1>10. CASE D!Die
  BY <1>10 DEF D!Die
<1>11. ASSUME NEW k \in D!Kind, NEW d \in Deliveries, D!JitterPanic(k, d) PROVE Goal
  <2>1. CASE k = "handler"
    BY <1>11, <2>1 DEF D!JitterPanic
  <2>2. CASE k # "handler"
    BY <1>10, <1>11, <2>2 DEF D!JitterPanic
  <2> QED BY <2>1, <2>2
<1>12. CASE UNCHANGED <<pc, trail, canceled>>
  BY <1>12
<1> HIDE DEF Goal
<1>13. CASE \E r \in Requesters : D!RequeueWrite(r) \/ D!RequeueDrop(r) \/
                                 \E d \in Deliveries : D!RequeueLoad(r, d)
  BY <1>12, <1>13 DEF D!RequeueLoad, D!RequeueWrite, D!RequeueDrop
<1>14. CASE \E d \in Deliveries : D!Elapse(d)
  BY <1>12, <1>14 DEF D!Elapse
<1>15. CASE D!Stop \/ D!Restart \/ UNCHANGED D!vars
  BY <1>12, <1>15 DEF D!Stop, D!Restart, D!vars
<1>16. CASE D!Crash
  BY <1>10, <1>16 DEF D!Crash
<1>17. ASSUME NEW k \in D!Kind, NEW d \in Deliveries, D!SendStep(k, d) PROVE Goal
  BY <1>7, <1>8, <1>9, <1>17 DEF D!SendStep
<1>18. CASE D!Next
  <2>1. CASE \E d \in Deliveries : D!Create(d) \/ D!CheckRefuse(d) \/ D!CheckAllow(d) \/ D!Cancel(d)
    <3>1. PICK d \in Deliveries : D!Create(d) \/ D!CheckRefuse(d) \/ D!CheckAllow(d) \/ D!Cancel(d)
      BY <2>1
    <3> QED BY <1>1, <1>2, <1>3, <1>4, <3>1
  <2>2. CASE \E d \in Deliveries : D!Fetch(d) \/ D!Skip(d)
    <3>1. PICK d \in Deliveries : D!Fetch(d) \/ D!Skip(d)
      BY <2>2
    <3> QED BY <1>6, <3>1
  <2>3. CASE \E k \in D!Kind, d \in Deliveries : D!SendStep(k, d) \/ D!JitterPanic(k, d)
    <3>1. PICK k \in D!Kind, d \in Deliveries : D!SendStep(k, d) \/ D!JitterPanic(k, d)
      BY <2>3
    <3> QED BY <1>11, <1>17, <3>1
  <2> QED BY <1>5, <1>13, <1>14, <1>15, <1>16, <1>18, <2>1, <2>2, <2>3 DEF D!Next
<1> QED BY <1>15, <1>18

\* What the handler's own steps do to events and answers: an event stored stays stored by
\* the same request, an answer given stays, and 202 is given by the one who stored it.
LEMMA EventsAdvance ==
  ASSUME Good, NEW r \in Requests, Handle(r)
  PROVE  /\ \A k \in StoredKeys : k \in StoredKeys' /\ by'[k] = by[k] /\ by[k] \in Requests
         /\ StoredKeys' \subseteq StoredKeys \cup {key[r]}
         /\ reply[r] = "none" /\ \A q \in Requests \ {r} : reply'[q] = reply[q]
         /\ reply'[r] = "accepted" =>
              key[r] \in StoredKeys /\ by[key[r]] = r /\ UNCHANGED by
<1>0. /\ IP!Shape /\ IP!KeyOwned /\ IP!RoutesOwnKey
      /\ reply = [q \in Requests |-> reply[q]]
      /\ hpc[r] # "done" => reply[r] = "none"
  BY DEF Good, IP!ProgressInv, IP!RouteInv, IP!TypeInv, IP!IInv, IP!AnswerInv, IP!AnswerOf
<1>1. /\ key[r] \in Keys /\ hpc[r] # "done"
      /\ status \in [Keys -> {"none", "accepted", "delivered", "partially_failed", "failed"}]
      /\ by \in [Keys -> Requests \cup {NoRequest}]
      /\ \A k \in Keys : by[k] = NoRequest <=> status[k] = "none"
      /\ hpc[r] = "fanout" => by[key[r]] = r
  BY <1>0
  DEF IP!Shape, IP!KeyOwned, IP!RoutesOwnKey, IP!Routing, Handle, I!Arrive, I!Screen, I!Lookup,
      I!Insert, I!Match, I!Pass, I!Take, I!Conclude
<1> USE <1>0, <1>1, RouterAssumption DEF Handle, I!Goto, I!Answer, StoredKeys
<1>2. CASE I!Insert(r)
  BY <1>2 DEF I!Insert, I!Inserts
<1>3. CASE I!Conclude(r)
  <2>1. hpc[r] = "fanout" /\ UNCHANGED by /\ reply' = [reply EXCEPT ![r] = "accepted"]
    BY <1>3 DEF I!Conclude
  <2>2. status' \in {status, [status EXCEPT ![key[r]] =
                                I!FinalStatus(tally[r].delivered, tally[r].failed)]}
    BY <1>3 DEF I!Conclude
  <2>3. I!FinalStatus(tally[r].delivered, tally[r].failed) # "none"
    <3>1. tally[r].delivered \in Nat /\ tally[r].failed \in Nat
      BY HandlerTypes
    <3>2. /\ tally[r].delivered > 0 \/ tally[r].delivered = 0
          /\ tally[r].failed > 0 \/ tally[r].failed = 0
      BY <3>1
    <3> QED BY <3>2 DEF I!FinalStatus
  <2>4. status[key[r]] # "none"
    BY <2>1
  <2> QED BY <2>1, <2>2, <2>3, <2>4
<1>4. CASE I!Screen(r)
  <2>1. UNCHANGED <<status, by>>
    BY <1>4 DEF I!Screen
  <2>2. reply' = reply \/ reply' = [reply EXCEPT ![r] = I!Objection(input[r], r \in ended)]
    BY <1>4 DEF I!Screen
  <2>3. reply'[r] # "accepted"
    <3>1. CASE reply' = reply
      BY <3>1
    <3>2. CASE reply' # reply
      <4>1. I!Failing(input[r], r \in ended) # {}
        BY <1>4, <3>2 DEF I!Screen
      <4>2. IP!Failing(input[r], r \in ended) # {}
        BY <4>1 DEF I!Failing, IP!Failing, I!Checks, IP!Checks, I!Replayed, IP!Replayed
      <4>3. IP!Objection(input[r], r \in ended) # "accepted"
        <5> DEFINE gone == r \in ended
        <5>1. gone \in BOOLEAN
          OBVIOUS
        <5>2. IP!Failing(input[r], gone) # {}
          BY <4>2
        <5> HIDE DEF gone
        <5>3. IP!Objection(input[r], gone) # "accepted"
          BY <5>1, <5>2, IP!Objections, IngestConstants
        <5> QED BY <5>3 DEF gone
      <4>4. IP!Objection(input[r], r \in ended) = I!Objection(input[r], r \in ended)
        BY DEF I!Objection, IP!Objection, I!Failing, IP!Failing, I!Checks, IP!Checks,
           I!Replayed, IP!Replayed
      <4> QED BY <2>2, <3>2, <4>3, <4>4
    <3> QED BY <3>1, <3>2
  <2> QED BY <2>1, <2>2, <2>3
<1>5. CASE I!Lookup(r)
  BY <1>5 DEF I!Lookup
<1>6. CASE I!Match(r)
  BY <1>6 DEF I!Match
<1>7. CASE I!Arrive(r) \/ I!Pass(r) \/ I!Take(r)
  BY <1>7 DEF I!Arrive, I!Pass, I!Take
<1> QED BY <1>2, <1>3, <1>4, <1>5, <1>6, <1>7

\* What is finished stays finished, what is settled settled: a 2xx on record stays there,
\* whatever becomes of the row, and a context that has ended stays so.
LEMMA DeliveriesSettle ==
  ASSUME Good, Good', CountInv, [Next]_vars
  PROVE  /\ Finished \subseteq Finished' /\ IsFiniteSet(Finished')
         /\ Settled \subseteq Settled' /\ IsFiniteSet(Settled')
         /\ \A d \in Deliveries : Vouched(d)' => pc'["handler"][d] # "idle"
<1>1. [D!Next]_(D!vars) /\ [DP!Next]_(DP!vars)
  BY DispatcherStep, SameDispatcher DEF Good, Joined
<1>2. /\ \A d \in Deliveries :
           /\ pc["handler"][d] # "idle" => pc'["handler"][d] # "idle"
           /\ pc["handler"][d] = "done" => pc'["handler"][d] = "done"
      /\ \A d \in Deliveries : Vouched(d) => Vouched(d)'
      /\ \A d \in Deliveries : Vouched(d)' => Vouched(d) \/ pc["handler"][d] # "idle"
  BY <1>1, DeliveriesAdvance DEF Good
<1>5. Finished \subseteq Finished' /\ Settled \subseteq Settled'
  BY <1>2 DEF Finished, Settled
<1>6. IsFiniteSet(Begun')
  <2>1. OrderIsTable'
    BY DEF Good, Joined
  <2>2. (OrderIsTable => IsFiniteSet(Begun) /\ Cardinality(Begun) <= Len(order))'
    BY DeliveriesFinite, PTL
  <2> QED BY <2>1, <2>2
<1>7. IsFiniteSet(Finished') /\ IsFiniteSet(Settled')
  <2>1. Finished' \subseteq Begun' /\ Settled' \subseteq Begun'
    BY DEF Finished, Settled, Begun
  <2> QED BY <1>6, <2>1, FS_Subset
<1>8. \A d \in Deliveries : Vouched(d)' => pc'["handler"][d] # "idle"
  BY <1>2 DEF CountInv
<1> QED BY <1>5, <1>7, <1>8

\* No step but a handler's own touches events or answers.
LEMMA EventsLeft ==
  ASSUME [Next]_vars, \A r \in Requests : ~Handle(r)
  PROVE  UNCHANGED <<status, by, reply>>
<1> USE DEF handlers, vars
<1>1. ASSUME NEW r \in Requests, Open(r) \/ Proceed(r) \/ Close(r) \/ Panic(r) \/ End(r)
      PROVE  UNCHANGED <<status, by, reply>>
  BY <1>1 DEF Open, Proceed, Close, Panic, End
<1>2. CASE Work \/ Stop \/ Crash \/ Restart
  BY <1>2 DEF Work, Stop, Crash, Restart
<1>3. ASSUME NEW r \in Requesters, Requeue(r) PROVE UNCHANGED <<status, by, reply>>
  BY <1>3 DEF Requeue
<1>4. ASSUME NEW d \in Deliveries, Elapse(d) PROVE UNCHANGED <<status, by, reply>>
  BY <1>4 DEF Elapse
<1> QED BY <1>1, <1>2, <1>3, <1>4 DEF Next, Serve

\* An event stored stays stored, one answered stays answered.
LEMMA EventsSettle ==
  ASSUME Good, CountInv, [Next]_vars
  PROVE  /\ IsFiniteSet(StoredKeys')
         /\ AnsweredKeys \subseteq AnsweredKeys' /\ IsFiniteSet(AnsweredKeys')
<1>0. IsFiniteSet(StoredKeys)
  BY DEF CountInv
<1>1. ASSUME NEW r \in Requests, Handle(r)
      PROVE  IsFiniteSet(StoredKeys') /\ AnsweredKeys \subseteq AnsweredKeys'
  <2>1. IsFiniteSet(StoredKeys \cup {key[r]})
    BY <1>0, FS_AddElement
  <2>2. IsFiniteSet(StoredKeys')
    BY <1>1, <2>1, EventsAdvance, FS_Subset
  <2>3. \A k \in AnsweredKeys : k \in AnsweredKeys'
    BY <1>1, EventsAdvance DEF AnsweredKeys
  <2> QED BY <2>2, <2>3
<1>2. ASSUME \A r \in Requests : ~Handle(r)
      PROVE  IsFiniteSet(StoredKeys') /\ AnsweredKeys \subseteq AnsweredKeys'
  <2>1. UNCHANGED <<status, by, reply>>
    BY <1>2, EventsLeft
  <2> QED BY <1>0, <2>1 DEF StoredKeys, AnsweredKeys
<1>3. IsFiniteSet(StoredKeys') /\ AnsweredKeys \subseteq AnsweredKeys'
  BY <1>1, <1>2
<1> QED BY <1>3, FS_Subset DEF AnsweredKeys

\* What was counted before a step is still backed after it.
LEMMA StillBacked ==
  ASSUME Good, Good', CountInv, [Next]_vars
  PROVE  LET v == counters.deliveries IN
         /\ v.delivered <= Cardinality(Settled')
         /\ v.delivered + v.retrying + v.dead <= Cardinality(Finished')
         /\ counters.events.accepted <= Cardinality(AnsweredKeys')
         /\ Cardinality(Settled') \in Nat /\ Cardinality(Finished') \in Nat
         /\ Cardinality(AnsweredKeys') \in Nat
<1> DEFINE v == counters.deliveries
           n == v.delivered
           m == v.delivered + v.retrying + v.dead
           a == counters.events.accepted
<1>1. n \in Nat /\ m \in Nat /\ a \in Nat
  BY DEF CountInv
<1>2. n <= Cardinality(Settled) /\ m <= Cardinality(Finished) /\ a <= Cardinality(AnsweredKeys)
  BY DEF CountInv
<1> HIDE DEF n, m, a
<1>3. n <= Cardinality(Settled') /\ m <= Cardinality(Finished')
  BY <1>1, <1>2, DeliveriesSettle, Outgrown
<1>4. a <= Cardinality(AnsweredKeys')
  BY <1>1, <1>2, EventsSettle, Outgrown
<1>5. /\ Cardinality(Settled') \in Nat /\ Cardinality(Finished') \in Nat
      /\ Cardinality(AnsweredKeys') \in Nat
  BY DeliveriesSettle, EventsSettle, FS_CardinalityType
<1> QED BY <1>3, <1>4, <1>5 DEF n, m, a

\* Whatever leaves the counters alone, or sets them back, leaves them backed.
LEMMA CountKept ==
  ASSUME Good, Good', CountInv, [Next]_vars, counters' \in {counters, Zero}
  PROVE  CountInv'
<1>1. IsFiniteSet(StoredKeys') /\ \A d \in Deliveries : Vouched(d)' => pc'["handler"][d] # "idle"
  BY DeliveriesSettle, EventsSettle
<1>2. CASE counters' = counters
  BY <1>1, <1>2, StillBacked DEF CountInv
<1>3. CASE counters' = Zero
  BY <1>1, <1>3, StillBacked DEF CountInv, Zero
<1> QED BY <1>2, <1>3

\* Deliver returns: one delivery more is finished, and if it is counted as delivered one
\* more is settled.
LEMMA CountClose ==
  ASSUME Good, Good', CountInv, [Next]_vars, NEW r \in Requests, Close(r)
  PROVE  CountInv'
<1> DEFINE c == Current(r)
           s == Returned(c)
           v == counters.deliveries
           m == v.delivered + v.retrying + v.dead
<1>1. /\ s \in {"delivered", "retrying", "dead"}
      /\ counters' = [counters EXCEPT !.deliveries[s] = @ + 1]
  BY ReturnedRow DEF Close
<1>2. v.delivered \in Nat /\ v.retrying \in Nat /\ v.dead \in Nat /\ m \in Nat
  BY DEF CountInv
<1>3. c \in Finished' \ Finished
  BY CloseMoves DEF Finished, Delivering
<1>4. s = "delivered" => c \in Settled' \ Settled
  <2>1. s = "delivered" => rows'[c].status = "delivered" \/ c \in canceled'
    BY ReturnedRow, CloseMoves
  <2>2. \A d \in Deliveries : rows'[d].status = "delivered" \/ d \in canceled' => Vouched(d)'
    BY DEF Good, DP!IInv, DP!DeliveredHasEvidence, DP!Acked, D!Acked, Vouched
  <2>3. \A d \in Finished' : Vouched(d)' => d \in Settled'
    BY DEF Settled
  <2>4. c \in Deliveries /\ c \in Finished' /\ c \notin Settled
    BY <1>3 DEF Finished, Settled
  <2> HIDE DEF c, s
  <2> QED BY <2>1, <2>2, <2>3, <2>4
<1>5. m + 1 <= Cardinality(Finished')
  <2>1. m <= Cardinality(Finished)
    BY DEF CountInv
  <2> HIDE DEF m, c
  <2> QED BY <1>2, <1>3, <2>1, DeliveriesSettle, OutgrownByOne
<1>6. s = "delivered" => v.delivered + 1 <= Cardinality(Settled')
  <2>1. v.delivered <= Cardinality(Settled)
    BY DEF CountInv
  <2> DEFINE n == v.delivered
  <2> HIDE DEF n, c, s
  <2>2. n \in Nat /\ n <= Cardinality(Settled)
    BY <1>2, <2>1 DEF n
  <2>3. s = "delivered" => n + 1 <= Cardinality(Settled')
    BY <1>4, <2>2, DeliveriesSettle, OutgrownByOne
  <2> QED BY <2>3 DEF n
<1>7. /\ counters \in [events : [accepted : Nat, duplicate : Nat],
                       deliveries : [delivered : Nat, retrying : Nat, dead : Nat]]
      /\ v.delivered <= Cardinality(Settled')
      /\ counters.events.accepted <= Cardinality(AnsweredKeys')
      /\ IsFiniteSet(StoredKeys') /\ \A d \in Deliveries : Vouched(d)' => pc'["handler"][d] # "idle"
  BY StillBacked, DeliveriesSettle, EventsSettle DEF CountInv
<1> HIDE DEF s, c
<1>8. CASE s = "delivered"
  BY <1>1, <1>2, <1>5, <1>6, <1>7, <1>8 DEF CountInv
<1>9. CASE s = "retrying"
  BY <1>1, <1>2, <1>5, <1>7, <1>9 DEF CountInv
<1>10. CASE s = "dead"
  BY <1>1, <1>2, <1>5, <1>7, <1>10 DEF CountInv
<1> QED BY <1>1, <1>8, <1>9, <1>10

\* A handler answers: for each 202 that it counts one event more is answered.
LEMMA CountHandle ==
  ASSUME Good, Good', CountInv, [Next]_vars, NEW r \in Requests, Handle(r)
  PROVE  CountInv'
<1>1. \/ counters' = counters
      \/ /\ reply'[r] # reply[r] /\ reply'[r] \in {"accepted", "duplicate"}
         /\ counters' = [counters EXCEPT !.events[reply'[r]] = @ + 1]
  BY DEF Handle, CountEvent
<1>2. /\ counters \in [events : [accepted : Nat, duplicate : Nat],
                       deliveries : [delivered : Nat, retrying : Nat, dead : Nat]]
      /\ counters.deliveries.delivered <= Cardinality(Settled')
      /\ counters.deliveries.delivered + counters.deliveries.retrying + counters.deliveries.dead
            <= Cardinality(Finished')
      /\ counters.events.accepted <= Cardinality(AnsweredKeys')
      /\ IsFiniteSet(StoredKeys') /\ \A d \in Deliveries : Vouched(d)' => pc'["handler"][d] # "idle"
  BY StillBacked, DeliveriesSettle, EventsSettle DEF CountInv
<1>3. CASE reply'[r] = "accepted" /\ counters' = [counters EXCEPT !.events["accepted"] = @ + 1]
  <2>1. /\ key[r] \in StoredKeys /\ by[key[r]] = r /\ by'[key[r]] = r /\ reply[r] = "none"
        /\ key[r] \in StoredKeys'
    BY <1>3, EventsAdvance
  <2>2. key[r] \in AnsweredKeys' \ AnsweredKeys
    BY <1>3, <2>1 DEF AnsweredKeys
  <2>3. counters.events.accepted + 1 <= Cardinality(AnsweredKeys')
    <3> DEFINE n == counters.events.accepted
               k == key[r]
    <3>1. n \in Nat /\ n <= Cardinality(AnsweredKeys) /\ k \in AnsweredKeys' \ AnsweredKeys
      BY <2>2 DEF CountInv
    <3> HIDE DEF n, k
    <3>2. n + 1 <= Cardinality(AnsweredKeys')
      BY <3>1, EventsSettle, OutgrownByOne
    <3> QED BY <3>2 DEF n
  <2> QED BY <1>2, <1>3, <2>3 DEF CountInv
<1>4. CASE counters' = [counters EXCEPT !.events["duplicate"] = @ + 1]
  BY <1>2, <1>4 DEF CountInv
<1>5. CASE counters' = counters
  BY <1>5, CountKept
<1> QED BY <1>1, <1>3, <1>4, <1>5

\* Every step keeps the counters backed.
LEMMA CountStep == Good /\ Good' /\ CountInv /\ [Next]_vars => CountInv'
<1> SUFFICES ASSUME Good, Good', CountInv, [Next]_vars PROVE CountInv'
  OBVIOUS
<1>1. ASSUME NEW r \in Requests, Serve(r) PROVE CountInv'
  <2>1. CASE Handle(r)
    BY <2>1, CountHandle
  <2>2. CASE Open(r)
    BY <2>2, CountKept DEF Open
  <2>3. CASE Proceed(r)
    BY <2>3, CountKept DEF Proceed
  <2>4. CASE Close(r)
    BY <2>4, CountClose
  <2>5. CASE Panic(r)
    BY <2>5, CountKept DEF Panic
  <2> QED BY <1>1, <2>1, <2>2, <2>3, <2>4, <2>5 DEF Serve
<1>2. ASSUME NEW r \in Requests, End(r) PROVE CountInv'
  BY <1>2, CountKept DEF End
<1>3. CASE Work \/ Stop \/ Crash \/ Restart
  BY <1>3, CountKept DEF Work, Stop, Crash, Restart
<1>4. ASSUME NEW r \in Requesters, Requeue(r) PROVE CountInv'
  BY <1>4, CountKept DEF Requeue
<1>5. ASSUME NEW d \in Deliveries, Elapse(d) PROVE CountInv'
  BY <1>5, CountKept DEF Elapse
<1>6. CASE UNCHANGED vars
  BY <1>6, CountKept DEF vars
<1> QED BY <1>1, <1>2, <1>3, <1>4, <1>5, <1>6 DEF Next

\* The counters claim no more than the tables show, whatever the interleaving and however
\* often the process is killed: a delivery is counted when Deliver has returned for it, as
\* delivered only if a 2xx is on record or the request has ended, and an event when its
\* request is answered, once each.
THEOREM CountersTrue == Spec => []CountersBacked
<1>1. Good /\ CountInv => CountersBacked
  <2> SUFFICES ASSUME Good, CountInv PROVE CountersBacked
    OBVIOUS
  <2> DEFINE v == counters.deliveries
             Shown == {d \in Deliveries : D!Acked(d) \/ d \in canceled}
  <2>1. IsFiniteSet(Begun) /\ Cardinality(Begun) <= Len(order) /\ Len(order) \in Nat
    BY DeliveriesFinite DEF Good, Joined, OrderIsTable
  <2>2. Shown \subseteq Begun
    BY DEF CountInv, Begun, Vouched
  <2>3. Settled \subseteq Shown /\ Finished \subseteq Begun
    BY DEF Settled, Finished, Begun, Vouched
  <2> HIDE DEF Shown
  <2>4. v.delivered \in Nat /\ v.delivered + v.retrying + v.dead \in Nat
        /\ counters.events.accepted \in Nat
    BY DEF CountInv
  <2>5. IsFiniteSet(Shown) /\ Cardinality(Begun) \in Nat
    BY <2>1, <2>2, FS_Subset, FS_CardinalityType
  <2> DEFINE n == v.delivered
             m == v.delivered + v.retrying + v.dead
             a == counters.events.accepted
  <2>6. /\ n \in Nat /\ m \in Nat /\ a \in Nat
        /\ n <= Cardinality(Settled) /\ m <= Cardinality(Finished) /\ a <= Cardinality(AnsweredKeys)
    BY <2>4 DEF CountInv
  <2> HIDE DEF n, m, a
  <2>7. n <= Cardinality(Shown) /\ m <= Cardinality(Begun)
    BY <2>1, <2>3, <2>5, <2>6, Outgrown
  <2>8. a <= Cardinality(StoredKeys)
    <3>1. AnsweredKeys \subseteq StoredKeys /\ IsFiniteSet(StoredKeys)
      BY DEF AnsweredKeys, CountInv
    <3> QED BY <2>6, <3>1, Outgrown
  <2>9. m <= Len(order)
    BY <2>1, <2>5, <2>6, <2>7
  <2> QED BY <2>7, <2>8, <2>9 DEF CountersBacked, Shown, StoredKeys, n, m, a
<1>2. Good /\ Good' /\ CountInv /\ [Next]_vars => CountInv'
  BY CountStep
<1>3. Spec => []Good
  BY GoodAlways
<1> QED BY <1>1, <1>2, <1>3, CountInit, PTL DEF Spec
=============================================================================
