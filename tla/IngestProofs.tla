---------------------------- MODULE IngestProofs ----------------------------
(***************************************************************************)
(* Idempotency of ingestion for every set of requests, keys, targets and   *)
(* plans, and any number of crashes.                                       *)
(***************************************************************************)
EXTENDS Ingest, SequenceTheorems, TLAPS

\* Changing the status of a delivery leaves its key and target alone.
LEMMA MarkedRows ==
  ASSUME deliveries \in Seq(DeliveryRows), NEW i,
         NEW s \in {"pending", "delivered", "retrying", "dead"}
  PROVE  /\ Marked(i, s) \in Seq(DeliveryRows)
         /\ DOMAIN Marked(i, s) = DOMAIN deliveries
         /\ \A j \in DOMAIN deliveries :
              /\ Marked(i, s)[j].key = deliveries[j].key
              /\ Marked(i, s)[j].target = deliveries[j].target
<1> DEFINE m == Marked(i, s)
<1>1. m = [j \in DOMAIN deliveries |->
             IF j = i THEN DeliveryRow(deliveries[i].key, deliveries[i].target, s)
                      ELSE deliveries[j]]
  BY DEF Marked
<1>2. \A j \in DOMAIN deliveries : deliveries[j] \in DeliveryRows
  OBVIOUS
<1>3. \A j \in DOMAIN deliveries :
        /\ m[j] \in DeliveryRows
        /\ m[j].key = deliveries[j].key
        /\ m[j].target = deliveries[j].target
  BY <1>1, <1>2 DEF DeliveryRow, DeliveryRows
<1>4. DOMAIN m = 1 .. Len(deliveries) /\ Len(deliveries) \in Nat
  BY <1>1
<1>5. m \in Seq(DeliveryRows)
  <2>1. m \in [1 .. Len(deliveries) -> DeliveryRows]
    BY <1>1, <1>3, <1>4
  <2> QED BY <2>1, <1>4, SeqDef
<1> QED BY <1>3, <1>4, <1>5

\* A new delivery is the last row; the others stay where they are.
LEMMA AppendedRows ==
  ASSUME deliveries \in Seq(DeliveryRows), NEW d \in DeliveryRows
  PROVE  LET a == Append(deliveries, d) IN
         /\ a \in Seq(DeliveryRows)
         /\ DOMAIN a = DOMAIN deliveries \cup {Len(deliveries) + 1}
         /\ Len(deliveries) + 1 \notin DOMAIN deliveries
         /\ a[Len(deliveries) + 1] = d
         /\ \A j \in DOMAIN deliveries : a[j] = deliveries[j]
OBVIOUS

\* The status an event is left with is a status of events.
LEMMA FinalStatusType ==
  ASSUME NEW d \in Nat, NEW f \in Nat
  PROVE  FinalStatus(d, f) \in {"accepted", "delivered", "partially_failed", "failed"}
<1>1. (d > 0 \/ d = 0) /\ (f > 0 \/ f = 0)
  OBVIOUS
<1> QED BY <1>1 DEF FinalStatus

\* No events, no deliveries.
LEMMA IngestInit == Init => IInv
<1> SUFFICES ASSUME Init PROVE IInv
  OBVIOUS
<1>1. deliveries = <<>> /\ DOMAIN deliveries = {}
  BY DEF Init
<1> QED
  BY <1>1, IngestAssumption
  DEF Init, IInv, Shape, KeyOwned, RoutesOwnKey, SeenFromRules, TakenIsSeen, RowsOwned,
      OneDeliveryPerTarget, DeliveryRows, Tally, Routing

\* A step that only moves handlers, none of them into the fan-out, keeps the
\* invariant: the checks, the refusals, panics and the end of the process.
LEMMA MovesOnly ==
  ASSUME IInv,
         UNCHANGED <<status, by, deliveries, key, plan, pos, seen, tally>>,
         pc' = [q \in Requests |-> pc'[q]],
         \A q \in Requests :
           \/ pc'[q] = pc[q]
           \/ pc'[q] \in {"done", "gone"}
           \/ pc[q] \in {"idle", "screen", "lookup"} /\ pc'[q] \in {"screen", "lookup", "insert"}
  PROVE  IInv'
<1> USE DEF IInv, Shape, Routing
<1>1. pc' \in [Requests -> {"idle", "screen", "lookup", "insert", "done", "gone"} \cup Routing]
  <2>1. \A q \in Requests :
          pc'[q] \in {"idle", "screen", "lookup", "insert", "done", "gone"} \cup Routing
    OBVIOUS
  <2> QED BY <2>1
<1>2. \A q \in Requests : pc'[q] \in Routing => pc[q] = pc'[q]
  OBVIOUS
<1>3. Shape'
  BY <1>1, <1>2 DEF InPlan
<1>4. RowsOwned'
  <2> SUFFICES ASSUME NEW i \in DOMAIN deliveries PROVE RowOwned(i)'
    BY DEF RowsOwned
  <2>1. deliveries[i] \in DeliveryRows
    OBVIOUS
  <2>2. RowOwned(i) /\ by[deliveries[i].key] \in Requests
    BY <2>1 DEF RowsOwned, RowOwned, DeliveryRows
  <2> QED BY <1>2, <2>2 DEF RowOwned
<1>5. KeyOwned' /\ RoutesOwnKey' /\ SeenFromRules' /\ TakenIsSeen' /\ OneDeliveryPerTarget'
  BY <1>2 DEF KeyOwned, RoutesOwnKey, SeenFromRules, TakenIsSeen, OneDeliveryPerTarget
<1> QED BY <1>3, <1>4, <1>5

\* Who owns a key, what was served and what is about to be: every step keeps it.
LEMMA IngestStep == IInv /\ [Next]_vars => IInv'
<1> SUFFICES ASSUME IInv, [Next]_vars PROVE IInv'
  OBVIOUS
<1> USE DEF IInv, Shape, Routing, asked, loop
<1>r. \A i \in DOMAIN deliveries : deliveries[i] \in DeliveryRows
  OBVIOUS
<1>1. ASSUME NEW r \in Requests, Arrive(r) PROVE IInv'
  BY <1>1, MovesOnly DEF Arrive, Goto
<1>2. ASSUME NEW r \in Requests, Screen(r) PROVE IInv'
  BY <1>2, MovesOnly DEF Screen, Answer, Goto
<1>3. ASSUME NEW r \in Requests, Lookup(r) PROVE IInv'
  BY <1>3, MovesOnly DEF Lookup, Answer, Goto
<1>4. ASSUME NEW r \in Requests, Insert(r) PROVE IInv'
  <2>1. CASE Inserts(r)
    <3>1. /\ status[key[r]] = "none" /\ by[key[r]] = NoRequest
          /\ status' = [status EXCEPT ![key[r]] = "accepted"]
          /\ by' = [by EXCEPT ![key[r]] = r]
          /\ pc' = [pc EXCEPT ![r] = "rules"]
          /\ pc[r] = "insert"
          /\ UNCHANGED <<deliveries, asked, loop>>
      BY <1>4, <2>1 DEF Insert, Inserts, Goto, KeyOwned
    <3>2. Shape'
      BY <3>1 DEF InPlan
    <3>3. KeyOwned' /\ RoutesOwnKey' /\ SeenFromRules' /\ TakenIsSeen'
      BY <3>1, IngestAssumption DEF KeyOwned, RoutesOwnKey, SeenFromRules, TakenIsSeen
    <3>4. RowsOwned'
      <4> SUFFICES ASSUME NEW i \in DOMAIN deliveries PROVE RowOwned(i)'
        BY <3>1 DEF RowsOwned
      <4>1. by[deliveries[i].key] # NoRequest /\ RowOwned(i) /\ deliveries[i].key \in Keys
        BY <1>r DEF RowsOwned, RowOwned, DeliveryRows
      <4>2. deliveries[i].key # key[r] /\ by'[deliveries[i].key] = by[deliveries[i].key]
        BY <3>1, <4>1
      <4>3. by[deliveries[i].key] \in Requests
        BY <4>1
      <4> QED BY <3>1, <4>1, <4>2, <4>3 DEF RowOwned
    <3>5. OneDeliveryPerTarget'
      BY <3>1 DEF OneDeliveryPerTarget
    <3> QED BY <3>2, <3>3, <3>4, <3>5
  <2>2. CASE ~Inserts(r)
    BY <1>4, <2>2, MovesOnly DEF Insert, Answer, Goto
  <2> QED BY <2>1, <2>2
<1>5. ASSUME NEW r \in Requests, Match(r) PROVE IInv'
  <2>1. plan' \in [Requests -> Seq(Targets)]
    BY <1>5, IngestAssumption DEF Match
  <2>2. RowsOwned'
    <3>1. \A q \in Requests : pc'[q] = "create" => pc[q] = "create" /\ q # r
      BY <1>5 DEF Match, Answer, Goto
    <3>2. \A q \in Requests \ {r} : plan'[q] = plan[q]
      BY <1>5 DEF Match
    <3>3. UNCHANGED <<by, deliveries, seen, pos>>
      BY <1>5 DEF Match
    <3>4. \A i \in DOMAIN deliveries : by[deliveries[i].key] \in Requests
      BY <1>r DEF RowsOwned, RowOwned, DeliveryRows
    <3> QED BY <3>1, <3>2, <3>3, <3>4 DEF RowsOwned, RowOwned
  <2>3. CASE r \in ended
    BY <1>5, <2>3, MovesOnly DEF Match, Answer, Goto
  <2>4. CASE r \notin ended
    <3>1. /\ pc[r] = "rules"
          /\ pc' = [pc EXCEPT ![r] = "fanout"]
          /\ \A q \in Requests \ {r} : plan'[q] = plan[q]
          /\ UNCHANGED <<status, by, deliveries, key, pos, seen, tally>>
      BY <1>5, <2>4 DEF Match, Goto
    <3>2. Shape' /\ TakenIsSeen'
      BY <2>1, <3>1 DEF InPlan, TakenIsSeen
    <3> QED
      BY <2>2, <3>1, <3>2 DEF KeyOwned, RoutesOwnKey, SeenFromRules, OneDeliveryPerTarget
  <2> QED BY <2>3, <2>4
<1>6. ASSUME NEW r \in Requests, Pass(r) PROVE IInv'
  <2>1. RowsOwned'
    <3>1. \A i \in DOMAIN deliveries : by[deliveries[i].key] \in Requests
      BY <1>r DEF RowsOwned, RowOwned, DeliveryRows
    <3> QED BY <1>6, <3>1 DEF Pass, RowsOwned, RowOwned
  <2> QED
    BY <1>6, <2>1 DEF Pass, KeyOwned, RoutesOwnKey, SeenFromRules, OneDeliveryPerTarget, InPlan, TakenIsSeen
<1>7. ASSUME NEW r \in Requests, Take(r) PROVE IInv'
  <2> DEFINE t == plan[r][pos[r]]
  <2>1. t \in Targets /\ t \notin seen[r]
    BY <1>7 DEF Take, InPlan, Passes
  <2>2. /\ pc[r] = "fanout" /\ InPlan(r)
        /\ seen' = [seen EXCEPT ![r] = @ \cup {t}]
        /\ pc' = [pc EXCEPT ![r] = "create"]
        /\ UNCHANGED <<status, by, deliveries, key, plan, pos, tally>>
    BY <1>7 DEF Take, Goto
  <2>3. Shape'
    BY <2>1, <2>2 DEF InPlan
  <2>4. RowsOwned'
    <3> SUFFICES ASSUME NEW i \in DOMAIN deliveries PROVE RowOwned(i)'
      BY <2>2 DEF RowsOwned
    <3>1. RowOwned(i) /\ by[deliveries[i].key] \in Requests
      BY <1>r DEF RowsOwned, RowOwned, DeliveryRows
    <3> QED BY <2>1, <2>2, <3>1 DEF RowOwned
  <2> QED
    BY <2>2, <2>3, <2>4 DEF KeyOwned, RoutesOwnKey, SeenFromRules, OneDeliveryPerTarget,
           TakenIsSeen
<1>8. ASSUME NEW r \in Requests, CreateDelivery(r) PROVE IInv'
  <2>1. CASE r \in ended
    BY <1>8, <2>1, MovesOnly DEF CreateDelivery, Goto
  <2>2. CASE r \notin ended
    <3> DEFINE t == plan[r][pos[r]]
               d == DeliveryRow(key[r], t, "pending")
    <3> PICK n \in Nat : n = Len(deliveries) + 1
      OBVIOUS
    <3>1. /\ pc[r] = "create"
          /\ deliveries' = Append(deliveries, d)
          /\ pc' = [pc EXCEPT ![r] = "sending"]
          /\ UNCHANGED <<status, by, key, plan, pos, seen, tally>>
      BY <1>8, <2>2 DEF CreateDelivery, Goto
    <3>2. t \in Targets /\ d \in DeliveryRows /\ d.key = key[r] /\ d.target = t
      BY <3>1 DEF InPlan, DeliveryRow, DeliveryRows
    <3>3. /\ deliveries' \in Seq(DeliveryRows)
          /\ DOMAIN deliveries' = DOMAIN deliveries \cup {n}
          /\ n \notin DOMAIN deliveries
          /\ deliveries'[n] = d
          /\ \A j \in DOMAIN deliveries : deliveries'[j] = deliveries[j]
      BY <3>1, <3>2, AppendedRows
    <3>4. by[key[r]] = r
      BY <3>1 DEF RoutesOwnKey
    <3>5. \A i \in DOMAIN deliveries :
            deliveries[i].key = key[r] => deliveries[i].target \in seen[r] /\ deliveries[i].target # t
      BY <3>1, <3>4 DEF RowsOwned, RowOwned
    <3>6. Shape'
      BY <3>1, <3>3 DEF InPlan
    <3>7. OneDeliveryPerTarget'
      <4> SUFFICES ASSUME NEW i \in DOMAIN deliveries', NEW j \in DOMAIN deliveries',
                          deliveries'[i].key = deliveries'[j].key,
                          deliveries'[i].target = deliveries'[j].target
                   PROVE  i = j
        BY DEF OneDeliveryPerTarget
      <4>1. CASE i \in DOMAIN deliveries /\ j \in DOMAIN deliveries
        BY <3>3, <4>1 DEF OneDeliveryPerTarget
      <4>2. CASE i = n \/ j = n
        BY <3>2, <3>3, <3>5, <4>2
      <4> QED BY <3>3, <4>1, <4>2
    <3>8. t \in seen[r]
      BY <3>1 DEF TakenIsSeen
    <3>9. RowsOwned'
      <4>1. RowOwned(n)'
        <5>1. deliveries'[n].key = key[r] /\ deliveries'[n].target = t
          BY <3>2, <3>3
        <5>2. by'[key[r]] = r /\ r # NoRequest
          BY <3>1, <3>4, IngestAssumption
        <5>3. t \in seen'[r]
          BY <3>1, <3>8
        <5>4. pc'[r] # "create"
          BY <3>1
        <5> QED BY <5>1, <5>2, <5>3, <5>4 DEF RowOwned
      <4>2. ASSUME NEW i \in DOMAIN deliveries PROVE RowOwned(i)'
        <5>1. RowOwned(i) /\ by[deliveries[i].key] \in Requests
          BY <1>r DEF RowsOwned, RowOwned, DeliveryRows
        <5>2. deliveries'[i] = deliveries[i]
          BY <3>3
        <5>3. \A q \in Requests : pc'[q] = "create" => pc[q] = "create"
          BY <3>1
        <5> DEFINE q == by[deliveries[i].key]
        <5>4. by'[deliveries'[i].key] = q
          BY <3>1, <5>2
        <5>5. q # NoRequest /\ deliveries[i].target \in seen'[q]
          BY <3>1, <5>1 DEF RowOwned
        <5>6. pc'[q] = "create" => deliveries[i].target # plan'[q][pos'[q]]
          BY <3>1, <5>1, <5>3 DEF RowOwned
        <5> QED BY <5>2, <5>4, <5>5, <5>6 DEF RowOwned
      <4> QED BY <3>3, <4>1, <4>2 DEF RowsOwned
    <3> QED
      BY <3>1, <3>6, <3>7, <3>9 DEF KeyOwned, RoutesOwnKey, SeenFromRules, TakenIsSeen
  <2> QED BY <2>1, <2>2
<1>9. ASSUME NEW r \in Requests, Sent(r) PROVE IInv'
  <2>1. PICK o \in Outcomes(r) :
          /\ deliveries' = Marked(Current(r), o[2])
          /\ tally' = [tally EXCEPT ![r] =
                         IF o[1] = "delivered" THEN Tally(@.delivered + 1, @.failed)
                                               ELSE Tally(@.delivered, @.failed + 1)]
    BY <1>9 DEF Sent
  <2>2. o[2] \in {"pending", "delivered", "retrying", "dead"}
    BY DEF Outcomes
  <2>3. /\ deliveries' \in Seq(DeliveryRows)
        /\ DOMAIN deliveries' = DOMAIN deliveries
        /\ \A j \in DOMAIN deliveries :
             /\ deliveries'[j].key = deliveries[j].key
             /\ deliveries'[j].target = deliveries[j].target
    BY <2>1, <2>2, MarkedRows
  <2>4. tally' \in [Requests -> [delivered : Nat, failed : Nat]]
    BY <2>1 DEF Tally
  <2>5. /\ pc[r] = "sending"
        /\ pos' = [pos EXCEPT ![r] = @ + 1]
        /\ pc' = [pc EXCEPT ![r] = "fanout"]
        /\ UNCHANGED <<status, by, key, plan, seen>>
    BY <1>9 DEF Sent, Goto
  <2>6. Shape'
    BY <2>3, <2>4, <2>5 DEF InPlan
  <2>7. RowsOwned' /\ OneDeliveryPerTarget'
    <3>1. \A i \in DOMAIN deliveries : RowOwned(i) /\ by[deliveries[i].key] \in Requests
      BY <1>r DEF RowsOwned, RowOwned, DeliveryRows
    <3> QED BY <2>3, <2>5, <3>1 DEF RowsOwned, RowOwned, OneDeliveryPerTarget
  <2> QED
    BY <2>5, <2>6, <2>7 DEF KeyOwned, RoutesOwnKey, SeenFromRules, TakenIsSeen
<1>10. ASSUME NEW r \in Requests, JitterPanic(r) PROVE IInv'
  BY <1>10, MovesOnly DEF JitterPanic, Goto
<1>11. ASSUME NEW r \in Requests, Conclude(r) PROVE IInv'
  <2>1. FinalStatus(tally[r].delivered, tally[r].failed)
          \in {"accepted", "delivered", "partially_failed", "failed"}
    BY FinalStatusType
  <2>2. by[key[r]] = r /\ by[key[r]] # NoRequest
    BY <1>11, IngestAssumption DEF Conclude, RoutesOwnKey
  <2>3. /\ pc[r] = "fanout"
        /\ pc' = [pc EXCEPT ![r] = "done"]
        /\ \/ status' = status
           \/ status' = [status EXCEPT ![key[r]] =
                            FinalStatus(tally[r].delivered, tally[r].failed)]
        /\ UNCHANGED <<by, deliveries, key, plan, pos, seen, tally>>
    BY <1>11 DEF Conclude, Answer, Goto
  <2>4. Shape' /\ KeyOwned'
    <3> HIDE DEF Shape
    <3>1. status' \in [Keys -> {"none", "accepted", "delivered", "partially_failed", "failed"}]
      BY <2>1, <2>3 DEF Shape
    <3>2. \A k \in Keys : status'[k] = "none" <=> status[k] = "none"
      BY <2>1, <2>2, <2>3 DEF Shape, KeyOwned
    <3> QED BY <2>3, <3>1, <3>2 DEF Shape, KeyOwned, InPlan
  <2> QED
    BY <2>3, <2>4 DEF RoutesOwnKey, SeenFromRules, RowsOwned, RowOwned, OneDeliveryPerTarget,
           TakenIsSeen
<1>12. ASSUME NEW i \in DOMAIN deliveries, Background(i) PROVE IInv'
  <2>1. PICK s \in {"delivered", "dead", "retrying"} : deliveries' = Marked(i, s)
    BY <1>12 DEF Background
  <2>2. /\ deliveries' \in Seq(DeliveryRows)
        /\ DOMAIN deliveries' = DOMAIN deliveries
        /\ \A j \in DOMAIN deliveries :
             /\ deliveries'[j].key = deliveries[j].key
             /\ deliveries'[j].target = deliveries[j].target
    BY <2>1, MarkedRows
  <2>3. UNCHANGED <<status, by, pc, key, plan, pos, seen, tally>>
    BY <1>12 DEF Background
  <2>4. Shape'
    BY <2>2, <2>3 DEF InPlan
  <2>5. RowsOwned' /\ OneDeliveryPerTarget'
    <3>1. \A j \in DOMAIN deliveries : RowOwned(j) /\ by[deliveries[j].key] \in Requests
      BY <1>r DEF RowsOwned, RowOwned, DeliveryRows
    <3> QED BY <2>2, <2>3, <3>1 DEF RowsOwned, RowOwned, OneDeliveryPerTarget
  <2> QED
    BY <2>3, <2>4, <2>5 DEF KeyOwned, RoutesOwnKey, SeenFromRules, TakenIsSeen
<1>13. ASSUME NEW r \in Requests, End(r) PROVE IInv'
  BY <1>13, MovesOnly DEF End
<1>14. ASSUME Crash PROVE IInv'
  BY <1>14, MovesOnly DEF Crash
<1>15. ASSUME UNCHANGED vars PROVE IInv'
  BY <1>15, MovesOnly DEF vars
<1> QED
  BY <1>1, <1>2, <1>3, <1>4, <1>5, <1>6, <1>7, <1>8, <1>9, <1>10, <1>11, <1>12, <1>13, <1>14,
     <1>15 DEF Next, Step

\* No target gets two deliveries of one event, whatever requests carry the same
\* key, whatever rules overlap, and wherever the process ends.
THEOREM Idempotent == Spec => []OneDeliveryPerTarget
<1>1. IInv => OneDeliveryPerTarget
  BY DEF IInv
<1> QED BY <1>1, IngestInit, IngestStep, PTL DEF Spec
=============================================================================
