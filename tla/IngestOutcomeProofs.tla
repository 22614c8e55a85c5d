------------------------ MODULE IngestOutcomeProofs ------------------------
(***************************************************************************)
(* What the answer of POST /api/v1/events and the status of an event say   *)
(* of the tables, for every set of requests, keys, targets and plans, and  *)
(* any number of crashes: beyond IInv of Ingest, which says who makes      *)
(* which row.                                                              *)
(***************************************************************************)
EXTENDS IngestProofs

-----------------------------------------------------------------------------
\* Types.

\* What is served is enabled, and the rest of TypeOK.
TypeInv == TypeOK /\ IInv

\* The tables are empty.
LEMMA TypesInit == Init => TypeInv
BY IngestInit, IngestAssumption DEF Init, TypeInv, TypeOK, IInv, Shape

\* Marking a row leaves it a row of an enabled target.
LEMMA MarkedType ==
  ASSUME TypeInv, NEW i \in DOMAIN deliveries,
         NEW s \in {"pending", "delivered", "retrying", "dead"}
  PROVE  \A j \in DOMAIN Marked(i, s) :
           Marked(i, s)[j] \in [key : Keys, target : Enabled,
                                status : {"pending", "delivered", "retrying", "dead"}]
BY DEF TypeInv, TypeOK, Marked, DeliveryRow

\* Every step keeps the types: a target in seenTarget was found enabled.
LEMMA TypesStep == TypeInv /\ [Next]_vars => TypeInv'
<1> SUFFICES ASSUME TypeInv, [Next]_vars PROVE TypeOK'
  BY IngestStep DEF TypeInv
<1>0. IInv /\ IInv' /\ TypeOK
  BY IngestStep DEF TypeInv
<1>1. /\ status' \in [Keys -> {"none", "accepted", "delivered", "partially_failed", "failed"}]
      /\ by' \in [Keys -> Requests \cup {NoRequest}]
      /\ pc' \in [Requests -> {"idle", "screen", "lookup", "insert", "rules", "fanout", "create",
                               "sending", "done", "gone"}]
      /\ key' \in [Requests -> Keys] /\ plan' \in [Requests -> Seq(Targets)]
  BY <1>0 DEF IInv, Shape, Routing
<1>2. input' \in [Requests -> Inputs] /\ ended' \subseteq Leaving
  BY <1>0 DEF TypeOK, Next, Step, Arrive, Screen, Lookup, Insert, Match, Pass, Take, CreateDelivery,
     Sent, JitterPanic, Conclude, Background, End, Crash, vars, asked
<1>3. seen' \in [Requests -> SUBSET Enabled]
  <2>1. ASSUME NEW r \in Requests, Take(r) PROVE seen' \in [Requests -> SUBSET Enabled]
    BY <1>0, <2>1 DEF Take, Passes, TypeOK
  <2>2. (\A r \in Requests : ~Take(r)) => seen' = seen
    BY DEF Next, Step, Arrive, Screen, Lookup, Insert, Match, Pass, CreateDelivery,
       Sent, JitterPanic, Conclude, Background, End, Crash, vars, loop
  <2> QED BY <1>0, <2>1, <2>2 DEF TypeOK
<1>4. \A i \in DOMAIN deliveries' :
        deliveries'[i] \in [key : Keys, target : Enabled,
                            status : {"pending", "delivered", "retrying", "dead"}]
  <2> DEFINE Good(row) == row \in [key : Keys, target : Enabled,
                                   status : {"pending", "delivered", "retrying", "dead"}]
  <2>1. \A i \in DOMAIN deliveries : Good(deliveries[i])
    BY <1>0 DEF TypeOK
  <2>2. ASSUME NEW r \in Requests, CreateDelivery(r)
        PROVE  \A i \in DOMAIN deliveries' : Good(deliveries'[i])
    <3> DEFINE d == DeliveryRow(key[r], plan[r][pos[r]], "pending")
    <3>1. deliveries \in Seq(DeliveryRows) /\ (deliveries' = deliveries \/ deliveries' = Append(deliveries, d))
      BY <1>0, <2>2 DEF CreateDelivery, IInv, Shape
    <3>2. Good(d) /\ d \in DeliveryRows
      <4>1. plan[r][pos[r]] \in seen[r] /\ key[r] \in Keys /\ seen[r] \in SUBSET Enabled
        BY <1>0, <2>2 DEF CreateDelivery, IInv, TakenIsSeen, TypeOK
      <4> QED BY <4>1, IngestAssumption DEF DeliveryRow, DeliveryRows
    <3>3. /\ DOMAIN Append(deliveries, d) = DOMAIN deliveries \cup {Len(deliveries) + 1}
          /\ Append(deliveries, d)[Len(deliveries) + 1] = d
          /\ \A j \in DOMAIN deliveries : Append(deliveries, d)[j] = deliveries[j]
      BY <3>1, <3>2, AppendedRows
    <3> HIDE DEF Good, d
    <3> QED BY <2>1, <3>1, <3>2, <3>3
  <2>3. ASSUME NEW i \in DOMAIN deliveries, Background(i)
        PROVE  \A j \in DOMAIN deliveries' : Good(deliveries'[j])
    <3>1. PICK s \in {"delivered", "dead", "retrying"} : deliveries' = Marked(i, s)
      BY <2>3 DEF Background
    <3> QED BY <3>1, MarkedType
  <2>4. ASSUME NEW r \in Requests, Sent(r)
        PROVE  \A j \in DOMAIN deliveries' : Good(deliveries'[j])
    <3>1. PICK o \in Outcomes(r) : deliveries' = Marked(Current(r), o[2])
      BY <2>4 DEF Sent
    <3>2. o[2] \in {"pending", "delivered", "retrying", "dead"}
      BY DEF Outcomes
    <3>3. CASE Current(r) \in DOMAIN deliveries
      BY <3>1, <3>2, <3>3, MarkedType
    <3>4. CASE Current(r) \notin DOMAIN deliveries
      <4>1. deliveries' = deliveries
        <5>1. DOMAIN deliveries' = DOMAIN deliveries /\ \A j \in DOMAIN deliveries : deliveries'[j] = deliveries[j]
          BY <3>1, <3>4 DEF Marked
        <5>2. deliveries' = [j \in DOMAIN deliveries |-> deliveries'[j]]
          BY <3>1 DEF Marked
        <5>3. deliveries = [j \in DOMAIN deliveries |-> deliveries[j]]
          BY <1>0 DEF IInv, Shape
        <5> QED BY <5>1, <5>2, <5>3
      <4> QED BY <2>1, <4>1
    <3> QED BY <3>3, <3>4
  <2>5. \/ deliveries' = deliveries
        \/ \E r \in Requests : CreateDelivery(r) \/ Sent(r)
        \/ \E i \in DOMAIN deliveries : Background(i)
    BY DEF Next, Step, Arrive, Screen, Lookup, Insert, Match, Pass, Take, JitterPanic, Conclude,
       End, Crash, vars
  <2> QED BY <2>1, <2>2, <2>3, <2>4, <2>5
<1> QED BY <1>1, <1>2, <1>3, <1>4 DEF TypeOK

\* Every variable keeps its type, and only enabled targets get deliveries.
THEOREM TypeCorrect == Spec => []TypeOK
<1>1. TypeInv => TypeOK
  BY DEF TypeInv
<1> QED BY <1>1, TypesInit, TypesStep, PTL DEF Spec

-----------------------------------------------------------------------------
\* Answers.

\* One of ten checks is the first.
LEMMA SmallestOfTen ==
  ASSUME NEW F \in SUBSET (1 .. 10), F # {}
  PROVE  \E n \in F : \A m \in F : n <= m
<1> SUFFICES ASSUME \A n \in F : \E m \in F : m < n PROVE FALSE
  OBVIOUS
<1>1. 1 \notin F
  OBVIOUS
<1>2. 2 \notin F
  BY <1>1
<1>3. 3 \notin F
  BY <1>1, <1>2
<1>4. 4 \notin F
  BY <1>1, <1>2, <1>3
<1>5. 5 \notin F
  BY <1>1, <1>2, <1>3, <1>4
<1>6. 6 \notin F
  BY <1>1, <1>2, <1>3, <1>4, <1>5
<1>7. 7 \notin F
  BY <1>1, <1>2, <1>3, <1>4, <1>5, <1>6
<1>8. 8 \notin F
  BY <1>1, <1>2, <1>3, <1>4, <1>5, <1>6, <1>7
<1>9. 9 \notin F
  BY <1>1, <1>2, <1>3, <1>4, <1>5, <1>6, <1>7, <1>8
<1>10. 10 \notin F
  BY <1>1, <1>2, <1>3, <1>4, <1>5, <1>6, <1>7, <1>8, <1>9
<1>11. PICK x \in 1 .. 10 : x \in F
  OBVIOUS
<1>12. \/ x = 1 \/ x = 2 \/ x = 3 \/ x = 4 \/ x = 5
       \/ x = 6 \/ x = 7 \/ x = 8 \/ x = 9 \/ x = 10
  OBVIOUS
<1> QED BY <1>1, <1>2, <1>3, <1>4, <1>5, <1>6, <1>7, <1>8, <1>9, <1>10, <1>11, <1>12

\* A refusal has the code of a check that fails; "internal" is GetSource's, with
\* a context that has ended.
LEMMA Objections ==
  ASSUME NEW i, NEW gone \in BOOLEAN, Failing(i, gone) # {}
  PROVE  /\ Objection(i, gone) \notin {"none", "accepted", "duplicate"}
         /\ Objection(i, gone) = "internal" => gone
<1> DEFINE F == Failing(i, gone)
           n == CHOOSE n \in F : \A m \in F : n <= m
<1>1. F \subseteq 1 .. 10
  BY DEF F, Failing, Checks
<1>2. n \in F
  BY <1>1, SmallestOfTen
<1>3. Checks(i, gone)[n][1] /\ n \in 1 .. 10
  BY <1>1, <1>2 DEF Failing
<1>4. Objection(i, gone) = Checks(i, gone)[n][2]
  BY DEF Objection
<1> HIDE DEF n, F
<1>5. n = 1 \/ n = 2 \/ n = 3 \/ n = 4 \/ n = 5 \/ n = 6 \/ n = 7 \/ n = 8 \/ n = 9 \/ n = 10
  BY <1>3
<1> QED BY <1>3, <1>4, <1>5 DEF Checks

\* Before the insert a request owns no key.
Unrouted == {"idle", "screen", "lookup", "insert"}

\* What is known of r and its answer at any time: AnswerTellsTable, with seenTarget
\* for the deliveries.
AnswerOf(r) ==
  LET owner == by[key[r]] IN
  /\ pc[r] \in Unrouted => owner # r
  /\ pc[r] # "done" => reply[r] = "none"
  /\ reply[r] = "accepted" => owner = r
  /\ reply[r] = "duplicate" => owner \notin {r, NoRequest}
  /\ reply[r] = "internal" => owner \notin {r, NoRequest} \/ (r \in ended /\ seen[r] = {})
  /\ reply[r] \notin {"none", "accepted", "internal"} => owner # r

AnswerInv == IInv /\ reply = [r \in Requests |-> reply[r]] /\ \A r \in Requests : AnswerOf(r)

\* Nobody owns a key, nobody has an answer.
LEMMA AnswersInit == Init => AnswerInv
BY IngestInit, IngestAssumption DEF Init, AnswerInv, AnswerOf

\* A step of one handler, as its answer sees it: what the owner of the key, the
\* handler and its answer become is enough.
LEMMA AnswerMoves ==
  ASSUME AnswerInv, IInv', NEW r \in Requests,
         UNCHANGED <<key, by>>, ended \subseteq ended',
         pc' = [pc EXCEPT ![r] = pc'[r]], reply' = [reply EXCEPT ![r] = reply'[r]],
         \A q \in Requests \ {r} : seen'[q] = seen[q],
         AnswerOf(r)'
  PROVE  AnswerInv'
<1>1. ASSUME NEW q \in Requests \ {r} PROVE AnswerOf(q)'
  <2>1. AnswerOf(q) /\ pc'[q] = pc[q] /\ reply'[q] = reply[q] /\ seen'[q] = seen[q]
    BY <1>1 DEF AnswerInv, IInv, Shape
  <2> QED BY <2>1 DEF AnswerOf
<1> QED BY <1>1 DEF AnswerInv

\* Every step keeps it; two of them decide the answer to a key that is taken.
LEMMA AnswersStep == AnswerInv /\ [Next]_vars => AnswerInv'
<1> SUFFICES ASSUME AnswerInv, [Next]_vars PROVE AnswerInv'
  OBVIOUS
<1>0. /\ IInv /\ IInv' /\ pc \in [Requests -> {"idle", "screen", "lookup", "insert", "done", "gone"} \cup Routing]
      /\ reply = [r \in Requests |-> reply[r]] /\ key \in [Requests -> Keys] /\ KeyOwned
      /\ seen \in [Requests -> SUBSET Targets] /\ SeenFromRules
  BY IngestStep DEF AnswerInv, IInv, Shape
<1> DEFINE Quiet == UNCHANGED <<key, by, reply, ended>>
<1>1. ASSUME NEW r \in Requests, Quiet, pc[r] # "done", pc' = [pc EXCEPT ![r] = pc'[r]],
             pc'[r] \in Unrouted => pc[r] \in Unrouted,
             \A q \in Requests \ {r} : seen'[q] = seen[q]
      PROVE  AnswerInv'
  <2>1. AnswerOf(r)'
    BY <1>0, <1>1 DEF AnswerInv, AnswerOf
  <2> QED BY <1>0, <1>1, <2>1, AnswerMoves
<1>2. ASSUME NEW r \in Requests,
             \/ Arrive(r) \/ Pass(r) \/ Take(r) \/ CreateDelivery(r) \/ Sent(r) \/ JitterPanic(r)
      PROVE  AnswerInv'
  BY <1>0, <1>1, <1>2 DEF Arrive, Pass, Take, CreateDelivery, Sent, JitterPanic, Goto, asked, loop, Unrouted
<1>3. ASSUME NEW r \in Requests, Screen(r) PROVE AnswerInv'
  <2>1. CASE Failing(input[r], r \in ended) = {}
    BY <1>0, <1>1, <1>3, <2>1 DEF Screen, Goto, asked, loop, Unrouted
  <2>2. CASE Failing(input[r], r \in ended) # {}
    <3> DEFINE o == Objection(input[r], r \in ended)
    <3> DEFINE gone == r \in ended
    <3>0. gone \in BOOLEAN
      OBVIOUS
    <3>1. o \notin {"none", "accepted", "duplicate"} /\ (o = "internal" => r \in ended)
      BY <2>2, <3>0, Objections
    <3>2. pc[r] = "screen" /\ pc' = [pc EXCEPT ![r] = "done"] /\ reply' = [reply EXCEPT ![r] = o]
          /\ UNCHANGED <<key, by, ended, seen>>
      BY <1>3, <2>2 DEF Screen, Answer, Goto, asked, loop
    <3> HIDE DEF o
    <3>3. by[key[r]] # r
      BY <3>2 DEF AnswerInv, AnswerOf, Unrouted
    <3>4. AnswerOf(r)'
      BY <1>0, <3>1, <3>2, <3>3 DEF AnswerOf, Unrouted, SeenFromRules
    <3> QED BY <1>0, <3>2, <3>4, AnswerMoves
  <2> QED BY <2>1, <2>2
<1>4. ASSUME NEW r \in Requests, Lookup(r) PROVE AnswerInv'
  <2>1. by[key[r]] # r /\ pc[r] = "lookup" /\ UNCHANGED <<key, by, ended, seen>>
    BY <1>4 DEF Lookup, AnswerInv, AnswerOf, Unrouted, asked, loop
  <2>2. CASE status[key[r]] # "none" /\ r \notin ended
    <3>1. by[key[r]] # NoRequest
      BY <1>0, <2>2 DEF KeyOwned
    <3>2. pc' = [pc EXCEPT ![r] = "done"] /\ reply' = [reply EXCEPT ![r] = "duplicate"]
      BY <1>4, <2>2 DEF Lookup, Answer, Goto
    <3>3. AnswerOf(r)'
      BY <1>0, <2>1, <3>1, <3>2 DEF AnswerOf, Unrouted
    <3> QED BY <1>0, <2>1, <3>2, <3>3, AnswerMoves
  <2>3. CASE ~(status[key[r]] # "none" /\ r \notin ended)
    BY <1>0, <1>1, <1>4, <2>1, <2>3 DEF Lookup, Goto, Unrouted
  <2> QED BY <2>2, <2>3
<1>5. ASSUME NEW r \in Requests, Insert(r) PROVE AnswerInv'
  <2>1. by[key[r]] # r /\ pc[r] = "insert" /\ reply[r] = "none" /\ seen[r] = {} /\ UNCHANGED <<key, ended, seen>>
    BY <1>0, <1>5 DEF Insert, AnswerInv, AnswerOf, Unrouted, asked, loop, SeenFromRules
  <2>2. CASE Inserts(r)
    <3>1. /\ by[key[r]] = NoRequest /\ by' = [by EXCEPT ![key[r]] = r]
          /\ pc' = [pc EXCEPT ![r] = "rules"] /\ reply' = reply
      BY <1>0, <1>5, <2>2 DEF Insert, Inserts, Goto, KeyOwned
    <3>2. ASSUME NEW q \in Requests PROVE AnswerOf(q)'
      <4>1. AnswerOf(q)
        BY DEF AnswerInv
      <4>2. CASE q = r
        BY <1>0, <2>1, <3>1, <4>2 DEF AnswerOf, Unrouted
      <4>3. CASE q # r /\ key[q] = key[r]
        BY <1>0, <2>1, <3>1, <4>1, <4>3, IngestAssumption DEF AnswerOf, IInv, Shape
      <4>4. CASE q # r /\ key[q] # key[r]
        BY <1>0, <2>1, <3>1, <4>1, <4>4 DEF AnswerOf, IInv, Shape
      <4> QED BY <4>2, <4>3, <4>4
    <3> QED BY <1>0, <3>1, <3>2 DEF AnswerInv
  <2>3. CASE ~Inserts(r)
    <3>1. r \notin ended => by[key[r]] # NoRequest
      BY <1>0, <2>3 DEF Inserts, KeyOwned
    <3>2. pc' = [pc EXCEPT ![r] = "done"] /\ reply' = [reply EXCEPT ![r] = "internal"] /\ by' = by
      BY <1>5, <2>3 DEF Insert, Answer, Goto
    <3>3. AnswerOf(r)'
      BY <1>0, <2>1, <3>1, <3>2 DEF AnswerOf, Unrouted
    <3> QED BY <1>0, <2>1, <3>2, <3>3, AnswerMoves
  <2> QED BY <2>2, <2>3
<1>6. ASSUME NEW r \in Requests, Match(r) PROVE AnswerInv'
  <2>1. CASE r \in ended
    <3>1. /\ pc[r] = "rules" /\ pc' = [pc EXCEPT ![r] = "done"]
          /\ reply' = [reply EXCEPT ![r] = "internal"] /\ UNCHANGED <<key, by, ended, seen>>
      BY <1>6, <2>1 DEF Match, Answer, Goto, asked
    <3>2. AnswerOf(r)'
      BY <1>0, <2>1, <3>1 DEF AnswerOf, Unrouted, SeenFromRules
    <3> QED BY <1>0, <3>1, <3>2, AnswerMoves
  <2>2. CASE r \notin ended
    BY <1>0, <1>1, <1>6, <2>2 DEF Match, Goto, asked, Unrouted
  <2> QED BY <2>1, <2>2
<1>7. ASSUME NEW r \in Requests, Conclude(r) PROVE AnswerInv'
  <2>1. by[key[r]] = r
    BY <1>0, <1>7 DEF Conclude, IInv, RoutesOwnKey, Routing
  <2>2. /\ pc[r] = "fanout" /\ pc' = [pc EXCEPT ![r] = "done"]
        /\ reply' = [reply EXCEPT ![r] = "accepted"] /\ UNCHANGED <<key, by, ended, seen>>
    BY <1>7 DEF Conclude, Answer, Goto, asked, loop
  <2>3. AnswerOf(r)'
    BY <1>0, <2>1, <2>2 DEF AnswerOf, Unrouted
  <2> QED BY <1>0, <2>2, <2>3, AnswerMoves
<1>8. CASE (\E r \in Requests : End(r)) \/ (\E i \in DOMAIN deliveries : Background(i)) \/ UNCHANGED vars
  <2>1. UNCHANGED <<key, by, reply, pc, seen>> /\ ended \subseteq ended'
    BY <1>8 DEF End, Background, vars, asked, loop
  <2> QED BY <1>0, <2>1 DEF AnswerInv, AnswerOf
<1>9. CASE Crash
  <2>1. UNCHANGED <<key, by, reply, ended, seen>>
    BY <1>9 DEF Crash, asked, loop
  <2>2. \A q \in Requests : pc'[q] = pc[q] \/ (pc'[q] = "gone" /\ pc[q] # "done")
    BY <1>9 DEF Crash
  <2> QED BY <1>0, <2>1, <2>2 DEF AnswerInv, AnswerOf, Unrouted
<1> QED BY <1>2, <1>3, <1>4, <1>5, <1>6, <1>7, <1>8, <1>9 DEF Next, Step

\* What an answer tells of the tables, for every client that reads it: whose event
\* is stored, and that one left with 500 has no delivery.
THEOREM AnswersTell == Spec => []AnswerTellsTable
<1>1. AnswerInv => AnswerTellsTable
  <2> SUFFICES ASSUME AnswerInv, NEW r \in Requests
               PROVE  LET owner == by[key[r]] IN
                      /\ reply[r] = "accepted" => owner = r
                      /\ reply[r] = "duplicate" => owner \notin {r, NoRequest}
                      /\ reply[r] = "internal" =>
                           owner \notin {r, NoRequest} \/ (r \in ended /\ Served(r) = {})
                      /\ reply[r] \notin {"none", "accepted", "internal"} => owner # r
    BY DEF AnswerTellsTable
  <2>1. ASSUME by[key[r]] \in {r, NoRequest}, seen[r] = {} PROVE Served(r) = {}
    <3>1. RowsOf(key[r]) = {}
      BY <2>1 DEF RowsOf, AnswerInv, IInv, RowsOwned, RowOwned
    <3> QED BY <3>1 DEF Served
  <2>2. AnswerOf(r)
    BY DEF AnswerInv
  <2> QED BY <2>1, <2>2 DEF AnswerOf
<1> QED BY <1>1, AnswersInit, AnswersStep, PTL DEF Spec

-----------------------------------------------------------------------------
\* The fan-out.

\* One target more; and past the end, all of them.
LEMMA NamedGrows ==
  ASSUME NEW p \in Seq(Targets), NEW n \in Nat \ {0}
  PROVE  /\ Named(p, 0) = {}
         /\ n <= Len(p) => Named(p, n) = Named(p, n - 1) \cup ({p[n]} \cap Enabled)
         /\ n > Len(p) => Named(p, n - 1) = {p[m] : m \in DOMAIN p} \cap Enabled
<1>1. DOMAIN p = 1 .. Len(p) /\ Len(p) \in Nat
  OBVIOUS
<1>2. Named(p, 0) = {}
  BY <1>1 DEF Named
<1>3. ASSUME n <= Len(p) PROVE Named(p, n) = Named(p, n - 1) \cup ({p[n]} \cap Enabled)
  <2>1. {m \in DOMAIN p : m <= n} = {m \in DOMAIN p : m <= n - 1} \cup {n}
    BY <1>1, <1>3
  <2> QED BY <2>1 DEF Named
<1>4. ASSUME n > Len(p) PROVE Named(p, n - 1) = {p[m] : m \in DOMAIN p} \cap Enabled
  <2>1. {m \in DOMAIN p : m <= n - 1} = DOMAIN p
    BY <1>1, <1>4
  <2> QED BY <2>1 DEF Named
<1> QED BY <1>2, <1>3, <1>4

\* No target is served in the place of one before it.
ServedInOrder(r) == \E n \in 0 .. Len(plan[r]) : Served(r) = Named(plan[r], n)

\* Where the fan-out of r is: while its context lasts, seenTarget holds the enabled
\* targets named so far, and each of them has its row; afterwards none is added.
RouteOf(r) ==
  /\ pc[r] \in Unrouted \cup {"rules"} => pos[r] = 1
  /\ r \notin ended =>
       /\ pc[r] = "fanout" => seen[r] = Named(plan[r], pos[r] - 1) /\ Served(r) = seen[r]
       /\ pc[r] = "create" => seen[r] = Named(plan[r], pos[r]) /\ Served(r) \cup {plan[r][pos[r]]} = seen[r]
       /\ pc[r] = "sending" => seen[r] = Named(plan[r], pos[r]) /\ Served(r) = seen[r]
       /\ reply[r] = "accepted" => Served(r) = Due(r)
  /\ pc[r] \in {"fanout", "create", "sending"} \/ reply[r] = "accepted" => ServedInOrder(r)

RouteInv == TypeInv /\ AnswerInv /\ \A r \in Requests : RouteOf(r)

\* No fan-out has begun.
LEMMA RoutesInit == Init => RouteInv
BY TypesInit, AnswersInit DEF Init, RouteInv, RouteOf

\* A key belongs to one request: rows of another key say nothing about r.
LEMMA OwnersDiffer ==
  ASSUME NEW r \in Requests, NEW q \in Requests \ {r}, by[key[r]] = r, by[key[q]] = q
  PROVE  key[q] # key[r]
OBVIOUS

\* What r does leaves the fan-out of q where it was.
LEMMA OtherRoutes ==
  ASSUME RouteInv, NEW q \in Requests,
         UNCHANGED key, ended \subseteq ended',
         pc'[q] = pc[q] \/ pc'[q] = "gone",
         UNCHANGED <<plan[q], pos[q], seen[q], reply[q]>>,
         by[key[q]] = q => Served(q)' = Served(q)
  PROVE  RouteOf(q)'
<1>1. RouteOf(q)
  BY DEF RouteInv
<1>2. pc[q] \in Routing \/ reply[q] = "accepted" => by[key[q]] = q
  BY DEF RouteInv, AnswerInv, AnswerOf, IInv, RoutesOwnKey
<1>3. pc[q] \in {"fanout", "create", "sending"} => pc[q] \in Routing
  BY DEF Routing
<1>4. Due(q)' = Due(q)
  BY DEF Due
<1>5. UNCHANGED <<Served(q), plan[q]>> => ServedInOrder(q)' = ServedInOrder(q)
  BY DEF ServedInOrder
<1> QED BY <1>1, <1>2, <1>3, <1>4, <1>5 DEF RouteOf, Unrouted

\* Rows that keep key and target serve the same targets.
LEMMA SameServed ==
  ASSUME DOMAIN deliveries' = DOMAIN deliveries, UNCHANGED key, NEW q,
         \A j \in DOMAIN deliveries : /\ deliveries'[j].key = deliveries[j].key
                                      /\ deliveries'[j].target = deliveries[j].target
  PROVE  Served(q)' = Served(q)
<1>1. RowsOf(key[q])' = RowsOf(key[q])
  BY DEF RowsOf
<1>2. \A j \in RowsOf(key[q]) : deliveries'[j].target = deliveries[j].target
  BY DEF RowsOf
<1> QED BY <1>1, <1>2 DEF Served

\* Every step keeps it, as long as the context lasts.
LEMMA RoutesStep == RouteInv /\ [Next]_vars => RouteInv'
<1> SUFFICES ASSUME RouteInv, [Next]_vars PROVE RouteInv'
  OBVIOUS
<1>0. /\ TypeInv' /\ AnswerInv' /\ IInv /\ TypeOK
      /\ \A r \in Requests : RouteOf(r) /\ AnswerOf(r)
  BY TypesStep, AnswersStep DEF RouteInv, TypeInv, AnswerInv
<1>t. /\ pc \in [Requests -> {"idle", "screen", "lookup", "insert", "done", "gone"} \cup Routing]
      /\ pos \in [Requests -> Nat \ {0}] /\ plan \in [Requests -> Seq(Targets)]
      /\ seen \in [Requests -> SUBSET Enabled] /\ reply = [r \in Requests |-> reply[r]]
  BY <1>0 DEF IInv, Shape, TypeOK, RouteInv, AnswerInv
<1>s. deliveries' = deliveries /\ key' = key => \A q \in Requests : Served(q)' = Served(q)
  BY DEF Served, RowsOf
<1>p. ASSUME NEW r \in Requests PROVE
        /\ Named(plan[r], 0) = {}
        /\ InPlan(r) => Named(plan[r], pos[r]) = Named(plan[r], pos[r] - 1) \cup ({plan[r][pos[r]]} \cap Enabled)
        /\ ~InPlan(r) => Named(plan[r], pos[r] - 1) = Due(r)
  <2>1. PICK p \in Seq(Targets) : p = plan[r]
    BY <1>t
  <2>2. PICK n \in Nat \ {0} : n = pos[r]
    BY <1>t
  <2>3. /\ Named(p, 0) = {}
        /\ n <= Len(p) => Named(p, n) = Named(p, n - 1) \cup ({p[n]} \cap Enabled)
        /\ n > Len(p) => Named(p, n - 1) = {p[m] : m \in DOMAIN p} \cap Enabled
    BY NamedGrows
  <2>4. InPlan(r) <=> n <= Len(p)
    BY <2>1, <2>2 DEF InPlan
  <2>5. Len(p) \in Nat
    OBVIOUS
  <2> HIDE DEF Named
  <2>6. (n <= Len(p)) \/ n > Len(p)
    BY <2>5
  <2> QED BY <2>1, <2>2, <2>3, <2>4, <2>6 DEF Due
<1>o. \A r \in Requests : UNCHANGED <<Served(r), plan[r]>> => ServedInOrder(r)' = ServedInOrder(r)
  BY DEF ServedInOrder
<1>1. ASSUME NEW r \in Requests,
             \/ Arrive(r) \/ Screen(r) \/ Lookup(r) \/ Insert(r)
      PROVE  RouteInv'
  <2>1. /\ UNCHANGED <<deliveries, key, plan, pos, seen, ended>>
        /\ pc' = [pc EXCEPT ![r] = pc'[r]] /\ reply' = [reply EXCEPT ![r] = reply'[r]]
        /\ pc[r] \in Unrouted /\ pc'[r] \in Unrouted \cup {"rules", "done"}
    BY <1>1, <1>t DEF Arrive, Screen, Lookup, Insert, Answer, Goto, asked, loop, Unrouted
  <2>a. reply'[r] # "accepted"
    <3>1. reply[r] = "none" /\ (r \in ended) \in BOOLEAN
      BY <1>0, <2>1 DEF AnswerOf, Unrouted
    <3>2. CASE Screen(r)
      BY <1>t, <3>1, <3>2, Objections DEF Screen, Answer
    <3>3. CASE Arrive(r) \/ Lookup(r) \/ Insert(r)
      BY <1>t, <3>1, <3>3 DEF Arrive, Lookup, Insert, Answer
    <3> QED BY <1>1, <3>2, <3>3
  <2>2. RouteOf(r)'
    BY <1>0, <1>t, <2>1, <2>a DEF RouteOf, Unrouted
  <2>3. \A q \in Requests \ {r} : RouteOf(q)'
    BY <1>s, <1>t, <2>1, OtherRoutes
  <2> QED BY <1>0, <2>2, <2>3 DEF RouteInv
<1>2. ASSUME NEW r \in Requests, Match(r) PROVE RouteInv'
  <2>1. /\ UNCHANGED <<deliveries, key, pos, seen, ended>> /\ pc[r] = "rules"
        /\ \A q \in Requests \ {r} : UNCHANGED <<plan[q], pc[q], reply[q]>>
    BY <1>2, <1>t DEF Match, Answer, Goto, asked
  <2>2. RouteOf(r)'
    <3>1. CASE r \in ended
      <4>1. pc'[r] = "done" /\ reply'[r] = "internal"
        BY <1>2, <1>t, <3>1 DEF Match, Answer, Goto
      <4> QED BY <2>1, <3>1, <4>1 DEF RouteOf, Unrouted
    <3>2. CASE r \notin ended
      <4>1. seen[r] = {} /\ by[key[r]] = r /\ pos[r] = 1
        BY <1>0, <2>1 DEF IInv, SeenFromRules, RoutesOwnKey, Routing, RouteOf
      <4>2. Served(r) = {}
        BY <1>0, <4>1 DEF Served, RowsOf, IInv, RowsOwned, RowOwned
      <4>3. pc' = [pc EXCEPT ![r] = "fanout"] /\ reply' = reply /\ reply[r] = "none"
        BY <1>0, <1>2, <2>1, <3>2 DEF Match, Goto, AnswerOf
      <4>4. plan'[r] \in Seq(Targets)
        BY <1>0 DEF TypeInv, TypeOK
      <4>5. Named(plan'[r], 0) = {}
        BY <4>4, NamedGrows
      <4>6. Served(r)' = {}
        BY <1>s, <2>1, <4>2
      <4>7. ServedInOrder(r)'
        <5>1. Len(plan'[r]) \in Nat
          BY <4>4
        <5>2. 0 \in 0 .. Len(plan'[r])
          BY <5>1
        <5> QED BY <4>5, <4>6, <5>2 DEF ServedInOrder
      <4> QED BY <1>s, <1>t, <2>1, <4>1, <4>2, <4>3, <4>5, <4>7 DEF RouteOf, Unrouted
    <3> QED BY <3>1, <3>2
  <2>3. \A q \in Requests \ {r} : RouteOf(q)'
    BY <1>s, <2>1, OtherRoutes
  <2> QED BY <1>0, <2>2, <2>3 DEF RouteInv
<1>3. ASSUME NEW r \in Requests, Pass(r) PROVE RouteInv'
  <2>1. /\ UNCHANGED <<deliveries, key, plan, pc, reply, seen, ended>> /\ pc[r] = "fanout"
        /\ pos' = [pos EXCEPT ![r] = @ + 1] /\ InPlan(r)
        /\ r \notin ended => plan[r][pos[r]] \in seen[r] \/ plan[r][pos[r]] \notin Enabled
    BY <1>3 DEF Pass, Passes, asked
  <2>2. RouteOf(r)'
    <3>1. pos'[r] = pos[r] + 1 /\ pos'[r] - 1 = pos[r] /\ reply[r] = "none"
      BY <1>0, <1>t, <2>1 DEF AnswerOf
    <3>2. ASSUME r \notin ended PROVE seen[r] = Named(plan[r], pos[r])
      <4>1. seen[r] = Named(plan[r], pos[r] - 1) /\ seen[r] \subseteq Enabled
        BY <1>0, <1>t, <2>1, <3>2 DEF RouteOf
      <4>2. Named(plan[r], pos[r]) = Named(plan[r], pos[r] - 1) \cup ({plan[r][pos[r]]} \cap Enabled)
        BY <1>p, <2>1
      <4> QED BY <2>1, <3>2, <4>1, <4>2
    <3>3. Served(r)' = Served(r)
      BY <1>s, <2>1
    <3>4. ServedInOrder(r)'
      BY <1>0, <1>o, <2>1, <3>3 DEF RouteOf
    <3> QED BY <1>0, <2>1, <3>1, <3>2, <3>3, <3>4 DEF RouteOf, Unrouted
  <2>3. \A q \in Requests \ {r} : RouteOf(q)'
    BY <1>s, <1>t, <2>1, OtherRoutes
  <2> QED BY <1>0, <2>2, <2>3 DEF RouteInv
<1>4. ASSUME NEW r \in Requests, Take(r) PROVE RouteInv'
  <2>1. /\ UNCHANGED <<deliveries, key, plan, pos, reply, ended>> /\ pc[r] = "fanout"
        /\ pc' = [pc EXCEPT ![r] = "create"] /\ InPlan(r) /\ plan[r][pos[r]] \in Enabled
        /\ seen' = [seen EXCEPT ![r] = @ \cup {plan[r][pos[r]]}]
    BY <1>4 DEF Take, Passes, Goto, asked
  <2>2. RouteOf(r)'
    <3>1. reply[r] = "none"
      BY <1>0, <2>1 DEF AnswerOf
    <3>2. r \notin ended => seen'[r] = Named(plan[r], pos[r]) /\ Served(r) = seen[r]
      BY <1>0, <1>p, <1>t, <2>1 DEF RouteOf
    <3>3. Served(r)' = Served(r)
      BY <1>s, <2>1
    <3>4. ServedInOrder(r)'
      BY <1>0, <1>o, <2>1, <3>3 DEF RouteOf
    <3> QED BY <1>t, <2>1, <3>1, <3>2, <3>3, <3>4 DEF RouteOf, Unrouted
  <2>3. \A q \in Requests \ {r} : RouteOf(q)'
    BY <1>s, <1>t, <2>1, OtherRoutes
  <2> QED BY <1>0, <2>2, <2>3 DEF RouteInv
<1>5. ASSUME NEW r \in Requests, CreateDelivery(r) PROVE RouteInv'
  <2>1. /\ UNCHANGED <<key, plan, pos, seen, reply, ended>> /\ pc[r] = "create" /\ reply[r] = "none"
        /\ pc' = [pc EXCEPT ![r] = pc'[r]]
    BY <1>0, <1>5, <1>t DEF CreateDelivery, Goto, asked, loop, AnswerOf
  <2>2. CASE r \in ended
    <3>1. deliveries' = deliveries /\ pc'[r] = "gone"
      BY <1>5, <1>t, <2>2 DEF CreateDelivery, Goto
    <3>2. \A q \in Requests : RouteOf(q)'
      BY <1>s, <1>t, <2>1, <3>1, OtherRoutes
    <3> QED BY <1>0, <3>2 DEF RouteInv
  <2>3. CASE r \notin ended
    <3> DEFINE t == plan[r][pos[r]]
               d == DeliveryRow(key[r], t, "pending")
               n == Len(deliveries) + 1
    <3>1. deliveries' = Append(deliveries, d) /\ pc'[r] = "sending"
      BY <1>5, <1>t, <2>3 DEF CreateDelivery, Goto
    <3>2. d \in DeliveryRows /\ d.key = key[r] /\ d.target = t
      BY <1>0, <2>1 DEF DeliveryRow, DeliveryRows, IInv, Shape, InPlan
    <3>3. deliveries \in Seq(DeliveryRows)
      BY <1>0 DEF IInv, Shape
    <3> HIDE DEF d, n
    <3>4. /\ DOMAIN deliveries' = DOMAIN deliveries \cup {n}
          /\ deliveries'[n] = d
          /\ \A j \in DOMAIN deliveries : deliveries'[j] = deliveries[j]
      BY <3>1, <3>2, <3>3, AppendedRows DEF n
    <3>5. Served(r)' = Served(r) \cup {t}
      <4>1. RowsOf(key[r])' = RowsOf(key[r]) \cup {n}
        BY <2>1, <3>2, <3>4 DEF RowsOf
      <4>2. \A j \in RowsOf(key[r]) : deliveries'[j].target = deliveries[j].target
        BY <3>4 DEF RowsOf
      <4> QED BY <2>1, <3>2, <3>4, <4>1, <4>2 DEF Served
    <3>6. by[key[r]] = r
      BY <1>0, <2>1 DEF IInv, RoutesOwnKey, Routing
    <3>7. ASSUME NEW q \in Requests \ {r}, by[key[q]] = q PROVE Served(q)' = Served(q)
      <4>1. key[q] # key[r]
        BY <3>6, <3>7, OwnersDiffer
      <4>2. RowsOf(key[q])' = RowsOf(key[q])
        BY <2>1, <3>2, <3>4, <4>1 DEF RowsOf
      <4>3. \A j \in RowsOf(key[q]) : deliveries'[j].target = deliveries[j].target
        BY <3>4 DEF RowsOf
      <4> QED BY <2>1, <4>2, <4>3 DEF Served
    <3>8. RouteOf(r)'
      <4>1. Served(r)' = seen[r] /\ seen[r] = Named(plan[r], pos[r])
        BY <1>0, <2>1, <2>3, <3>5 DEF RouteOf
      <4>2. pos[r] \in 0 .. Len(plan[r])
        BY <1>0, <1>t, <2>1 DEF IInv, Shape, InPlan
      <4>3. ServedInOrder(r)'
        BY <2>1, <4>1, <4>2 DEF ServedInOrder
      <4> QED BY <1>0, <2>1, <2>3, <3>1, <4>1, <4>3 DEF RouteOf, Unrouted
    <3>9. \A q \in Requests \ {r} : RouteOf(q)'
      BY <1>t, <2>1, <3>7, OtherRoutes
    <3> QED BY <1>0, <3>8, <3>9 DEF RouteInv
  <2> QED BY <2>2, <2>3
<1>6. ASSUME NEW r \in Requests, Sent(r) PROVE RouteInv'
  <2>1. /\ UNCHANGED <<key, plan, seen, reply, ended>> /\ pc[r] = "sending" /\ reply[r] = "none"
        /\ pc' = [pc EXCEPT ![r] = "fanout"] /\ pos' = [pos EXCEPT ![r] = @ + 1]
    BY <1>0, <1>6 DEF Sent, Goto, asked, AnswerOf
  <2>2. PICK o \in Outcomes(r) : deliveries' = Marked(Current(r), o[2])
    BY <1>6 DEF Sent
  <2>3. o[2] \in {"pending", "delivered", "retrying", "dead"} /\ deliveries \in Seq(DeliveryRows)
    BY <1>0 DEF Outcomes, IInv, Shape
  <2>4. \A q \in Requests : Served(q)' = Served(q)
    BY <2>1, <2>2, <2>3, MarkedRows, SameServed
  <2>5. RouteOf(r)'
    <3>1. pos'[r] - 1 = pos[r] /\ pc'[r] = "fanout"
      BY <1>t, <2>1
    <3>2. ServedInOrder(r)'
      BY <1>0, <1>o, <2>1, <2>4 DEF RouteOf
    <3> QED BY <1>0, <2>1, <2>4, <3>1, <3>2 DEF RouteOf, Unrouted
  <2>6. \A q \in Requests \ {r} : RouteOf(q)'
    BY <1>t, <2>1, <2>4, OtherRoutes
  <2> QED BY <1>0, <2>5, <2>6 DEF RouteInv
<1>7. ASSUME NEW r \in Requests, Conclude(r) PROVE RouteInv'
  <2>1. /\ UNCHANGED <<deliveries, key, plan, pos, seen, ended>> /\ pc[r] = "fanout" /\ ~InPlan(r)
        /\ pc' = [pc EXCEPT ![r] = "done"] /\ reply' = [reply EXCEPT ![r] = "accepted"]
    BY <1>7 DEF Conclude, Answer, Goto, asked, loop
  <2>2. RouteOf(r)'
    <3>1. r \notin ended => Served(r) = Due(r)
      BY <1>0, <1>p, <2>1 DEF RouteOf
    <3>2. Served(r)' = Served(r) /\ Due(r)' = Due(r)
      BY <1>s, <2>1 DEF Due
    <3>3. ServedInOrder(r)'
      BY <1>0, <1>o, <2>1, <3>2 DEF RouteOf
    <3> QED BY <1>t, <2>1, <3>1, <3>2, <3>3 DEF RouteOf, Unrouted
  <2>3. \A q \in Requests \ {r} : RouteOf(q)'
    BY <1>s, <1>t, <2>1, OtherRoutes
  <2> QED BY <1>0, <2>2, <2>3 DEF RouteInv
<1>8. ASSUME NEW i \in DOMAIN deliveries, Background(i) PROVE RouteInv'
  <2>1. PICK s \in {"delivered", "dead", "retrying"} : deliveries' = Marked(i, s)
    BY <1>8 DEF Background
  <2>2. UNCHANGED <<key, plan, pos, seen, reply, ended, pc>> /\ deliveries \in Seq(DeliveryRows)
    BY <1>0, <1>8 DEF Background, asked, loop, IInv, Shape
  <2>3. \A q \in Requests : Served(q)' = Served(q)
    BY <2>1, <2>2, MarkedRows, SameServed
  <2>4. \A q \in Requests : RouteOf(q)'
    BY <2>2, <2>3, OtherRoutes
  <2> QED BY <1>0, <2>4 DEF RouteInv
<1>9. CASE (\E r \in Requests : JitterPanic(r) \/ End(r)) \/ Crash \/ UNCHANGED vars
  <2>1. /\ UNCHANGED <<deliveries, key, plan, pos, seen, reply>> /\ ended \subseteq ended'
        /\ \A q \in Requests : pc'[q] = pc[q] \/ pc'[q] = "gone"
    BY <1>9, <1>t DEF JitterPanic, End, Crash, vars, asked, loop, Goto
  <2>2. \A q \in Requests : RouteOf(q)'
    BY <1>s, <2>1, OtherRoutes
  <2> QED BY <1>0, <2>2 DEF RouteInv
<1> QED BY <1>1, <1>2, <1>3, <1>4, <1>5, <1>6, <1>7, <1>8, <1>9 DEF Next, Step

\* 202: the enabled targets among the first of the plan have their deliveries, all of
\* them unless the context has ended.
THEOREM AcceptedIsRouted == Spec => []AcceptedMeansRouted
<1>1. RouteInv => AcceptedMeansRouted
  BY DEF RouteInv, RouteOf, ServedInOrder, AnswerInv, AnswerOf, AcceptedMeansRouted
<1> QED BY <1>1, RoutesInit, RoutesStep, PTL DEF Spec

-----------------------------------------------------------------------------
\* What "delivered" says of an event.

\* The rows of r's key: the one being sent is pending, and as long as no target
\* failed and the context lasts the others are delivered.
ProgressOf(r) ==
  /\ pc[r] \in Routing => status[key[r]] = "accepted"
  /\ pc[r] = "sending" => \E i \in RowsOf(key[r]) : /\ deliveries[i].target = plan[r][pos[r]]
                                                    /\ deliveries[i].status = "pending"
  /\ r \notin ended /\ tally[r].failed = 0 =>
       /\ pc[r] \in {"fanout", "create"} =>
            \A i \in RowsOf(key[r]) : deliveries[i].status = "delivered"
       /\ pc[r] = "sending" =>
            \A i \in RowsOf(key[r]) :
              deliveries[i].target # plan[r][pos[r]] => deliveries[i].status = "delivered"

\* What DeliveredMeansAll says of one key, and that no first attempt failed.
AllServed(k) ==
  /\ tally[by[k]].failed = 0
  /\ Due(by[k]) \subseteq Served(by[k])
  /\ \A i \in RowsOf(k) : deliveries[i].status = "delivered"

ProgressInv ==
  /\ RouteInv
  /\ \A k \in Keys : status[k] = "delivered" => AllServed(k)
  /\ \A r \in Requests : ProgressOf(r)

\* No event, no fan-out.
LEMMA ProgressInit == Init => ProgressInv
BY RoutesInit DEF Init, ProgressInv, ProgressOf, Routing, Unrouted

\* The step leaves the rows of k as they are.
RowsKept(k) == RowsOf(k)' = RowsOf(k) /\ \A j \in RowsOf(k) : deliveries'[j] = deliveries[j]

\* What happens elsewhere leaves the progress of q where it was.
LEMMA OtherProgress ==
  ASSUME ProgressInv, NEW q \in Requests,
         UNCHANGED key, ended \subseteq ended',
         pc'[q] = pc[q] \/ pc'[q] \notin Routing,
         UNCHANGED <<plan[q], pos[q], tally[q]>>,
         by[key[q]] = q => UNCHANGED status[key[q]] /\ RowsKept(key[q])
  PROVE  ProgressOf(q)'
<1>1. ProgressOf(q)
  BY DEF ProgressInv
<1>2. pc[q] \in Routing => by[key[q]] = q
  BY DEF ProgressInv, RouteInv, TypeInv, IInv, RoutesOwnKey
<1>3. {"fanout", "create", "sending"} \subseteq Routing
  BY DEF Routing
<1>4. CASE pc'[q] = pc[q] /\ pc[q] \in Routing
  BY <1>1, <1>2, <1>3, <1>4 DEF ProgressOf, RowsKept
<1>5. CASE pc'[q] \notin Routing
  BY <1>3, <1>5 DEF ProgressOf
<1> QED BY <1>4, <1>5

\* And so with an event that is called delivered.
LEMMA OtherServed ==
  ASSUME ProgressInv, NEW k \in Keys, status[k] = "delivered",
         UNCHANGED <<key, by[k], plan[by[k]], tally[by[k]]>>, RowsKept(k)
  PROVE  AllServed(k)'
<1>1. AllServed(k) /\ by[k] # NoRequest /\ key[by[k]] = k
  BY DEF ProgressInv, RouteInv, TypeInv, IInv, KeyOwned
<1>2. Due(by[k])' = Due(by[k])
  BY DEF Due
<1>3. Served(by[k])' = Served(by[k])
  BY <1>1 DEF Served, RowsKept
<1> QED BY <1>1, <1>2, <1>3 DEF AllServed, RowsKept

\* Only its own row changes when a row is marked.
LEMMA MarkedRow ==
  ASSUME deliveries \in Seq(DeliveryRows), NEW i \in DOMAIN deliveries,
         NEW s \in {"pending", "delivered", "retrying", "dead"}, deliveries' = Marked(i, s)
  PROVE  /\ deliveries'[i].status = s
         /\ \A j \in DOMAIN deliveries \ {i} : deliveries'[j] = deliveries[j]
         /\ \A k \in Keys : RowsOf(k)' = RowsOf(k)
         /\ \A k \in Keys \ {deliveries[i].key} : RowsKept(k)
<1>1. /\ deliveries'[i].status = s
      /\ \A j \in DOMAIN deliveries \ {i} : deliveries'[j] = deliveries[j]
  BY DEF Marked, DeliveryRow
<1>2. /\ DOMAIN deliveries' = DOMAIN deliveries
      /\ \A j \in DOMAIN deliveries : deliveries'[j].key = deliveries[j].key
  BY MarkedRows
<1>3. \A k \in Keys : RowsOf(k)' = RowsOf(k)
  BY <1>2 DEF RowsOf
<1>4. ASSUME NEW k \in Keys \ {deliveries[i].key} PROVE RowsKept(k)
  BY <1>1, <1>3, <1>4 DEF RowsKept, RowsOf
<1> QED BY <1>1, <1>3, <1>4

\* Every step keeps it: only the owner of a key touches its rows while it routes,
\* and retries touch only rows that an event called delivered does not have.
LEMMA ProgressStep == ProgressInv /\ [Next]_vars => ProgressInv'
<1> SUFFICES ASSUME ProgressInv, [Next]_vars PROVE ProgressInv'
  OBVIOUS
<1>0. /\ RouteInv' /\ RouteInv /\ IInv
      /\ \A r \in Requests : ProgressOf(r)
  BY RoutesStep DEF ProgressInv, RouteInv, TypeInv
<1>t. /\ pc \in [Requests -> {"idle", "screen", "lookup", "insert", "done", "gone"} \cup Routing]
      /\ pos \in [Requests -> Nat \ {0}] /\ plan \in [Requests -> Seq(Targets)]
      /\ tally \in [Requests -> [delivered : Nat, failed : Nat]]
      /\ status \in [Keys -> {"none", "accepted", "delivered", "partially_failed", "failed"}]
      /\ by \in [Keys -> Requests \cup {NoRequest}] /\ key \in [Requests -> Keys]
      /\ deliveries \in Seq(DeliveryRows)
  BY <1>0 DEF IInv, Shape
<1>o. ASSUME NEW r \in Requests, pc[r] \in Routing
      PROVE  by[key[r]] = r /\ status[key[r]] = "accepted"
  BY <1>0, <1>o DEF IInv, RoutesOwnKey, ProgressOf
<1>s. deliveries' = deliveries => \A k \in Keys : RowsKept(k)
  BY DEF RowsKept, RowsOf
<1>1. ASSUME deliveries' = deliveries, UNCHANGED <<key, by, plan, pos, tally>>, ended \subseteq ended',
             status' = status,
             \A q \in Requests : pc'[q] = pc[q] \/ pc'[q] \notin Routing
      PROVE  ProgressInv'
  <2>1. \A q \in Requests : ProgressOf(q)'
    BY <1>1, <1>s, <1>t, OtherProgress
  <2>2. \A k \in Keys : status'[k] = "delivered" => AllServed(k)'
    BY <1>1, <1>s, OtherServed
  <2> QED BY <1>0, <2>1, <2>2 DEF ProgressInv
<1>2. CASE \/ \E r \in Requests : \/ Arrive(r) \/ Screen(r) \/ Lookup(r) \/ JitterPanic(r) \/ End(r)
                                  \/ Insert(r) /\ ~Inserts(r)
           \/ Crash \/ UNCHANGED vars
  BY <1>1, <1>2, <1>t DEF Arrive, Screen, Lookup, JitterPanic, End, Insert, Crash, vars, asked, loop, Answer, Goto,
     Routing
<1>3. ASSUME NEW r \in Requests, Insert(r), Inserts(r) PROVE ProgressInv'
  <2>1. /\ UNCHANGED <<deliveries, key, plan, pos, tally, ended>> /\ pc' = [pc EXCEPT ![r] = "rules"]
        /\ status' = [status EXCEPT ![key[r]] = "accepted"] /\ by' = [by EXCEPT ![key[r]] = r]
        /\ status[key[r]] = "none"
    BY <1>3 DEF Insert, Inserts, Goto, asked, loop
  <2>2. ProgressOf(r)'
    BY <1>t, <2>1 DEF ProgressOf
  <2>3. ASSUME NEW q \in Requests \ {r} PROVE ProgressOf(q)'
    <3>1. by[key[q]] = q => key[q] # key[r]
      BY <1>0, <1>t, <2>1, IngestAssumption DEF IInv, KeyOwned
    <3>2. by[key[q]] = q => UNCHANGED status[key[q]]
      BY <1>t, <2>1, <3>1
    <3> QED BY <1>s, <1>t, <2>1, <3>2, OtherProgress
  <2>4. ASSUME NEW k \in Keys, status'[k] = "delivered" PROVE AllServed(k)'
    <3>1. k # key[r] /\ status[k] = "delivered" /\ by'[k] = by[k]
      BY <1>t, <2>1, <2>4
    <3> QED BY <1>s, <2>1, <3>1, OtherServed
  <2> QED BY <1>0, <2>2, <2>3, <2>4 DEF ProgressInv
<1>4. ASSUME NEW r \in Requests, Match(r) PROVE ProgressInv'
  <2>1. /\ UNCHANGED <<deliveries, key, by, status, pos, tally, ended>> /\ pc[r] = "rules"
        /\ \A q \in Requests \ {r} : plan'[q] = plan[q] /\ pc'[q] = pc[q]
        /\ pc'[r] \in {"done", "fanout"}
    BY <1>4, <1>t DEF Match, Answer, Goto, asked, loop
  <2>2. ProgressOf(r)'
    <3>1. by[key[r]] = r /\ status[key[r]] = "accepted" /\ seen[r] = {}
      BY <1>0, <1>o, <2>1 DEF Routing, IInv, SeenFromRules
    <3>2. RowsOf(key[r]) = {}
      BY <1>0, <3>1 DEF RowsOf, IInv, RowsOwned, RowOwned
    <3>3. RowsOf(key[r])' = {}
      BY <2>1, <3>2 DEF RowsOf
    <3> QED BY <2>1, <3>1, <3>3 DEF ProgressOf
  <2>3. \A q \in Requests \ {r} : ProgressOf(q)'
    BY <1>s, <1>t, <2>1, OtherProgress
  <2>4. ASSUME NEW k \in Keys, status'[k] = "delivered" PROVE AllServed(k)'
    <3>1. by[k] # r /\ by[k] \in Requests
      BY <1>0, <1>o, <1>t, <2>1, <2>4 DEF IInv, KeyOwned, Routing
    <3> QED BY <1>s, <2>1, <2>4, <3>1, OtherServed
  <2> QED BY <1>0, <2>2, <2>3, <2>4 DEF ProgressInv
<1>5. ASSUME NEW r \in Requests, Pass(r) \/ Take(r) PROVE ProgressInv'
  <2>1. /\ UNCHANGED <<deliveries, key, by, status, plan, tally, ended>> /\ pc[r] = "fanout"
        /\ \A q \in Requests \ {r} : pos'[q] = pos[q] /\ pc'[q] = pc[q]
        /\ pc'[r] \in {"fanout", "create"}
    BY <1>5, <1>t DEF Pass, Take, Goto, asked, loop
  <2>2. ProgressOf(r)'
    BY <1>0, <1>t, <2>1 DEF ProgressOf, RowsOf, Routing
  <2>3. \A q \in Requests \ {r} : ProgressOf(q)'
    BY <1>s, <1>t, <2>1, OtherProgress
  <2>4. \A k \in Keys : status'[k] = "delivered" => AllServed(k)'
    BY <1>s, <2>1, OtherServed
  <2> QED BY <1>0, <2>2, <2>3, <2>4 DEF ProgressInv
<1>6. ASSUME NEW r \in Requests, CreateDelivery(r) PROVE ProgressInv'
  <2>1. CASE r \in ended
    BY <1>1, <1>6, <1>t, <2>1 DEF CreateDelivery, Goto, asked, loop, Routing
  <2>2. CASE r \notin ended
    <3> DEFINE t == plan[r][pos[r]]
               d == DeliveryRow(key[r], t, "pending")
               n == Len(deliveries) + 1
    <3>1. /\ deliveries' = Append(deliveries, d) /\ pc' = [pc EXCEPT ![r] = "sending"] /\ pc[r] = "create"
          /\ UNCHANGED <<key, by, status, plan, pos, tally, ended>>
      BY <1>6, <2>2 DEF CreateDelivery, Goto, asked, loop
    <3>2. d \in DeliveryRows /\ d.key = key[r] /\ d.target = t /\ d.status = "pending"
      BY <1>0, <3>1 DEF DeliveryRow, DeliveryRows, IInv, Shape, InPlan
    <3> HIDE DEF d, n
    <3>4. /\ DOMAIN deliveries' = DOMAIN deliveries \cup {n}
          /\ n \notin DOMAIN deliveries
          /\ deliveries'[n] = d
          /\ \A j \in DOMAIN deliveries : deliveries'[j] = deliveries[j]
      BY <1>t, <3>1, <3>2, AppendedRows DEF n
    <3>5. \A k \in Keys \ {key[r]} : RowsKept(k)
      BY <3>2, <3>4 DEF RowsKept, RowsOf
    <3>6. RowsOf(key[r])' = RowsOf(key[r]) \cup {n} /\ \A j \in RowsOf(key[r]) : deliveries'[j] = deliveries[j]
      BY <3>1, <3>2, <3>4 DEF RowsOf
    <3>7. by[key[r]] = r /\ status[key[r]] = "accepted"
      BY <1>o, <3>1 DEF Routing
    <3>8. ProgressOf(r)'
      <4>1. n \in RowsOf(key[r])' /\ deliveries'[n].target = t /\ deliveries'[n].status = "pending"
        BY <3>2, <3>4, <3>6
      <4>2. ASSUME tally[r].failed = 0, NEW j \in RowsOf(key[r])', deliveries'[j].target # t
            PROVE  deliveries'[j].status = "delivered"
        <5>1. j \in RowsOf(key[r]) /\ deliveries'[j] = deliveries[j]
          BY <3>6, <4>1, <4>2
        <5> QED BY <1>0, <2>2, <3>1, <4>2, <5>1 DEF ProgressOf
      <4>3. pc'[r] = "sending" /\ UNCHANGED <<key[r], plan[r], pos[r], tally[r], status[key[r]]>>
        BY <1>t, <3>1
      <4> HIDE DEF t
      <4> QED BY <3>1, <3>7, <4>1, <4>2, <4>3 DEF ProgressOf, t
    <3>9. \A q \in Requests \ {r} : ProgressOf(q)'
      BY <1>t, <3>1, <3>5, <3>7, OtherProgress, OwnersDiffer
    <3>10. ASSUME NEW k \in Keys, status'[k] = "delivered" PROVE AllServed(k)'
      <4>1. k # key[r]
        BY <3>1, <3>7, <3>10
      <4> QED BY <3>1, <3>5, <3>10, <4>1, OtherServed
    <3> QED BY <1>0, <3>8, <3>9, <3>10 DEF ProgressInv
  <2> QED BY <2>1, <2>2
<1>7. ASSUME NEW r \in Requests, Sent(r) PROVE ProgressInv'
  <2> DEFINE c == Current(r)
  <2>1. /\ UNCHANGED <<key, by, status, plan, ended>> /\ pc[r] = "sending"
        /\ pc' = [pc EXCEPT ![r] = "fanout"] /\ pos' = [pos EXCEPT ![r] = @ + 1]
        /\ \A q \in Requests \ {r} : tally'[q] = tally[q]
    BY <1>7, <1>t DEF Sent, Goto, asked
  <2>2. PICK o \in Outcomes(r) :
          /\ deliveries' = Marked(c, o[2])
          /\ tally' = [tally EXCEPT ![r] = IF o[1] = "delivered" THEN Tally(@.delivered + 1, @.failed)
                                                                 ELSE Tally(@.delivered, @.failed + 1)]
    BY <1>7 DEF Sent
  <2>3. /\ c \in DOMAIN deliveries /\ deliveries[c].key = key[r]
        /\ deliveries[c].target = plan[r][pos[r]] /\ deliveries[c].status = "pending"
    <3>1. \E i \in DOMAIN deliveries : /\ deliveries[i].key = key[r]
                                       /\ deliveries[i].target = plan[r][pos[r]]
                                       /\ deliveries[i].status = "pending"
      BY <1>0, <2>1 DEF ProgressOf, RowsOf
    <3> QED BY <3>1 DEF Current
  <2>4. o[2] \in {"pending", "delivered", "retrying", "dead"}
    BY DEF Outcomes
  <2> HIDE DEF c
  <2>5. /\ deliveries'[c].status = o[2]
        /\ \A j \in DOMAIN deliveries \ {c} : deliveries'[j] = deliveries[j]
        /\ \A k \in Keys : RowsOf(k)' = RowsOf(k)
        /\ \A k \in Keys \ {key[r]} : RowsKept(k)
    BY <1>t, <2>2, <2>3, <2>4, MarkedRow
  <2>6. by[key[r]] = r /\ status[key[r]] = "accepted"
    BY <1>o, <2>1 DEF Routing
  <2>7. ProgressOf(r)'
    <3>1. ASSUME r \notin ended, tally'[r].failed = 0, NEW j \in RowsOf(key[r])
          PROVE  deliveries'[j].status = "delivered"
      <4>1. o[1] = "delivered" /\ tally[r].failed = 0
        BY <1>t, <2>2, <3>1 DEF Tally
      <4>2. o[2] = "delivered"
        BY <3>1, <4>1 DEF Outcomes
      <4>3. CASE j = c
        BY <2>5, <4>2, <4>3
      <4>4. CASE j # c
        <5>1. j \in DOMAIN deliveries /\ deliveries[j].key = key[r]
          BY <3>1 DEF RowsOf
        <5>2. deliveries[j].target # plan[r][pos[r]]
          BY <1>0, <2>3, <4>4, <5>1 DEF IInv, OneDeliveryPerTarget
        <5>3. deliveries[j].status = "delivered"
          BY <1>0, <2>1, <3>1, <4>1, <5>2 DEF ProgressOf
        <5> QED BY <2>5, <4>4, <5>1, <5>3
      <4> QED BY <4>3, <4>4
    <3>2. pc'[r] = "fanout" /\ RowsOf(key[r])' = RowsOf(key[r])
      BY <1>t, <2>1, <2>5 DEF RowsOf
    <3> QED BY <2>1, <2>6, <3>1, <3>2 DEF ProgressOf
  <2>8. \A q \in Requests \ {r} : ProgressOf(q)'
    BY <1>t, <2>1, <2>5, <2>6, OtherProgress, OwnersDiffer
  <2>9. ASSUME NEW k \in Keys, status'[k] = "delivered" PROVE AllServed(k)'
    <3>1. k # key[r] /\ status[k] = "delivered"
      BY <2>1, <2>6, <2>9
    <3>2. by[k] # NoRequest /\ key[by[k]] = k
      BY <1>0, <3>1 DEF IInv, KeyOwned
    <3>3. by[k] \in Requests \ {r}
      BY <1>t, <3>1, <3>2
    <3>4. UNCHANGED <<key, by[k], plan[by[k]], tally[by[k]]>>
      BY <2>1, <3>3
    <3> QED BY <2>5, <3>1, <3>4, OtherServed
  <2> QED BY <1>0, <2>7, <2>8, <2>9 DEF ProgressInv
<1>8. ASSUME NEW r \in Requests, Conclude(r) PROVE ProgressInv'
  <2>1. /\ UNCHANGED <<deliveries, key, by, plan, pos, tally, ended>> /\ pc[r] = "fanout" /\ ~InPlan(r)
        /\ pc' = [pc EXCEPT ![r] = "done"]
        /\ \A k \in Keys \ {key[r]} : status'[k] = status[k]
        /\ r \in ended => status' = status
        /\ r \notin ended => status'[key[r]] = FinalStatus(tally[r].delivered, tally[r].failed)
    BY <1>8, <1>t DEF Conclude, Answer, Goto, StatusTakes, asked, loop
  <2>2. by[key[r]] = r /\ status[key[r]] = "accepted"
    BY <1>o, <2>1 DEF Routing
  <2>3. \A q \in Requests : ProgressOf(q)'
    <3>1. ProgressOf(r)'
      BY <1>t, <2>1 DEF ProgressOf, Routing
    <3>2. ASSUME NEW q \in Requests \ {r} PROVE ProgressOf(q)'
      <4>1. by[key[q]] = q => UNCHANGED status[key[q]]
        BY <1>t, <2>1, <2>2, OwnersDiffer
      <4> QED BY <1>s, <1>t, <2>1, <4>1, OtherProgress
    <3> QED BY <3>1, <3>2
  <2>4. ASSUME NEW k \in Keys, status'[k] = "delivered" PROVE AllServed(k)'
    <3>1. CASE k # key[r]
      BY <1>s, <2>1, <2>4, <3>1, OtherServed
    <3>2. CASE k = key[r]
      <4>1. r \notin ended /\ FinalStatus(tally[r].delivered, tally[r].failed) = "delivered"
        BY <2>1, <2>2, <2>4, <3>2
      <4>2. tally[r].failed = 0
        <5> DEFINE a == tally[r].delivered
                   f == tally[r].failed
        <5>1. a \in Nat /\ f \in Nat
          BY <1>t
        <5> HIDE DEF a, f
        <5>2. FinalStatus(a, f) = "delivered"
          BY <4>1 DEF a, f
        <5>3. (a > 0 \/ a = 0) /\ (f > 0 \/ f = 0)
          BY <5>1
        <5>4. f = 0
          BY <5>1, <5>2, <5>3 DEF FinalStatus
        <5> QED BY <5>4 DEF f
      <4>3. \A i \in RowsOf(k) : deliveries[i].status = "delivered"
        BY <1>0, <2>1, <3>2, <4>1, <4>2 DEF ProgressOf
      <4>4. reply'[r] = "accepted" /\ r \notin ended'
        <5>1. reply = [q \in Requests |-> reply[q]] /\ reply' = [reply EXCEPT ![r] = "accepted"]
          BY <1>0, <1>8 DEF RouteInv, AnswerInv, Conclude, Answer
        <5> QED BY <2>1, <4>1, <5>1
      <4>5. (Served(r) = Due(r))'
        BY <1>0, <4>4 DEF RouteInv, RouteOf
      <4>6. by'[k] = r /\ RowsOf(k)' = RowsOf(k)
        BY <2>1, <2>2, <3>2 DEF RowsOf
      <4> QED BY <2>1, <4>2, <4>3, <4>5, <4>6 DEF AllServed
    <3> QED BY <3>1, <3>2
  <2> QED BY <1>0, <2>3, <2>4 DEF ProgressInv
<1>9. ASSUME NEW i \in DOMAIN deliveries, Background(i) PROVE ProgressInv'
  <2>1. PICK s \in {"delivered", "dead", "retrying"} : deliveries' = Marked(i, s)
    BY <1>9 DEF Background
  <2>2. /\ UNCHANGED <<key, by, status, plan, pos, tally, ended, pc>>
        /\ \/ deliveries[i].status \in {"retrying", "dead"}
           \/ deliveries[i].status = "delivered" /\ tally[by[deliveries[i].key]].failed > 0
    BY <1>9 DEF Background, WasDead, asked, loop
  <2>3. /\ \A j \in DOMAIN deliveries \ {i} : deliveries'[j] = deliveries[j]
        /\ \A k \in Keys : RowsOf(k)' = RowsOf(k)
        /\ \A k \in Keys \ {deliveries[i].key} : RowsKept(k)
        /\ deliveries'[i].target = deliveries[i].target
    BY <1>t, <2>1, MarkedRow, MarkedRows
  <2>4. ASSUME NEW k \in Keys, status'[k] = "delivered" PROVE AllServed(k)'
    <3>1. k # deliveries[i].key
      <4>1. AllServed(k)
        BY <2>2, <2>4 DEF ProgressInv
      <4>2. ASSUME k = deliveries[i].key PROVE FALSE
        <5>1. i \in RowsOf(k) /\ deliveries[i].status = "delivered" /\ tally[by[k]].failed = 0
          BY <4>1, <4>2 DEF AllServed, RowsOf
        <5> QED BY <2>2, <4>2, <5>1
      <4> QED BY <4>2
    <3> QED BY <2>2, <2>3, <2>4, <3>1, OtherServed
  <2>5. ASSUME NEW q \in Requests PROVE ProgressOf(q)'
    <3> DEFINE R == RowsOf(key[q])
    <3>1. R' = R /\ R \subseteq DOMAIN deliveries
      BY <1>t, <2>2, <2>3 DEF RowsOf
    <3>2. \A j \in R : j = i \/ deliveries'[j] = deliveries[j]
      BY <2>3, <3>1
    <3>3. \A j \in R :
            /\ deliveries'[j].target = deliveries[j].target
            /\ deliveries[j].status = "pending" => deliveries'[j].status = "pending"
      BY <2>2, <2>3, <3>2
    <3>a. ASSUME pc[q] \in Routing, tally[q].failed = 0, NEW j \in R, deliveries[j].status = "delivered"
          PROVE  deliveries'[j].status = "delivered"
      <4>1. by[key[q]] = q /\ deliveries[j].key = key[q]
        BY <1>o, <3>a DEF RowsOf
      <4>2. j # i
        BY <2>2, <3>a, <4>1
      <4> QED BY <3>2, <3>a, <4>2
    <3>4. ProgressOf(q)
      BY <1>0
    <3> HIDE DEF R
    <3>5. UNCHANGED <<key[q], pc[q], plan[q], pos[q], tally[q], status[key[q]]>> /\ (q \in ended' <=> q \in ended)
      BY <2>2
    <3>6. plan'[q][pos'[q]] = plan[q][pos[q]]
      BY <2>2
    <3>7. (pc[q] \in Routing => status[key[q]] = "accepted")'
      BY <3>4, <3>5 DEF ProgressOf
    <3>8. ASSUME pc'[q] = "sending"
          PROVE  \E j \in R' : deliveries'[j].target = plan'[q][pos'[q]] /\ deliveries'[j].status = "pending"
      <4>1. PICK j \in R : deliveries[j].target = plan[q][pos[q]] /\ deliveries[j].status = "pending"
        BY <3>4, <3>5, <3>8 DEF ProgressOf, R
      <4> QED BY <3>1, <3>3, <3>6, <4>1
    <3>9. ASSUME q \notin ended', tally'[q].failed = 0
          PROVE  /\ pc'[q] \in {"fanout", "create"} => \A j \in R' : deliveries'[j].status = "delivered"
                 /\ pc'[q] = "sending" =>
                      \A j \in R' : deliveries'[j].target # plan'[q][pos'[q]] =>
                                      deliveries'[j].status = "delivered"
      <4>1. /\ pc[q] \in {"fanout", "create"} => \A j \in R : deliveries[j].status = "delivered"
            /\ pc[q] = "sending" =>
                 \A j \in R : deliveries[j].target # plan[q][pos[q]] => deliveries[j].status = "delivered"
        BY <3>4, <3>5, <3>9 DEF ProgressOf, R
      <4>2. {"fanout", "create", "sending"} \subseteq Routing
        BY DEF Routing
      <4> QED BY <3>1, <3>3, <3>5, <3>6, <3>9, <3>a, <4>1, <4>2
    <3> QED BY <3>7, <3>8, <3>9 DEF ProgressOf, R
  <2> QED BY <1>0, <2>4, <2>5 DEF ProgressInv
<1> QED BY <1>2, <1>3, <1>4, <1>5, <1>6, <1>7, <1>8, <1>9 DEF Next, Step

\* "delivered" is said of an event only when every target has its delivery and
\* each of them is delivered.
THEOREM DeliveredIsAll == Spec => []DeliveredMeansAll
<1>1. ProgressInv => DeliveredMeansAll
  BY DEF ProgressInv, AllServed, DeliveredMeansAll
<1> QED BY <1>1, ProgressInit, ProgressStep, PTL DEF Spec
=============================================================================
