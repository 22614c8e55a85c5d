-------------------------- MODULE DispatcherProofs --------------------------
(***************************************************************************)
(* What holds of Dispatcher for every set of deliveries, blocked targets   *)
(* and disconnects, every MaxRetries, BatchLimit and number of requeues    *)
(* and crashes: the inductive invariant, the contract, and two properties  *)
(* that relate rows, trails and manual retries.                            *)
(***************************************************************************)
EXTENDS Dispatcher, TLAPS

-----------------------------------------------------------------------------
\* The rows that the code writes.

\* NoRow, NewRow and Requeued are rows, with the columns their code assigns.
LEMMA FixedRows ==
  /\ NoRow \in Row /\ NoRow.status = "absent" /\ NoRow.deadAt = "null"
  /\ NewRow \in Row /\ NewRow.status = "pending" /\ NewRow.deadAt = "null"
  /\ NewRow.attempts = 0 /\ NewRow.next = "null"
  /\ Requeued \in Row /\ Requeued.status = "retrying" /\ Requeued.attempts = 0
  /\ Requeued.next = "later" /\ Requeued.deadAt = "null"
BY DEF NoRow, NewRow, Requeued, RowWith, Row, Status

\* Refusing a new delivery makes a dead row.
LEMMA RefusedRow ==
  /\ Refused(NewRow) \in Row
  /\ Refused(NewRow).status = "dead"
  /\ Refused(NewRow).deadAt = "set"
  /\ Refused(NewRow).next = "null"
BY DEF Refused, NewRow, RowWith, Row, Status

\* The end of send turns a row that is not dead into a consistent one.
LEMMA OutcomeRow ==
  ASSUME NEW v \in Row, v.deadAt = "null", NEW a \in Answers
  PROVE  LET o == Outcome(v, a) IN
         /\ o \in Row
         /\ o.status \in {"delivered", "retrying", "dead"}
         /\ o.status = "delivered" <=> a = "2xx"
         /\ o.status = "dead" <=> o.deadAt = "set"
         /\ o.status = "dead" => o.next = "null"
         /\ o.status = "retrying" => o.next = "later" /\ o.attempts < MaxRetries
BY ConstantsAssumption DEF Outcome, MarkFailed, RowWith, Row, Status, Answers

\* A row is a row whatever is sent for it.
LEMMA OutcomeType ==
  ASSUME NEW v \in Row, NEW a \in Answers
  PROVE  Outcome(v, a) \in Row
BY ConstantsAssumption DEF Outcome, MarkFailed, RowWith, Row, Status, Answers

\* The clock changes next_retry_at only.
LEMMA DueRow ==
  ASSUME NEW v \in Row
  PROVE  /\ Due(v) \in Row
         /\ Due(v).status = v.status /\ Due(v).attempts = v.attempts
         /\ Due(v).deadAt = v.deadAt /\ Due(v).next = "due"
BY DEF Due, RowWith, Row

\* Refusal of any row is a row.
LEMMA RefusedType == ASSUME NEW v \in Row PROVE Refused(v) \in Row
BY DEF Refused, RowWith, Row, Status

-----------------------------------------------------------------------------
\* Types.

\* The empty tables have their types.
LEMMA TypeInit == Init => TypeOK
BY FixedRows DEF Init, TypeOK, Kind, Answers

\* Every step of every goroutine keeps the types.
LEMMA TypeStep == TypeOK /\ [Next]_vars => TypeOK'
<1> SUFFICES ASSUME TypeOK, [Next]_vars PROVE TypeOK'
  OBVIOUS
<1> USE FixedRows DEF TypeOK
<1>1. ASSUME NEW d \in Deliveries, Create(d) PROVE TypeOK'
  BY <1>1 DEF Create, Kind
<1>2. ASSUME NEW d \in Deliveries, CheckRefuse(d) PROVE TypeOK'
  BY <1>2, RefusedType DEF CheckRefuse, Finish, Left, Kind, Answers
<1>3. ASSUME NEW d \in Deliveries, CheckAllow(d) PROVE TypeOK'
  BY <1>3 DEF CheckAllow, Kind
<1>4. ASSUME NEW d \in Deliveries, Cancel(d) PROVE TypeOK'
  BY <1>4, ConstantsAssumption DEF Cancel
<1>5. CASE Scan
  BY <1>5 DEF Scan, Kind
<1>6. ASSUME NEW d \in Deliveries, Fetch(d) PROVE TypeOK'
  BY <1>6 DEF Fetch, Kind
<1>7. ASSUME NEW d \in Deliveries, Skip(d) PROVE TypeOK'
  BY <1>7 DEF Skip, Finish, Left, Kind, Answers
<1>8. ASSUME NEW k \in Kind, NEW d \in Deliveries, Post(k, d) PROVE TypeOK'
  BY <1>8 DEF Post
<1>9. ASSUME NEW k \in Kind, NEW d \in Deliveries, Record(k, d) PROVE TypeOK'
  BY <1>9 DEF Record
<1>10. ASSUME NEW k \in Kind, NEW d \in Deliveries, Write(k, d) PROVE TypeOK'
  BY <1>10, OutcomeType DEF Write, Finish, Left, Answers
<1>11. CASE Die
  BY <1>11 DEF Die, Kind, Answers
<1>12. ASSUME NEW k \in Kind, NEW d \in Deliveries, JitterPanic(k, d) PROVE TypeOK'
  <2>1. CASE k = "handler"
    <3>1. Finish(k, d) /\ UNCHANGED <<rows, trail, canceled, req, phase, requeues, crashes>>
      BY <1>12, <2>1 DEF JitterPanic
    <3> QED BY <3>1 DEF Finish, Left, Answers
  <2>2. CASE k # "handler"
    BY <1>12, <2>2, <1>11 DEF JitterPanic
  <2> QED BY <2>1, <2>2
<1>13. ASSUME NEW r \in Requesters, NEW d \in Deliveries, RequeueLoad(r, d) PROVE TypeOK'
  BY <1>13 DEF RequeueLoad
<1>14. ASSUME NEW r \in Requesters, RequeueWrite(r) PROVE TypeOK'
  BY <1>14 DEF RequeueWrite
<1>15. ASSUME NEW r \in Requesters, RequeueDrop(r) PROVE TypeOK'
  BY <1>15 DEF RequeueDrop
<1>16. ASSUME NEW d \in Deliveries, Elapse(d) PROVE TypeOK'
  BY <1>16, DueRow DEF Elapse
<1>17. CASE Stop \/ Restart
  BY <1>17 DEF Stop, Restart
<1>18. CASE UNCHANGED vars
  BY <1>18 DEF vars
<1> QED
  BY <1>1, <1>2, <1>3, <1>4, <1>5, <1>6, <1>7, <1>8, <1>9, <1>10, <1>11, <1>12,
     <1>13, <1>14, <1>15, <1>16, <1>17, <1>18 DEF Next, SendStep, Crash

\* Every variable keeps its type.
THEOREM TypeCorrect == Spec => []TypeOK
BY TypeInit, TypeStep, PTL DEF Spec

-----------------------------------------------------------------------------
\* Safety: IInv is inductive.

\* Appending an answer to a trail keeps the 2xx in it and adds its own.
LEMMA AppendAcked ==
  ASSUME NEW s \in Seq(Answers), NEW a \in Answers
  PROVE  (\E i \in DOMAIN Append(s, a) : Append(s, a)[i] = "2xx")
           <=> a = "2xx" \/ \E i \in DOMAIN s : s[i] = "2xx"
<1>1. ASSUME NEW i \in DOMAIN s
      PROVE  i \in DOMAIN Append(s, a) /\ Append(s, a)[i] = s[i]
  BY <1>1
<1>2. Len(s) + 1 \in DOMAIN Append(s, a) /\ Append(s, a)[Len(s) + 1] = a
  OBVIOUS
<1>3. ASSUME NEW i \in DOMAIN Append(s, a), i # Len(s) + 1
      PROVE  i \in DOMAIN s /\ Append(s, a)[i] = s[i]
  BY <1>3
<1> QED BY <1>1, <1>2, <1>3

\* Nothing has happened yet, so the inductive invariant holds.
LEMMA SafeInit == Init => IInv
BY FixedRows, TypeInit
DEF Init, IInv, RowConsistent, HandlerOwns, WorkerOwns, WorkerSerial, EvidenceFirst,
    DeliveredHasEvidence, DownIsQuiet, RequesterAfterHandler, Sending, Kind

\* The inductive invariant survives every step; the work of the proof.
LEMMA SafeStep == IInv /\ [Next]_vars => IInv'
<1> SUFFICES ASSUME IInv, [Next]_vars PROVE IInv'
  OBVIOUS
<1> USE DEF IInv, TypeOK, Sending, Kind
<1>0. TypeOK'
  BY TypeStep
<1>1. ASSUME NEW d \in Deliveries, Create(d) PROVE IInv'
  <2>1. RowConsistent' /\ DeliveredHasEvidence'
    BY <1>1, FixedRows DEF Create, RowConsistent, DeliveredHasEvidence, Acked
  <2>2. HandlerOwns'
    BY <1>1, FixedRows DEF Create, HandlerOwns
  <2>3. WorkerOwns'
    BY <1>1, FixedRows DEF Create, WorkerOwns, HandlerOwns
  <2>4. WorkerSerial' /\ EvidenceFirst' /\ DownIsQuiet' /\ RequesterAfterHandler'
    BY <1>1 DEF Create, WorkerSerial, EvidenceFirst, Acked, CtxDone, DownIsQuiet,
           RequesterAfterHandler
  <2> QED BY <1>0, <2>1, <2>2, <2>3, <2>4
<1>2. ASSUME NEW d \in Deliveries, CheckRefuse(d) PROVE IInv'
  <2>1. RowConsistent'
    BY <1>2, FixedRows, RefusedRow DEF CheckRefuse, Finish, Left, RowConsistent,
           HandlerOwns
  <2>2. HandlerOwns'
    BY <1>2, FixedRows, RefusedRow DEF CheckRefuse, Finish, Left, HandlerOwns
  <2>3. WorkerOwns'
    BY <1>2, FixedRows DEF CheckRefuse, Finish, Left, WorkerOwns, HandlerOwns
  <2>4. DeliveredHasEvidence'
    BY <1>2, RefusedRow DEF CheckRefuse, Finish, Left, DeliveredHasEvidence, Acked,
           HandlerOwns
  <2>5. EvidenceFirst' /\ WorkerSerial' /\ DownIsQuiet' /\ RequesterAfterHandler'
    BY <1>2 DEF CheckRefuse, Finish, Left, EvidenceFirst, Acked, CtxDone,
           WorkerSerial, DownIsQuiet, RequesterAfterHandler, Alive
  <2> QED BY <1>0, <2>1, <2>2, <2>3, <2>4, <2>5
<1>3. ASSUME NEW d \in Deliveries, CheckAllow(d) PROVE IInv'
  <2>1. HandlerOwns'
    BY <1>3 DEF CheckAllow, HandlerOwns
  <2>2. DownIsQuiet' /\ RequesterAfterHandler'
    BY <1>3 DEF CheckAllow, DownIsQuiet, RequesterAfterHandler, Alive
  <2>3. RowConsistent' /\ WorkerOwns' /\ WorkerSerial' /\ EvidenceFirst' /\ DeliveredHasEvidence'
    BY <1>3 DEF CheckAllow, RowConsistent, WorkerOwns, WorkerSerial, EvidenceFirst,
           Acked, CtxDone, DeliveredHasEvidence
  <2> QED BY <1>0, <2>1, <2>2, <2>3
<1>4. ASSUME NEW d \in Deliveries, Cancel(d) PROVE IInv'
  <2>1. EvidenceFirst'
    BY <1>4 DEF Cancel, EvidenceFirst, Acked, CtxDone
  <2>2. RowConsistent' /\ HandlerOwns' /\ WorkerOwns' /\ WorkerSerial' /\ DeliveredHasEvidence' /\ DownIsQuiet' /\ RequesterAfterHandler'
    BY <1>4 DEF Cancel, RowConsistent, HandlerOwns, WorkerOwns, WorkerSerial,
           DeliveredHasEvidence, Acked, DownIsQuiet, RequesterAfterHandler
  <2> QED BY <1>0, <2>1, <2>2
<1>5. ASSUME Scan PROVE IInv'
  <2>1. WorkerOwns'
    <3>1. PICK batch \in SUBSET {d \in Deliveries : IsDue(rows[d])} :
            /\ pc'["worker"] = [d \in Deliveries |-> IF d \in batch THEN "queued" ELSE "idle"]
            /\ dv'["worker"] = [d \in Deliveries |-> IF d \in batch THEN rows[d] ELSE NoRow]
      BY <1>5 DEF Scan
    <3>2. \A d \in batch : rows[d].status = "retrying" /\ rows[d].deadAt = "null"
      BY <3>1 DEF IsDue, RowConsistent, Row
    <3> QED BY <1>5, <3>1, <3>2 DEF Scan, WorkerOwns
  <2>2. WorkerSerial' /\ EvidenceFirst'
    BY <1>5 DEF Scan, WorkerSerial, EvidenceFirst, Acked, CtxDone
  <2>3. RowConsistent' /\ HandlerOwns' /\ DeliveredHasEvidence' /\ DownIsQuiet' /\ RequesterAfterHandler'
    BY <1>5 DEF Scan, RowConsistent, HandlerOwns, DeliveredHasEvidence, Acked,
           DownIsQuiet, RequesterAfterHandler
  <2> QED BY <1>0, <2>1, <2>2, <2>3
<1>6. ASSUME NEW d \in Deliveries, Fetch(d) PROVE IInv'
  <2>1. WorkerOwns'
    BY <1>6 DEF Fetch, WorkerOwns
  <2>2. WorkerSerial'
    BY <1>6 DEF Fetch, WorkerSerial, WorkerFree
  <2>3. RowConsistent' /\ HandlerOwns' /\ EvidenceFirst' /\ DeliveredHasEvidence' /\ DownIsQuiet' /\ RequesterAfterHandler'
    BY <1>6 DEF Fetch, RowConsistent, HandlerOwns, EvidenceFirst, Acked, CtxDone,
           DeliveredHasEvidence, DownIsQuiet, RequesterAfterHandler
  <2> QED BY <1>0, <2>1, <2>2, <2>3
<1>7. ASSUME NEW d \in Deliveries, Skip(d) PROVE IInv'
  <2>1. WorkerOwns'
    BY <1>7 DEF Skip, Finish, Left, WorkerOwns
  <2>2. RowConsistent' /\ HandlerOwns' /\ WorkerSerial' /\ EvidenceFirst' /\ DeliveredHasEvidence' /\ DownIsQuiet' /\ RequesterAfterHandler'
    BY <1>7 DEF Skip, Finish, Left, RowConsistent, HandlerOwns, WorkerSerial,
           EvidenceFirst, Acked, CtxDone, DeliveredHasEvidence, DownIsQuiet,
           RequesterAfterHandler
  <2> QED BY <1>0, <2>1, <2>2
<1>8. ASSUME NEW k \in Kind, NEW d \in Deliveries, Post(k, d) PROVE IInv'
  <2>1. HandlerOwns'
    BY <1>8 DEF Post, HandlerOwns
  <2>2. WorkerOwns' /\ WorkerSerial'
    BY <1>8 DEF Post, WorkerOwns, WorkerSerial
  <2>3. EvidenceFirst'
    BY <1>8 DEF Post, EvidenceFirst, Acked, CtxDone
  <2>4. RowConsistent' /\ DeliveredHasEvidence' /\ DownIsQuiet' /\ RequesterAfterHandler'
    BY <1>8 DEF Post, RowConsistent, DeliveredHasEvidence, Acked, DownIsQuiet,
           RequesterAfterHandler, Alive
  <2> QED BY <1>0, <2>1, <2>2, <2>3, <2>4
<1>9. ASSUME NEW k \in Kind, NEW d \in Deliveries, Record(k, d) PROVE IInv'
  <2> DEFINE has(s) == \E i \in DOMAIN s : s[i] = "2xx"
  <2>1. /\ has(trail[d]) => has(trail'[d])
        /\ RecordTakes(k, d) /\ answer[k][d] = "2xx" => has(trail'[d])
        /\ \A c \in Deliveries \ {d} : trail'[c] = trail[c]
    <3>1. CASE RecordTakes(k, d)
      <4>1. trail'[d] = Append(trail[d], answer[k][d])
        BY <1>9, <3>1 DEF Record
      <4>2. trail[d] \in Seq(Answers) /\ answer[k][d] \in Answers
        OBVIOUS
      <4>3. has(trail'[d]) <=> answer[k][d] = "2xx" \/ has(trail[d])
        <5>1. has(Append(trail[d], answer[k][d])) <=> answer[k][d] = "2xx" \/ has(trail[d])
          BY <4>2, AppendAcked, Zenon
        <5> QED BY <4>1, <5>1, Zenon
      <4> QED BY <1>9, <3>1, <4>3 DEF Record
    <3>2. CASE ~RecordTakes(k, d)
      BY <1>9, <3>2 DEF Record
    <3> QED BY <3>1, <3>2
  <2>2. \A c \in Deliveries : Acked(c) => Acked(c)'
    BY <2>1 DEF Acked
  <2>3. ASSUME NEW j \in Kind, NEW c \in Deliveries,
               pc'[j][c] = "write", answer'[j][c] = "2xx"
        PROVE  Acked(c)' \/ CtxDone(j, c)'
    <3>1. CASE j = k /\ c = d
      BY <1>9, <2>1, <2>3, <3>1 DEF Record, RecordTakes, CtxDone, Acked
    <3>2. CASE ~(j = k /\ c = d)
      BY <1>9, <2>2, <2>3, <3>2 DEF Record, CtxDone, EvidenceFirst
    <3> QED BY <3>1, <3>2
  <2>4. EvidenceFirst'
    BY <2>3 DEF EvidenceFirst
  <2>5. DeliveredHasEvidence'
    BY <1>9, <2>2 DEF Record, DeliveredHasEvidence
  <2>6. HandlerOwns'
    BY <1>9 DEF Record, HandlerOwns
  <2>7. WorkerOwns' /\ WorkerSerial'
    BY <1>9 DEF Record, WorkerOwns, WorkerSerial
  <2>8. RowConsistent' /\ DownIsQuiet' /\ RequesterAfterHandler'
    BY <1>9 DEF Record, Alive, RowConsistent, DownIsQuiet, RequesterAfterHandler
  <2> QED BY <1>0, <2>4, <2>5, <2>6, <2>7, <2>8
<1>10. ASSUME NEW k \in Kind, NEW d \in Deliveries, Write(k, d) PROVE IInv'
  <2> DEFINE o == Outcome(dv[k][d], answer[k][d])
  <2>1. pc[k][d] = "write" /\ dv[k][d] \in Row /\ answer[k][d] \in Answers
    BY <1>10 DEF Write
  <2>2. dv[k][d].deadAt = "null"
    BY <2>1, FixedRows DEF HandlerOwns, WorkerOwns
  <2>3. /\ o.status \in {"delivered", "retrying", "dead"}
        /\ o.status = "delivered" <=> answer[k][d] = "2xx"
        /\ o.status = "dead" <=> o.deadAt = "set"
        /\ o.status = "dead" => o.next = "null"
        /\ o.status = "retrying" => o.next = "later" /\ o.attempts < MaxRetries
    BY <2>1, <2>2, OutcomeRow
  <2>4. /\ \A c \in Deliveries : rows'[c] = rows[c] \/ (c = d /\ rows'[c] = o)
        /\ UpdateTakes(k, d) => rows'[d] = o
        /\ ~UpdateTakes(k, d) => rows'[d] = rows[d]
    <3>1. CASE UpdateTakes(k, d)
      BY <1>10, <3>1 DEF Write
    <3>2. CASE ~UpdateTakes(k, d)
      BY <1>10, <3>2 DEF Write
    <3> QED BY <3>1, <3>2
  <2> HIDE DEF o
  <2>5. RowConsistent'
    BY <2>3, <2>4 DEF RowConsistent
  <2>6. HandlerOwns'
    <3>1. CASE k = "handler"
      BY <1>10, <2>1, <2>3, <2>4, <3>1, FixedRows DEF Write, Finish, Left, HandlerOwns
    <3>2. CASE k = "worker"
      BY <1>10, <2>1, <2>3, <2>4, <3>2, FixedRows DEF Write, Finish, Left, HandlerOwns, WorkerOwns
    <3> QED BY <3>1, <3>2
  <2>7. WorkerOwns'
    BY <1>10, <2>1, <2>4, FixedRows DEF Write, Finish, Left, WorkerOwns, HandlerOwns
  <2>8. DeliveredHasEvidence'
    <3>1. o.status = "delivered" /\ UpdateTakes(k, d) => Acked(d)
      BY <2>1, <2>3 DEF EvidenceFirst, UpdateTakes
    <3>2. \A c \in Deliveries : Acked(c)' <=> Acked(c)
      BY <1>10 DEF Write, Acked
    <3> QED BY <2>4, <3>1, <3>2 DEF DeliveredHasEvidence
  <2>9. EvidenceFirst' /\ WorkerSerial'
    BY <1>10 DEF Write, Finish, Left, EvidenceFirst, WorkerSerial, Acked, CtxDone
  <2>10. DownIsQuiet' /\ RequesterAfterHandler'
    BY <1>10 DEF Write, Finish, Left, Alive, DownIsQuiet, RequesterAfterHandler
  <2> QED BY <1>0, <2>5, <2>6, <2>7, <2>8, <2>9, <2>10
<1>11. ASSUME Die PROVE IInv'
  <2>1. HandlerOwns'
    BY <1>11 DEF Die, HandlerOwns
  <2>2. WorkerOwns' /\ WorkerSerial' /\ EvidenceFirst' /\ DownIsQuiet'
    BY <1>11 DEF Die, WorkerOwns, WorkerSerial, EvidenceFirst, Acked, CtxDone,
           DownIsQuiet
  <2>3. RowConsistent' /\ DeliveredHasEvidence' /\ RequesterAfterHandler'
    BY <1>11 DEF Die, RowConsistent, DeliveredHasEvidence, Acked,
           RequesterAfterHandler
  <2> QED BY <1>0, <2>1, <2>2, <2>3
<1>12. ASSUME NEW k \in Kind, NEW d \in Deliveries, JitterPanic(k, d) PROVE IInv'
  <2>1. CASE k = "worker"
    BY <1>11, <1>12, <2>1 DEF JitterPanic
  <2>2. CASE k = "handler"
    <3>1. /\ Finish("handler", d)
          /\ UNCHANGED <<rows, trail, canceled, req, phase, requeues, crashes>>
          /\ pc["handler"][d] = "write" /\ Alive
      BY <1>12, <2>2 DEF JitterPanic, Drawing
    <3>2. HandlerOwns'
      BY <3>1 DEF Finish, Left, HandlerOwns
    <3>3. EvidenceFirst'
      BY <3>1 DEF Finish, Left, EvidenceFirst, Acked, CtxDone
    <3>4. DownIsQuiet' /\ RequesterAfterHandler'
      BY <3>1 DEF Finish, Left, Alive, DownIsQuiet, RequesterAfterHandler
    <3>5. RowConsistent' /\ WorkerOwns' /\ WorkerSerial' /\ DeliveredHasEvidence'
      BY <3>1 DEF Finish, Left, RowConsistent, WorkerOwns, WorkerSerial,
                  DeliveredHasEvidence, Acked
    <3> QED BY <1>0, <3>2, <3>3, <3>4, <3>5
  <2> QED BY <2>1, <2>2
<1>13. ASSUME NEW r \in Requesters, NEW d \in Deliveries, RequeueLoad(r, d) PROVE IInv'
  <2>1. RequesterAfterHandler'
    BY <1>13, FixedRows DEF RequeueLoad, Requeueable, RequesterAfterHandler,
           HandlerOwns
  <2>2. RowConsistent' /\ HandlerOwns' /\ WorkerOwns' /\ WorkerSerial' /\ EvidenceFirst' /\ DeliveredHasEvidence' /\ DownIsQuiet'
    BY <1>13 DEF RequeueLoad, Requeueable, RowConsistent, HandlerOwns, WorkerOwns,
           WorkerSerial, EvidenceFirst, Acked, CtxDone, DeliveredHasEvidence,
           DownIsQuiet
  <2> QED BY <1>0, <2>1, <2>2
<1>14. ASSUME NEW r \in Requesters, RequeueWrite(r) PROVE IInv'
  <2>1. RowConsistent'
    BY <1>14, FixedRows, ConstantsAssumption DEF RequeueWrite, RowConsistent
  <2>2. HandlerOwns'
    BY <1>14, FixedRows DEF RequeueWrite, HandlerOwns, RequesterAfterHandler
  <2>3. WorkerOwns' /\ DeliveredHasEvidence'
    BY <1>14, FixedRows DEF RequeueWrite, WorkerOwns, DeliveredHasEvidence, Acked
  <2>4. WorkerSerial' /\ EvidenceFirst' /\ DownIsQuiet' /\ RequesterAfterHandler'
    BY <1>14 DEF RequeueWrite, WorkerSerial, EvidenceFirst, Acked, CtxDone,
           DownIsQuiet, RequesterAfterHandler, Alive
  <2> QED BY <1>0, <2>1, <2>2, <2>3, <2>4
<1>15. ASSUME NEW r \in Requesters, RequeueDrop(r) PROVE IInv'
  <2>1. RequesterAfterHandler'
    BY <1>15 DEF RequeueDrop, RequesterAfterHandler
  <2>2. RowConsistent' /\ HandlerOwns' /\ WorkerOwns' /\ WorkerSerial' /\ EvidenceFirst' /\ DeliveredHasEvidence' /\ DownIsQuiet'
    BY <1>15 DEF RequeueDrop, RowConsistent, HandlerOwns, WorkerOwns, WorkerSerial,
           EvidenceFirst, Acked, CtxDone, DeliveredHasEvidence, DownIsQuiet
  <2> QED BY <1>0, <2>1, <2>2
<1>16. ASSUME NEW d \in Deliveries, Elapse(d) PROVE IInv'
  <2>1. RowConsistent'
    BY <1>16, DueRow DEF Elapse, RowConsistent
  <2>2. HandlerOwns'
    BY <1>16, DueRow, FixedRows DEF Elapse, HandlerOwns
  <2>3. WorkerOwns' /\ DeliveredHasEvidence'
    BY <1>16, DueRow DEF Elapse, WorkerOwns, DeliveredHasEvidence, Acked
  <2>4. WorkerSerial' /\ EvidenceFirst' /\ DownIsQuiet' /\ RequesterAfterHandler'
    BY <1>16 DEF Elapse, WorkerSerial, EvidenceFirst, Acked, CtxDone, DownIsQuiet,
           RequesterAfterHandler
  <2> QED BY <1>0, <2>1, <2>2, <2>3, <2>4
<1>17. ASSUME Stop \/ Restart PROVE IInv'
  <2>1. EvidenceFirst'
    BY <1>17 DEF Stop, Restart, Alive, EvidenceFirst, Acked, CtxDone, DownIsQuiet
  <2>2. RowConsistent' /\ HandlerOwns' /\ WorkerOwns' /\ WorkerSerial' /\ DeliveredHasEvidence' /\ DownIsQuiet' /\ RequesterAfterHandler'
    BY <1>17 DEF Stop, Restart, Alive, RowConsistent, HandlerOwns, WorkerOwns,
           WorkerSerial, DeliveredHasEvidence, Acked, DownIsQuiet,
           RequesterAfterHandler
  <2> QED BY <1>0, <2>1, <2>2
<1>18. ASSUME UNCHANGED vars PROVE IInv'
  <2>1. RowConsistent' /\ HandlerOwns' /\ WorkerOwns' /\ WorkerSerial' /\ EvidenceFirst' /\ DeliveredHasEvidence' /\ DownIsQuiet' /\ RequesterAfterHandler'
    BY <1>18 DEF vars, RowConsistent, HandlerOwns, WorkerOwns, WorkerSerial,
           EvidenceFirst, Acked, CtxDone, DeliveredHasEvidence, DownIsQuiet,
           RequesterAfterHandler
  <2> QED BY <1>0, <2>1
<1> QED
  BY <1>1, <1>2, <1>3, <1>4, <1>5, <1>6, <1>7, <1>8, <1>9, <1>10, <1>11, <1>12,
     <1>13, <1>14, <1>15, <1>16, <1>17, <1>18 DEF Next, SendStep, Crash

\* In every reachable state.
LEMMA SafeAlways == Spec => []IInv
BY SafeInit, SafeStep, PTL DEF Spec

\* The columns of every row agree: dead_at, next_retry_at and attempts fit the
\* status, so a retrying row is always one that DueDeliveries will find.
THEOREM RowsConsistent == Spec => []RowConsistent
BY SafeAlways, PTL DEF IInv

\* Handler and worker never post one delivery at the same time, and the worker
\* posts one at a time, however many manual retries overlap.
THEOREM SendsExclude == Spec => []NoConcurrentSend
<1>1. IInv => NoConcurrentSend
  BY FixedRows DEF IInv, HandlerOwns, WorkerOwns, WorkerSerial, NoConcurrentSend, Sending, TypeOK, Kind
<1> QED BY <1>1, SafeAlways, PTL

\* A delivered row has its 2xx in delivery_attempts.
THEOREM DeliveredIsEvident == Spec => []DeliveredHasEvidence
BY SafeAlways, PTL DEF IInv

-----------------------------------------------------------------------------
\* When manual retries do not overlap.

\* No manual retry is under way at the start.
LEMMA RequesterInit == Init => RequesterOwns
BY DEF Init, RequesterOwns

\* Nothing but its own write moves a row that a lone requester holds.
LEMMA RequesterStep ==
  ASSUME OneRequester
  PROVE  IInv /\ RequesterOwns /\ [Next]_vars => RequesterOwns'
<1> SUFFICES ASSUME IInv, RequesterOwns, [Next]_vars,
                    NEW s \in Requesters, req'[s] # NoReq
             PROVE  rows'[req'[s]].status = "dead"
  BY DEF RequesterOwns
<1> USE DEF IInv, TypeOK, Kind, Sending, RequesterOwns
<1>1. ASSUME NEW d \in Deliveries, Create(d) PROVE rows'[req'[s]].status = "dead"
  BY <1>1, FixedRows DEF Create, HandlerOwns
<1>2. ASSUME NEW d \in Deliveries, CheckRefuse(d) PROVE rows'[req'[s]].status = "dead"
  BY <1>2, RefusedRow DEF CheckRefuse, HandlerOwns
<1>3. ASSUME NEW k \in Kind, NEW d \in Deliveries, Write(k, d)
      PROVE  rows'[req'[s]].status = "dead"
  <2>1. req'[s] \in Deliveries /\ req'[s] = req[s] /\ rows[req[s]].status = "dead"
    BY <1>3 DEF Write
  <2>2. rows[d].status # "dead"
    BY <1>3, FixedRows DEF Write, HandlerOwns, WorkerOwns
  <2>3. rows'[req[s]] = rows[req[s]]
    BY <1>3, <2>1, <2>2 DEF Write
  <2> QED BY <2>1, <2>3
<1>4. ASSUME NEW r \in Requesters, NEW d \in Deliveries, RequeueLoad(r, d)
      PROVE  rows'[req'[s]].status = "dead"
  BY <1>4 DEF RequeueLoad, Requeueable
<1>5. ASSUME NEW r \in Requesters, RequeueWrite(r) \/ RequeueDrop(r)
      PROVE  rows'[req'[s]].status = "dead"
  BY <1>5, OneRequester DEF RequeueWrite, RequeueDrop, OneRequester
<1>6. ASSUME NEW d \in Deliveries, Elapse(d) PROVE rows'[req'[s]].status = "dead"
  BY <1>6, DueRow DEF Elapse
<1>7. CASE Die
  BY <1>7 DEF Die
<1>8. ASSUME UNCHANGED <<rows, req>> PROVE rows'[req'[s]].status = "dead"
  BY <1>8
<1>9. ASSUME NEW k \in Kind, NEW d \in Deliveries, JitterPanic(k, d)
      PROVE  rows'[req'[s]].status = "dead"
  BY <1>7, <1>8, <1>9 DEF JitterPanic
<1> QED
  BY <1>1, <1>2, <1>3, <1>4, <1>5, <1>6, <1>7, <1>8, <1>9
  DEF Next, SendStep, Crash, CheckAllow, Cancel, Scan, Fetch, Skip, Post, Record,
      Stop, Restart, vars

\* With one manual retry at a time, the row it will overwrite is dead till then.
LEMMA OwnedAlways ==
  ASSUME OneRequester PROVE Spec => [](IInv /\ RequesterOwns)
BY SafeInit, SafeStep, RequesterInit, RequesterStep, PTL DEF Spec

\* A step leaves a delivered row alone, but for the clock.
LEMMA DeliveredStep ==
  ASSUME IInv, RequesterOwns, [Next]_vars, NEW c \in Deliveries,
         rows[c].status = "delivered"
  PROVE  rows'[c] \in {rows[c], Due(rows[c])}
<1> USE DEF IInv, TypeOK, Kind, Sending
<1>1. ASSUME NEW d \in Deliveries, Create(d) PROVE rows'[c] = rows[c]
  BY <1>1, FixedRows DEF Create, HandlerOwns
<1>2. ASSUME NEW d \in Deliveries, CheckRefuse(d) PROVE rows'[c] = rows[c]
  BY <1>2, FixedRows DEF CheckRefuse, HandlerOwns
<1>3. ASSUME NEW k \in Kind, NEW d \in Deliveries, Write(k, d) PROVE rows'[c] = rows[c]
  BY <1>3, FixedRows DEF Write, HandlerOwns, WorkerOwns
<1>4. ASSUME NEW r \in Requesters, RequeueWrite(r) PROVE rows'[c] = rows[c]
  BY <1>4 DEF RequeueWrite, RequesterOwns
<1>5. ASSUME NEW d \in Deliveries, Elapse(d) PROVE rows'[c] \in {rows[c], Due(rows[c])}
  BY <1>5 DEF Elapse
<1>6. ASSUME NEW k \in Kind, NEW d \in Deliveries, JitterPanic(k, d)
      PROVE  rows'[c] = rows[c]
  BY <1>6 DEF JitterPanic, Die
<1> QED
  BY <1>1, <1>2, <1>3, <1>4, <1>5, <1>6
  DEF Next, SendStep, Crash, Die, CheckAllow, Cancel, Scan, Fetch, Skip, Post, Record,
      RequeueLoad, RequeueDrop, Stop, Restart, vars

\* A delivered row is never written again: not by the worker's snapshot, and
\* not by a manual retry, as long as manual retries do not overlap (with two of
\* them it is false, as a run shows).
THEOREM DeliveredStays == ASSUME OneRequester PROVE Spec => DeliveredIsFinal
<1>1. IInv /\ RequesterOwns /\ [Next]_vars =>
        [\A d \in Deliveries : rows[d].status = "delivered" =>
           rows'[d] \in {rows[d], Due(rows[d])}]_vars
  BY DeliveredStep
<1> QED BY <1>1, OwnedAlways, PTL DEF Spec, DeliveredIsFinal

-----------------------------------------------------------------------------
\* The rows implement the contract.

\* Empty tables are the contract's initial state.
LEMMA ContractInit == Init => Contract!CInit
BY FixedRows DEF Init, Acked, Contract!CInit

\* A step that leaves rows and trails alone is no step of the contract.
LEMMA ContractStutter ==
  ASSUME UNCHANGED <<rows, trail>> PROVE UNCHANGED Contract!contractVars
BY DEF Contract!contractVars, Acked

\* A step that changes one status in a way the contract knows, and no trail, is
\* a step of the contract.
LEMMA ContractMove ==
  ASSUME TypeOK, TypeOK', UNCHANGED trail, NEW d \in Deliveries,
         \A c \in Deliveries \ {d} : rows'[c].status = rows[c].status,
         LET old == rows[d].status
             new == rows'[d].status
         IN  \/ old = new
             \/ old = "absent" /\ new = "pending"
             \/ old \in {"pending", "retrying"} /\ new \in {"retrying", "dead"}
             \/ old \in {"pending", "retrying"} /\ new = "delivered" /\ Acked(d)
             \/ old = "dead" /\ new = "retrying"
  PROVE  [Contract!CNext]_(Contract!contractVars)
<1> DEFINE st == [c \in Deliveries |-> rows[c].status]
           ack == {c \in Deliveries : Acked(c)}
<1>1. ack' = ack
  BY DEF Acked
<1>2. st' = [st EXCEPT ![d] = rows'[d].status] /\ st[d] = rows[d].status
  OBVIOUS
<1>3. d \in ack <=> Acked(d)
  OBVIOUS
<1> QED
  BY <1>1, <1>2, <1>3
  DEF Contract!CNext, Contract!CStep, Contract!contractVars, Contract!Accept,
      Contract!Settle, Contract!Postpone, Contract!GiveUp, Contract!Revive, Contract!Open

\* Recording an answer acknowledges the delivery or changes nothing the contract
\* speaks of.
LEMMA ContractRecord ==
  ASSUME IInv, NEW k \in Kind, NEW d \in Deliveries, Record(k, d)
  PROVE  [Contract!CNext]_(Contract!contractVars)
<1> USE DEF IInv, TypeOK, Kind, Sending
<1> DEFINE has(s) == \E i \in DOMAIN s : s[i] = "2xx"
           st == [c \in Deliveries |-> rows[c].status]
           ack == {c \in Deliveries : Acked(c)}
<1>1. st' = st
  BY DEF Record
<1>2. st[d] \in {"pending", "retrying"}
  BY FixedRows DEF Record, HandlerOwns, WorkerOwns
<1>3. \A c \in Deliveries \ {d} : trail'[c] = trail[c]
  BY DEF Record
<1>4. has(trail[d]) => has(trail'[d])
  <2>1. CASE RecordTakes(k, d)
    <3>1. trail'[d] = Append(trail[d], answer[k][d])
      BY <2>1 DEF Record
    <3>2. trail[d] \in Seq(Answers) /\ answer[k][d] \in Answers
      OBVIOUS
    <3>3. has(trail[d]) => has(Append(trail[d], answer[k][d]))
      BY <3>2, AppendAcked, Zenon
    <3> QED BY <3>1, <3>3, Zenon
  <2>2. CASE ~RecordTakes(k, d)
    BY <2>2 DEF Record
  <2> QED BY <2>1, <2>2
<1>5. ack' = ack \/ ack' = ack \cup {d}
  <2>1. \A c \in Deliveries : Acked(c)' <=> Acked(c) \/ (c = d /\ Acked(d)')
    BY <1>3, <1>4 DEF Acked
  <2> QED BY <2>1
<1> QED
  BY <1>1, <1>2, <1>5
  DEF Contract!CNext, Contract!CStep, Contract!contractVars, Contract!Acknowledge,
      Contract!Open

\* Every step of Dispatcher is a step of the contract or leaves its variables alone.
LEMMA ContractStep ==
  ASSUME OneRequester, IInv, IInv', RequesterOwns, [Next]_vars
  PROVE  [Contract!CNext]_(Contract!contractVars)
<1> DEFINE Kept == [Contract!CNext]_(Contract!contractVars)
<1> USE DEF IInv, TypeOK, Kind, Sending
<1>1. ASSUME NEW d \in Deliveries, Create(d) PROVE Kept
  <2>1. /\ UNCHANGED trail
        /\ \A c \in Deliveries \ {d} : rows'[c].status = rows[c].status
        /\ rows[d].status = "absent" /\ rows'[d].status = "pending"
    BY <1>1, FixedRows DEF Create, HandlerOwns
  <2> QED BY <2>1, ContractMove
<1>2. ASSUME NEW d \in Deliveries, CheckRefuse(d) PROVE Kept
  <2>1. /\ UNCHANGED trail
        /\ \A c \in Deliveries \ {d} : rows'[c].status = rows[c].status
        /\ rows[d].status = "pending" /\ rows'[d].status \in {"pending", "dead"}
    BY <1>2, FixedRows, RefusedRow DEF CheckRefuse, HandlerOwns
  <2> QED BY <2>1, ContractMove
<1>3. ASSUME NEW k \in Kind, NEW d \in Deliveries, Write(k, d) PROVE Kept
  <2>1. /\ UNCHANGED trail
        /\ \A c \in Deliveries \ {d} : rows'[c].status = rows[c].status
        /\ dv[k][d] \in Row /\ answer[k][d] \in Answers
        /\ rows[d].status \in {"pending", "retrying"}
        /\ dv[k][d].deadAt = "null"
    BY <1>3, FixedRows DEF Write, HandlerOwns, WorkerOwns
  <2>2. CASE ~UpdateTakes(k, d)
    <3>1. rows'[d].status = rows[d].status
      BY <1>3, <2>2 DEF Write
    <3> QED BY <2>1, <3>1, ContractMove
  <2>3. CASE UpdateTakes(k, d)
    <3>1. rows'[d] = Outcome(dv[k][d], answer[k][d])
      BY <1>3, <2>3 DEF Write
    <3>2. /\ rows'[d].status \in {"delivered", "retrying", "dead"}
          /\ rows'[d].status = "delivered" <=> answer[k][d] = "2xx"
      BY <2>1, <3>1, OutcomeRow
    <3>3. answer[k][d] = "2xx" => Acked(d)
      BY <1>3, <2>3 DEF Write, EvidenceFirst, UpdateTakes
    <3> QED BY <2>1, <3>2, <3>3, ContractMove
  <2> QED BY <2>2, <2>3
<1>4. ASSUME NEW r \in Requesters, RequeueWrite(r) PROVE Kept
  <2>1. /\ UNCHANGED trail
        /\ req[r] \in Deliveries
        /\ \A c \in Deliveries \ {req[r]} : rows'[c].status = rows[c].status
        /\ rows[req[r]].status = "dead" /\ rows'[req[r]].status = "retrying"
    BY <1>4, FixedRows DEF RequeueWrite, RequesterOwns
  <2> QED BY <2>1, ContractMove
<1>5. ASSUME NEW d \in Deliveries, Elapse(d) PROVE Kept
  <2>1. UNCHANGED trail /\ \A c \in Deliveries : rows'[c].status = rows[c].status
    BY <1>5, DueRow DEF Elapse
  <2> QED BY <2>1, ContractMove
<1>6. ASSUME NEW k \in Kind, NEW d \in Deliveries, Record(k, d) PROVE Kept
  BY <1>6, ContractRecord
<1>7. ASSUME UNCHANGED <<rows, trail>> PROVE Kept
  BY <1>7, ContractStutter
<1> QED
  BY <1>1, <1>2, <1>3, <1>4, <1>5, <1>6, <1>7
  DEF Next, SendStep, JitterPanic, Crash, Die, CheckAllow, Cancel, Scan, Fetch, Skip,
      Post, RequeueLoad, RequeueDrop, Stop, Restart, vars

\* As long as manual retries do not overlap, the rows and the trail implement the
\* contract: acknowledged before delivered, delivered for good, and out of dead
\* by a manual retry only.
THEOREM ContractImplemented == ASSUME OneRequester PROVE Spec => ContractKept
<1>1. IInv /\ RequesterOwns /\ (IInv /\ RequesterOwns)' /\ [Next]_vars =>
        [Contract!CNext]_(Contract!contractVars)
  BY ContractStep
<1> QED
  BY <1>1, ContractInit, OwnedAlways, PTL DEF Spec, ContractKept, Contract!CSpec

-----------------------------------------------------------------------------
\* Refused targets.

\* Before any manual retry a refused delivery is with its handler, or dead, and
\* the worker leaves it alone.
RefusedAside ==
  requeues = 0 =>
    /\ \A r \in Requesters : req[r] = NoReq
    /\ \A d \in Blocked :
         /\ trail[d] = <<>>
         /\ rows[d].status \in {"absent", "pending", "dead"}
         /\ pc["handler"][d] \in {"idle", "check", "done"}
         /\ pc["worker"][d] = "idle"

\* Nothing has been posted at the start.
LEMMA AsideInit == Init => RefusedAside
BY ConstantsAssumption, FixedRows DEF Init, RefusedAside, Kind

\* Every step but a manual retry leaves refused deliveries aside.
LEMMA AsideStep == IInv /\ RefusedAside /\ [Next]_vars => RefusedAside'
<1> SUFFICES ASSUME IInv, RefusedAside, [Next]_vars, requeues' = 0
             PROVE  /\ \A r \in Requesters : req'[r] = NoReq
                    /\ \A d \in Blocked :
                         /\ trail'[d] = <<>>
                         /\ rows'[d].status \in {"absent", "pending", "dead"}
                         /\ pc'["handler"][d] \in {"idle", "check", "done"}
                         /\ pc'["worker"][d] = "idle"
  BY DEF RefusedAside
<1> DEFINE Goal == /\ \A r \in Requesters : req'[r] = NoReq
                   /\ \A d \in Blocked :
                        /\ trail'[d] = <<>>
                        /\ rows'[d].status \in {"absent", "pending", "dead"}
                        /\ pc'["handler"][d] \in {"idle", "check", "done"}
                        /\ pc'["worker"][d] = "idle"
<1> USE ConstantsAssumption DEF IInv, TypeOK, Kind, RefusedAside
<1>1. ASSUME NEW r \in Requesters, NEW d \in Deliveries, RequeueLoad(r, d) PROVE FALSE
  BY <1>1 DEF RequeueLoad
<1>0. requeues = 0
  BY <1>1 DEF Next, SendStep, Crash, Die, Create, CheckRefuse, CheckAllow, Cancel, Scan,
     Fetch, Skip, Post, Record, Write, JitterPanic, RequeueWrite, RequeueDrop, Elapse,
     Stop, Restart, vars
<1>2. ASSUME NEW d \in Deliveries, Create(d) PROVE Goal
  BY <1>0, <1>2, FixedRows DEF Create
<1>3. ASSUME NEW d \in Deliveries, CheckRefuse(d) PROVE Goal
  BY <1>0, <1>3, RefusedRow DEF CheckRefuse, Finish, Left, HandlerOwns
<1>4. ASSUME NEW d \in Deliveries, CheckAllow(d) PROVE Goal
  BY <1>0, <1>4 DEF CheckAllow
<1>5. CASE Scan
  <2>1. PICK batch \in SUBSET {d \in Deliveries : IsDue(rows[d])} :
          pc' = [pc EXCEPT !["worker"] =
                   [d \in Deliveries |-> IF d \in batch THEN "queued" ELSE "idle"]]
    BY <1>5 DEF Scan
  <2>2. \A d \in Blocked : d \notin batch
    BY <1>0 DEF IsDue
  <2>3. UNCHANGED <<rows, trail, req>>
    BY <1>5 DEF Scan
  <2> QED BY <1>0, <2>1, <2>2, <2>3
<1>6. ASSUME NEW d \in Deliveries, Fetch(d) PROVE Goal
  BY <1>0, <1>6 DEF Fetch
<1>7. ASSUME NEW d \in Deliveries, Skip(d) PROVE Goal
  BY <1>0, <1>7 DEF Skip, Finish, Left
<1>8. ASSUME NEW k \in Kind, NEW d \in Deliveries, SendStep(k, d) PROVE Goal
  <2>1. d \notin Blocked
    BY <1>0, <1>8 DEF SendStep, Post, Record, Write
  <2> QED BY <1>0, <1>8, <2>1 DEF SendStep, Post, Record, Write, Finish, Left
<1>9. CASE Die
  BY <1>0, <1>9 DEF Die
<1>10. ASSUME NEW k \in Kind, NEW d \in Deliveries, JitterPanic(k, d) PROVE Goal
  <2>1. d \notin Blocked
    BY <1>0, <1>10 DEF JitterPanic, Drawing
  <2>2. CASE k = "handler"
    <3>1. Finish(k, d) /\ UNCHANGED <<rows, trail, req>>
      BY <1>10, <2>2 DEF JitterPanic
    <3> QED BY <1>0, <2>1, <3>1 DEF Finish, Left
  <2>3. CASE k # "handler"
    BY <1>9, <1>10, <2>3 DEF JitterPanic
  <2> QED BY <2>2, <2>3
<1>11. ASSUME NEW r \in Requesters, RequeueWrite(r) \/ RequeueDrop(r) PROVE FALSE
  BY <1>0, <1>11 DEF RequeueWrite, RequeueDrop
<1>12. ASSUME NEW d \in Deliveries, Elapse(d) PROVE Goal
  BY <1>0, <1>12, DueRow DEF Elapse
<1>13. ASSUME UNCHANGED <<rows, trail, pc, req>> PROVE Goal
  BY <1>0, <1>13
<1> QED
  BY <1>1, <1>2, <1>3, <1>4, <1>5, <1>6, <1>7, <1>8, <1>9, <1>10, <1>11, <1>12, <1>13
  DEF Next, Crash, Cancel, Stop, Restart, vars

\* A target the whitelist refuses is never posted, however requests, retries and
\* crashes interleave, as long as nobody retries a delivery by hand.
THEOREM RefusedNeverPosted == Spec => []RefusedPostedByHand
<1>1. IInv /\ RefusedAside => RefusedPostedByHand
  BY DEF IInv, TypeOK, RefusedAside, RefusedPostedByHand
<1> QED BY <1>1, SafeInit, SafeStep, AsideInit, AsideStep, PTL DEF Spec

-----------------------------------------------------------------------------
\* Acknowledgements, when manual retries do not overlap.

\* A process that is down has been counted as ended.
DownCounted == phase = "down" => crashes > 0

\* Goroutine k is about to write the 2xx it got for d.
Confirming(k, d) == pc[k][d] = "write" /\ answer[k][d] = "2xx"

\* The invariant that acknowledgements need.
AckInv == IInv /\ RequesterOwns /\ DownCounted /\ AcknowledgementCounts

\* Nothing is on record at the start.
LEMMA AckInit == Init => DownCounted /\ AcknowledgementCounts
BY DEF Init, DownCounted, AcknowledgementCounts, Acked

\* Only Die brings the process down.
LEMMA DownStep == IInv /\ DownCounted /\ [Next]_vars => DownCounted'
<1> SUFFICES ASSUME IInv, DownCounted, [Next]_vars PROVE DownCounted'
  OBVIOUS
<1> USE DEF IInv, TypeOK, DownCounted
<1>1. CASE Die
  BY <1>1 DEF Die
<1>2. CASE Stop \/ Restart
  BY <1>2 DEF Stop, Restart
<1>3. CASE UNCHANGED <<phase, crashes>>
  BY <1>3
<1>4. ASSUME NEW k \in Kind, NEW d \in Deliveries, JitterPanic(k, d) PROVE DownCounted'
  BY <1>1, <1>3, <1>4 DEF JitterPanic
<1> QED
  BY <1>1, <1>2, <1>3, <1>4
  DEF Next, SendStep, Crash, Create, CheckRefuse, CheckAllow, Cancel, Scan, Fetch, Skip,
      Post, Record, Write, RequeueLoad, RequeueWrite, RequeueDrop, Elapse, vars

\* A delivery that some goroutine is at work on is not delivered, and no other
\* goroutine is about to write for it.
LEMMA AloneAtWork ==
  ASSUME IInv, NEW k \in Kind, NEW d \in Deliveries, pc[k][d] \in {"check"} \cup Sending
  PROVE  /\ rows[d].status \notin {"delivered", "dead"}
         /\ \A j \in Kind : pc[j][d] = "write" => j = k
BY FixedRows DEF IInv, HandlerOwns, WorkerOwns, Sending, Kind

\* Every step keeps the property.
LEMMA AckStep ==
  ASSUME OneRequester PROVE AckInv /\ [Next]_vars => AcknowledgementCounts'
<1> SUFFICES ASSUME AckInv, [Next]_vars, NEW c \in Deliveries \ canceled',
                    Acked(c)', phase' = "running", crashes' = 0
             PROVE  rows'[c].status = "delivered" \/ \E k \in Kind : Confirming(k, c)'
  BY DEF AcknowledgementCounts, Confirming
<1> DEFINE Goal == rows'[c].status = "delivered" \/ \E k \in Kind : Confirming(k, c)'
<1> USE DEF AckInv, IInv, TypeOK
<1>1. CASE Die
  BY <1>1 DEF Die
<1>2. CASE Stop \/ Restart
  BY <1>2 DEF Stop, Restart, DownCounted
<1>3. ASSUME phase = "running", crashes = 0, c \notin canceled, trail'[c] = trail[c]
      PROVE  rows[c].status = "delivered" \/ \E k \in Kind : Confirming(k, c)
  BY <1>3 DEF AcknowledgementCounts, Acked, Confirming
<1>4. ASSUME phase = "running", crashes = 0, c \notin canceled, trail'[c] = trail[c],
             rows'[c].status = rows[c].status,
             \A k \in Kind : Confirming(k, c) => Confirming(k, c)'
      PROVE  Goal
  BY <1>3, <1>4
<1>5. ASSUME NEW d \in Deliveries, Create(d) PROVE Goal
  <2>1. pc["handler"][d] = "idle" /\ pc["worker"][d] = "idle" /\ rows[d].status = "absent"
    BY <1>5 DEF Create, HandlerOwns, WorkerOwns
  <2>2. d # c
    BY <1>3, <1>5, <2>1 DEF Create, Confirming, Kind
  <2> QED BY <1>4, <1>5, <2>2 DEF Create, Confirming
<1>6. ASSUME NEW d \in Deliveries, CheckRefuse(d) PROVE Goal
  <2>1. phase = "running" /\ crashes = 0 /\ c \notin canceled /\ trail'[c] = trail[c]
    BY <1>6 DEF CheckRefuse
  <2>2. d # c
    BY <1>3, <1>6, <2>1, AloneAtWork DEF CheckRefuse, Confirming, Kind
  <2> QED BY <1>4, <1>6, <2>1, <2>2 DEF CheckRefuse, Finish, Confirming
<1>7. ASSUME NEW d \in Deliveries, CheckAllow(d) PROVE Goal
  BY <1>4, <1>7 DEF CheckAllow, Confirming
<1>8. ASSUME NEW d \in Deliveries, Cancel(d) PROVE Goal
  BY <1>4, <1>8 DEF Cancel, Confirming
<1>9. CASE Scan
  BY <1>4, <1>9 DEF Scan, Confirming
<1>10. ASSUME NEW d \in Deliveries, Fetch(d) \/ Skip(d) PROVE Goal
  <2>1. CASE Fetch(d)
    BY <1>4, <2>1 DEF Fetch, Confirming
  <2>2. CASE Skip(d)
    BY <2>2 DEF Skip
  <2> QED BY <1>10, <2>1, <2>2
<1>11. ASSUME NEW k \in Kind, NEW d \in Deliveries, Post(k, d) PROVE Goal
  BY <1>4, <1>11 DEF Post, Confirming
<1>12. ASSUME NEW k \in Kind, NEW d \in Deliveries, Record(k, d) PROVE Goal
  <2>1. phase = "running" /\ crashes = 0 /\ c \notin canceled
        /\ rows'[c] = rows[c] /\ pc[k][d] = "record"
    BY <1>12 DEF Record
  <2>2. CASE d # c
    BY <1>4, <1>12, <2>1, <2>2 DEF Record, Confirming
  <2>3. CASE d = c /\ answer[k][d] = "2xx"
    BY <1>12, <2>3 DEF Record, Confirming
  <2>4. CASE d = c /\ answer[k][d] # "2xx"
    <3>1. trail[c] \in Seq(Answers) /\ answer[k][c] \in Answers
      OBVIOUS
    <3>2. trail'[c] \in {trail[c], Append(trail[c], answer[k][c])}
      BY <1>12, <2>4 DEF Record
    <3>3. Acked(c)
      <4>1. \E i \in DOMAIN trail'[c] : trail'[c][i] = "2xx"
        BY DEF Acked
      <4>2. CASE trail'[c] = trail[c]
        BY <4>1, <4>2 DEF Acked
      <4>3. CASE trail'[c] = Append(trail[c], answer[k][c])
        BY <2>4, <3>1, <4>1, <4>3, AppendAcked DEF Acked
      <4> QED BY <3>2, <4>2, <4>3
    <3>4. rows[c].status = "delivered" \/ \E j \in Kind : Confirming(j, c)
      BY <2>1, <3>3 DEF AcknowledgementCounts, Confirming
    <3>5. FALSE
      BY <2>1, <2>4, <3>4, AloneAtWork DEF Confirming, Sending
    <3> QED BY <3>5
  <2> QED BY <2>2, <2>3, <2>4
<1>13. ASSUME NEW k \in Kind, NEW d \in Deliveries, Write(k, d) PROVE Goal
  <2>1. phase = "running" /\ crashes = 0 /\ c \notin canceled
        /\ trail'[c] = trail[c] /\ pc[k][d] = "write"
    BY <1>13 DEF Write
  <2>2. CASE d # c
    BY <1>4, <1>13, <2>1, <2>2 DEF Write, Finish, Confirming
  <2>3. CASE d = c /\ answer[k][d] = "2xx"
    <3>1. UpdateTakes(k, d)
      BY <2>1, <2>3 DEF UpdateTakes, CtxDone
    <3>2. rows'[d] = Outcome(dv[k][d], answer[k][d])
      BY <1>13, <3>1 DEF Write
    <3>3. dv[k][d] \in Row /\ dv[k][d].deadAt = "null"
      BY <2>1, FixedRows DEF HandlerOwns, WorkerOwns, Sending, Kind
    <3> QED BY <2>3, <3>2, <3>3, OutcomeRow
  <2>4. CASE d = c /\ answer[k][d] # "2xx"
    <3>1. FALSE
      BY <1>3, <2>1, <2>4, AloneAtWork DEF Confirming, Sending
    <3> QED BY <3>1
  <2> QED BY <2>2, <2>3, <2>4
<1>14. ASSUME NEW r \in Requesters, NEW d \in Deliveries, RequeueLoad(r, d) PROVE Goal
  BY <1>4, <1>14 DEF RequeueLoad, Confirming
<1>15. ASSUME NEW r \in Requesters, RequeueWrite(r) PROVE Goal
  <2>1. phase = "running" /\ crashes = 0 /\ c \notin canceled
        /\ trail'[c] = trail[c] /\ rows[req[r]].status = "dead"
    BY <1>15 DEF RequeueWrite, RequesterOwns
  <2>2. req[r] # c
    BY <1>3, <2>1, AloneAtWork DEF Confirming, Sending
  <2> QED BY <1>4, <1>15, <2>1, <2>2 DEF RequeueWrite, Confirming
<1>16. ASSUME NEW r \in Requesters, RequeueDrop(r) PROVE Goal
  BY <1>4, <1>16 DEF RequeueDrop, Confirming
<1>17. ASSUME NEW d \in Deliveries, Elapse(d) PROVE Goal
  BY <1>4, <1>17, DueRow DEF Elapse, Confirming
<1>18. ASSUME NEW k \in Kind, NEW d \in Deliveries, JitterPanic(k, d) PROVE Goal
  <2>1. CASE k = "handler"
    <3>1. /\ Finish(k, d) /\ answer[k][d] # "2xx"
          /\ UNCHANGED <<rows, trail, canceled, req, phase, requeues, crashes>>
      BY <1>18, <2>1 DEF JitterPanic, Drawing
    <3> QED BY <1>4, <3>1 DEF Finish, Confirming
  <2>2. CASE k # "handler"
    BY <1>1, <1>18, <2>2 DEF JitterPanic
  <2> QED BY <2>1, <2>2
<1>19. ASSUME UNCHANGED vars PROVE Goal
  BY <1>4, <1>19 DEF vars, Confirming
<1> QED
  BY <1>1, <1>2, <1>5, <1>6, <1>7, <1>8, <1>9, <1>10, <1>11, <1>12, <1>13, <1>14,
     <1>15, <1>16, <1>17, <1>18, <1>19
  DEF Next, SendStep, Crash

\* A 2xx on record reaches its row, however the worker, panics of handlers and
\* manual retries that do not overlap interleave, until the process is stopped.
THEOREM AcknowledgementsCount ==
  ASSUME OneRequester PROVE Spec => []AcknowledgementCounts
<1>1. Init => AckInv
  BY SafeInit, RequesterInit, AckInit DEF AckInv
<1>2. AckInv /\ [Next]_vars => AckInv'
  BY OneRequester, SafeStep, RequesterStep, DownStep, AckStep DEF AckInv
<1>3. AckInv => AcknowledgementCounts
  BY DEF AckInv
<1> QED BY <1>1, <1>2, <1>3, PTL DEF Spec
=============================================================================
