---------------------------- MODULE ConfigStore ----------------------------
(***************************************************************************)
(* Sources, targets and rules (internal/store/sqlite and the handlers of   *)
(* internal/httpapi that write them): every write is a transaction with    *)
(* its change-log entry, and all of them share the one connection that     *)
(* SetMaxOpenConns(1) leaves the pool.                                     *)
(*                                                                         *)
(* A request carries one operation through its handler.  A transaction     *)
(* writes the row, then the links of a rule, then the log entry: nobody    *)
(* else has a connection to look between them, but each may fail when the  *)
(* others have been done.  (The two DELETEs of DeleteRule are one step:    *)
(* only the second can be refused.)  "read" stands for every other         *)
(* statement that takes the connection for itself: lists, lookups,         *)
(* ingestion and the retries.                                              *)
(*                                                                         *)
(* Abstractions.  A row is its name and, of a rule, what it refers to; the *)
(* other columns are copied like the name.  A zero id is an absent one.    *)
(* References from events and deliveries are left out: they can only make  *)
(* a DELETE fail.  The 30 s of the middleware end a request only where it  *)
(* waits for the connection; clients in Disconnects may leave at any time. *)
(***************************************************************************)
EXTENDS Naturals, Sequences, FiniteSets

CONSTANTS
  Requests,     \* HTTP requests, one operation each
  Disconnects,  \* those whose client may go away
  Free,         \* the connection's holder when it is in the pool
  Names,        \* of sources and targets, unique per table, and of rules
  NoName,       \* the name of no row; in an update's body, the name is kept
  MaxId,        \* bound: ids per table that requests name
  Ops           \* the operations that requests may carry

Tables == {"source", "target", "rule"}
Ids == 1 .. MaxId

Row == [name   : Names \cup {NoName},
        source : Ids \cup {0},
        target : Ids \cup {0},
        links  : SUBSET Ids]

NoRow == [name |-> NoName, source |-> 0, target |-> 0, links |-> {}]
NoOp == [kind |-> "read", table |-> "source", id |-> 0, body |-> NoRow]

\* What the handlers let through: a rule that is created names a target, and
\* only rules refer to anything.
WellFormed(o) ==
  /\ o \in [kind : {"create", "update", "delete", "read"}, table : Tables,
            id : Ids \cup {0}, body : Row]
  /\ o.kind = "create" =>
       o.body.name # NoName /\ (o.table = "rule" => o.body.target # 0 \/ o.body.links # {})
  /\ o.table # "rule" => o.body = [NoRow EXCEPT !.name = o.body.name]

ASSUME ConfigAssumption ==
  /\ Disconnects \subseteq Requests
  /\ Free \notin Requests
  /\ NoName \notin Names
  /\ MaxId \in Nat \ {0}
  /\ \A o \in Ops : WellFormed(o)

VARIABLES
  db,       \* the committed tables, AUTOINCREMENT counters and change log
  scratch,  \* the same inside the open transaction
  conn,     \* who holds the connection: a request in a transaction, or Free
  pc,       \* pc[r]: where the handler of r is
  op,       \* op[r]: the operation r asks for
  held,     \* held[r]: the row to write, as the handler made it of the request
  before,   \* before[r]: the snapshot for the change log
  ended     \* requests whose context has ended

vars == <<db, scratch, conn, pc, op, held, before, ended>>

-----------------------------------------------------------------------------
IdsOf(d, table) == DOMAIN d.rows[table]
RowOf(d, table, id) == IF id \in IdsOf(d, table) THEN d.rows[table][id] ELSE NoRow

-----------------------------------------------------------------------------
\* Slips of the kind a change to this code could make.

CommitAnyway(r) == conn = r          \* a commit that does not look at the context

LinkErrorDropped(r) == FALSE         \* CreateRule goes on when persistTargets fails

MergedBlindly(row, body) == body     \* an update replaces what it does not give

LoggedElsewhere(d, entry) == d       \* the entry goes through the pool, and is lost

ReleaseNever(r) == FALSE             \* nobody watches the context of a transaction

PatientForever(r) == FALSE           \* a middleware without the timeout

-----------------------------------------------------------------------------
\* The handlers' and the store's view of a rule's targets.

\* resolveRuleTargetIDs, and again persistTargets.
LinksOf(body) ==
  IF body.links # {} THEN body.links
  ELSE IF body.target # 0 THEN {body.target} ELSE {}

\* The target_id column; without target_id the first of target_ids.
Primaries(body) ==
  IF body.target # 0 THEN {body.target}
  ELSE IF body.links # {} THEN body.links ELSE {0}

\* The rows that a create may mean.
NewRows(body) ==
  {[body EXCEPT !.links = LinksOf(body), !.target = t] : t \in Primaries(body)}

\* handleUpdateX: the fields the request gives replace those of the row.
Merged(row, body) ==
  [name   |-> IF body.name # NoName THEN body.name ELSE row.name,
   source |-> IF body.source # 0 THEN body.source ELSE row.source,
   target |-> IF body.target # 0 THEN body.target ELSE row.target,
   links  |-> IF LinksOf(body) # {} THEN LinksOf(body) ELSE LinksOf(row)]

\* What the schema accepts as row id of table: names of sources and targets are
\* UNIQUE, what a rule refers to exists.
AcceptsRow(d, table, id, row) ==
  IF table = "rule"
  THEN row.target \in IdsOf(d, "target") /\ row.source \in IdsOf(d, "source") \cup {0}
  ELSE \A i \in IdsOf(d, table) \ {id} : d.rows[table][i].name # row.name

\* And what as the links of rule id.  (OR IGNORE ignores a link that is there, not
\* a foreign key.)
AcceptsLinks(d, id, links) ==
  links # {} => id \in IdsOf(d, "rule") /\ links \subseteq IdsOf(d, "target")

\* What it lets go: no rule refers to the source or target.
Releases(d, table, id) ==
  \A i \in IdsOf(d, "rule") :
    LET rule == d.rows["rule"][i] IN
    CASE table = "source" -> rule.source # id
      [] table = "target" -> id \notin {rule.target} \cup rule.links
      [] table = "rule"   -> TRUE

\* logChange, in the transaction.
Logged(d, entry) == [d EXCEPT !.log = Append(@, entry)]

Entry(table, id, action, old, new) ==
  [table |-> table, id |-> id, action |-> action, before |-> old, after |-> new]

Put(d, table, id, row) ==
  [d EXCEPT !.rows[table] = [i \in DOMAIN @ \cup {id} |-> IF i = id THEN row ELSE @[i]]]

\* A statement on the row's own table; the links of a rule are in another.
Written(d, table, id, row) ==
  Put(d, table, id, [row EXCEPT !.links = RowOf(d, table, id).links])

\* INSERT.  The id is AUTOINCREMENT's: never used before.
Inserted(d, table, row) ==
  LET id == d.seq[table] + 1 IN [Written(d, table, id, row) EXCEPT !.seq[table] = id]

\* UPDATE: a row that is gone is not updated, and that is no error.
Updated(d, table, id, row) == IF id \in IdsOf(d, table) THEN Written(d, table, id, row) ELSE d

Deleted(d, table, id) == [d EXCEPT !.rows[table] = [i \in DOMAIN @ \ {id} |-> @[i]]]

\* The links of the rule are replaced by those of links that exist.
Linked(d, id, links) ==
  IF id \in IdsOf(d, "rule")
  THEN Put(d, "rule", id, [RowOf(d, "rule", id) EXCEPT !.links = links \cap IdsOf(d, "target")])
  ELSE d

-----------------------------------------------------------------------------
EmptyDb ==
  [rows |-> [t \in Tables |-> <<>>], seq |-> [t \in Tables |-> 0], log |-> <<>>]

Init ==
  /\ db = EmptyDb
  /\ scratch = EmptyDb
  /\ conn = Free
  /\ pc = [r \in Requests |-> "idle"]
  /\ op = [r \in Requests |-> NoOp]
  /\ held = [r \in Requests |-> NoRow]
  /\ before = [r \in Requests |-> NoRow]
  /\ ended = {}

Goto(r, where) == pc' = [pc EXCEPT ![r] = where]

\* What the handler hands to the store before it has read anything.
Drafts(o) == IF o.kind = "create" THEN NewRows(o.body) ELSE {NoRow}

\* A request arrives.  Only updates read the row before the store is called.
Arrive(r) ==
  /\ pc[r] = "idle"
  /\ \E o \in Ops : \E row \in Drafts(o) :
       /\ op' = [op EXCEPT ![r] = o]
       /\ held' = [held EXCEPT ![r] = row]
       /\ Goto(r, CASE o.kind = "read" -> "read"
                    [] o.kind = "update" -> "load"
                    [] o.kind \in {"create", "delete"} -> "begin")
  /\ UNCHANGED <<db, scratch, conn, before, ended>>

\* A statement through the pool takes the connection and gives it back.
Read(r) ==
  /\ pc[r] = "read"
  /\ conn = Free
  /\ r \notin ended
  /\ Goto(r, "ok")
  /\ UNCHANGED <<db, scratch, conn, op, held, before, ended>>

\* GetX in handleUpdateX; 404 when there is no such row.  (GetRule reads the links
\* in a second statement, and nothing that commits changes them in between.)
Load(r) ==
  /\ pc[r] = "load"
  /\ conn = Free
  /\ r \notin ended
  /\ IF op[r].id \in IdsOf(db, op[r].table)
     THEN /\ held' = [held EXCEPT ![r] = Merged(RowOf(db, op[r].table, op[r].id), op[r].body)]
          /\ Goto(r, "begin")
     ELSE /\ Goto(r, "rejected")
          /\ UNCHANGED held
  /\ UNCHANGED <<db, scratch, conn, op, before, ended>>

\* BeginTx: from here to the end of the transaction the connection is r's.
Begin(r) ==
  /\ pc[r] = "begin"
  /\ conn = Free
  /\ r \notin ended
  /\ conn' = r
  /\ scratch' = db
  /\ Goto(r, IF op[r].kind = "create" THEN "apply" ELSE "snapshot")
  /\ UNCHANGED <<db, op, held, before, ended>>

\* UpdateX and DeleteX ask the pool, not the transaction, for the row as it was:
\* the call returns when the connection is back in the pool or the context has
\* ended, and in the latter case without the row.  Its error is dropped.
Snapshot(r) ==
  /\ pc[r] = "snapshot"
  /\ conn = Free \/ r \in ended
  /\ before' = [before EXCEPT ![r] =
                  IF r \in ended THEN NoRow ELSE RowOf(db, op[r].table, op[r].id)]
  /\ Goto(r, "apply")
  /\ UNCHANGED <<db, scratch, conn, op, held, ended>>

\* What the constraints say to the statement on the row.
Acceptable(r) ==
  LET o == op[r] IN
  CASE o.kind = "create" -> AcceptsRow(scratch, o.table, 0, held[r])
    [] o.kind = "update" ->
         o.id \in IdsOf(scratch, o.table) => AcceptsRow(scratch, o.table, o.id, held[r])
    [] o.kind = "delete" -> Releases(scratch, o.table, o.id)

\* The statement on the row.  It has no context: it is executed even after the
\* end of the request's, as long as nobody has rolled back.
Apply(r) ==
  LET o == op[r] IN
  /\ pc[r] = "apply"
  /\ conn = r
  /\ Acceptable(r)
  /\ scratch' = CASE o.kind = "create" -> Inserted(scratch, o.table, held[r])
                  [] o.kind = "update" -> Updated(scratch, o.table, o.id, held[r])
                  [] o.kind = "delete" -> Deleted(scratch, o.table, o.id)
  /\ Goto(r, IF o.table = "rule" /\ o.kind # "delete" THEN "links" ELSE "log")
  /\ UNCHANGED <<db, conn, op, held, before, ended>>

\* The connection goes back to the pool, what was written with it is gone.
RollBack == conn' = Free /\ scratch' = db

\* A constraint ends the transaction with an error, and tx rolls back.
ApplyRefused(r) ==
  /\ pc[r] = "apply"
  /\ conn = r
  /\ ~Acceptable(r)
  /\ RollBack
  /\ Goto(r, "rejected")
  /\ UNCHANGED <<db, op, held, before, ended>>

\* The row that the transaction of r is about.
IdOf(r) == IF op[r].kind = "create" THEN scratch.seq[op[r].table] ELSE op[r].id

\* persistTargets writes the links under the request's context.
LinkFails(r) == r \in ended \/ ~AcceptsLinks(scratch, IdOf(r), LinksOf(held[r]))

Link(r) ==
  /\ pc[r] = "links"
  /\ conn = r
  /\ ~LinkFails(r)
  /\ scratch' = Linked(scratch, IdOf(r), LinksOf(held[r]))
  /\ Goto(r, "log")
  /\ UNCHANGED <<db, conn, op, held, before, ended>>

LinkRefused(r) ==
  /\ pc[r] = "links"
  /\ conn = r
  /\ LinkFails(r)
  /\ RollBack
  /\ Goto(r, IF r \in ended THEN "failed" ELSE "rejected")
  /\ UNCHANGED <<db, op, held, before, ended>>

\* logChange.
Log(r) ==
  /\ pc[r] = "log"
  /\ conn = r
  /\ scratch' = Logged(scratch, Entry(op[r].table, IdOf(r), op[r].kind, before[r], held[r]))
  /\ Goto(r, "commit")
  /\ UNCHANGED <<db, conn, op, held, before, ended>>

\* A statement in a transaction that is no more.
TooLate(r) ==
  /\ pc[r] \in {"apply", "links", "log"}
  /\ conn # r
  /\ Goto(r, "failed")
  /\ UNCHANGED <<db, scratch, conn, op, held, before, ended>>

\* Commit fails when the context has ended, even if nobody has rolled back yet.
Commits(r) == conn = r /\ r \notin ended

Commit(r) ==
  /\ pc[r] = "commit"
  /\ IF Commits(r)
     THEN /\ db' = scratch
          /\ conn' = Free
          /\ Goto(r, "ok")
     ELSE /\ Goto(r, "failed")
          /\ UNCHANGED <<db, conn>>
  /\ UNCHANGED <<scratch, op, held, before, ended>>

Waiting(r) ==
  /\ pc[r] \in {"read", "load", "begin", "snapshot"}
  /\ conn # Free

\* The 30 s are over, or the client has gone.
End(r) ==
  /\ r \notin ended
  /\ pc[r] \notin {"idle", "ok", "rejected", "failed"}
  /\ Waiting(r) \/ r \in Disconnects
  /\ ended' = ended \cup {r}
  /\ UNCHANGED <<db, scratch, conn, pc, op, held, before>>

\* A call that finds its context ended before it has a connection.
GiveUp(r) ==
  /\ pc[r] \in {"read", "load", "begin"}
  /\ r \in ended
  /\ Goto(r, "failed")
  /\ UNCHANGED <<db, scratch, conn, op, held, before, ended>>

\* database/sql rolls a transaction back when its context ends.
Abandoned(r) == conn = r /\ r \in ended

Rollback(r) ==
  /\ Abandoned(r)
  /\ RollBack
  /\ UNCHANGED <<db, pc, op, held, before, ended>>

-----------------------------------------------------------------------------
Step(r) ==
  \/ Read(r) \/ Load(r) \/ Begin(r) \/ Snapshot(r)
  \/ Apply(r) \/ ApplyRefused(r) \/ Link(r) \/ LinkRefused(r) \/ Log(r) \/ TooLate(r)
  \/ Commit(r) \/ GiveUp(r)

Next == \E r \in Requests : Arrive(r) \/ Step(r) \/ End(r) \/ Rollback(r)

Spec == Init /\ [][Next]_vars

\* Handlers run, contexts of waiting requests end after 30 s, and database/sql
\* watches the context of a transaction.
Fairness ==
  \A r \in Requests :
    WF_vars(Step(r)) /\ WF_vars(Waiting(r) /\ End(r)) /\ WF_vars(Rollback(r))

FairSpec == Spec /\ Fairness

-----------------------------------------------------------------------------
\* Properties.

Committed(r) == pc[r] = "ok" /\ op[r].kind # "read"
Returned(r) == pc[r] \in {"ok", "rejected", "failed"}
SameRow(e, f) == e.table = f.table /\ e.id = f.id

\* Entry i of the log is the last one before position n for its row.
LastBefore(i, n) ==
  \A j \in DOMAIN db.log : i < j /\ j < n => ~SameRow(db.log[i], db.log[j])

\* Every variable has its type; no id is ahead of its counter and no row is
\* without its name.
TypeOK ==
  /\ \A d \in {db, scratch} : \A t \in Tables :
       /\ d.seq[t] \in Nat
       /\ \A i \in IdsOf(d, t) :
            /\ i \in 1 .. d.seq[t]
            /\ d.rows[t][i].name \in Names
  /\ conn \in Requests \cup {Free}
  /\ pc \in [Requests -> {"idle", "read", "load", "begin", "snapshot", "apply", "links",
                         "log", "commit", "ok", "rejected", "failed"}]
  /\ op \in [Requests -> Ops \cup {NoOp}]
  /\ ended \subseteq Requests

\* The change log is the history of the tables: each entry starts from what the
\* previous one for its row ended with, and the last one is the row.
LogIsHistory ==
  /\ \A i \in DOMAIN db.log :
       \/ /\ db.log[i].before = NoRow
          /\ \A j \in 1 .. i - 1 : ~SameRow(db.log[i], db.log[j])
       \/ \E j \in 1 .. i - 1 :
            /\ SameRow(db.log[i], db.log[j])
            /\ LastBefore(j, i)
            /\ db.log[i].before = db.log[j].after
  /\ \A t \in Tables : \A id \in IdsOf(db, t) :
       \E i \in DOMAIN db.log :
         /\ db.log[i].table = t /\ db.log[i].id = id
         /\ LastBefore(i, Len(db.log) + 1)
         /\ db.log[i].after = db.rows[t][id]

\* The answer to the client and the log agree: a write reported as done has left
\* one entry, one that was refused or abandoned none.
AnswersMatchLog ==
  Len(db.log) = Cardinality({r \in Requests : Committed(r)})

\* Whatever fails half way, a rule in the table has targets to route to, and all
\* it refers to exists.
RulesWhole ==
  \A i \in IdsOf(db, "rule") :
    LET rule == db.rows["rule"][i] IN
    /\ rule.links # {}
    /\ AcceptsRow(db, "rule", i, rule)
    /\ AcceptsLinks(db, i, rule.links)

\* Every request is answered, though an update waits for the very connection it
\* holds: the timeout of the middleware ends it.
RequestsReturn == \A r \in Requests : pc[r] # "idle" ~> Returned(r)

\* The connection always comes back to the pool.
ConnectionReturns == []<>(conn = Free)

-----------------------------------------------------------------------------
\* What the documents say and the code does not do (the violation runs).

\* PROJECT_SPEC.md:53, updates and deletes leave their record; so they succeed
\* when they are acceptable and no client goes away.
WritesTakeEffect ==
  \A r \in Requests : op[r].kind \in {"update", "delete"} => pc[r] # "failed"
=============================================================================
