------------------------- MODULE ConfigStoreProofs -------------------------
(***************************************************************************)
(* What the tables, the change log and the answers say of one another, for *)
(* every set of requests, operations, names and ids, and wherever contexts *)
(* end.  The argument turns on what the wait for the own connection does   *)
(* to updates and deletes: a transaction that gets past it has lost its    *)
(* context, so only creates ever commit.                                   *)
(***************************************************************************)
EXTENDS ConfigStore, FiniteSetTheorems, TLAPS

Entries == [table : Tables, id : Nat, action : {"create", "update", "delete"},
            before : Row, after : Row]

\* The parts of a database d.

\* Types; no id is ahead of its counter and no row is without its name.
Typed(d) ==
  /\ d = [rows |-> d.rows, seq |-> d.seq, log |-> d.log]
  /\ d.rows = [t \in Tables |-> d.rows[t]]
  /\ d.seq \in [Tables -> Nat]
  /\ d.log \in Seq(Entries)
  /\ \A t \in Tables : \A i \in IdsOf(d, t) :
       i \in 1 .. d.seq[t] /\ d.rows[t][i] \in Row /\ d.rows[t][i].name \in Names

\* The log has one entry per row that was ever made: that of its creation.
Chronicled(d) ==
  /\ \A i \in DOMAIN d.log : d.log[i].before = NoRow /\ d.log[i].id <= d.seq[d.log[i].table]
  /\ \A i, j \in DOMAIN d.log : SameRow(d.log[i], d.log[j]) => i = j
  /\ \A t \in Tables : \A id \in IdsOf(d, t) :
       \E i \in DOMAIN d.log :
         d.log[i].table = t /\ d.log[i].id = id /\ d.log[i].after = d.rows[t][id]

\* Every rule has targets, and what it refers to exists.
RuleWhole(d, row) == row.links # {} /\ row.links \subseteq IdsOf(d, "target") /\ AcceptsRow(d, "rule", 0, row)
Whole(d) == \A i \in IdsOf(d, "rule") : RuleWhole(d, d.rows["rule"][i])

Sound(d) == Typed(d) /\ Chronicled(d) /\ Whole(d)

-----------------------------------------------------------------------------
\* What the operations make of a database.

\* A new row with its links, and a create as a whole: the row, its links, the entry.
Full(d, table, row) ==
  LET id == d.seq[table] + 1 IN [Put(d, table, id, row) EXCEPT !.seq[table] = id]

Created(d, table, row) ==
  Logged(Full(d, table, row), Entry(table, d.seq[table] + 1, "create", NoRow, row))

\* Putting a row changes the row of that id in that table.
LEMMA PutRow ==
  ASSUME NEW d, Typed(d), NEW table \in Tables, NEW id, NEW row
  PROVE  LET p == Put(d, table, id, row) IN
         /\ p = [rows |-> p.rows, seq |-> d.seq, log |-> d.log]
         /\ p.rows = [t \in Tables |-> p.rows[t]]
         /\ IdsOf(p, table) = IdsOf(d, table) \cup {id}
         /\ \A t \in Tables \ {table} : p.rows[t] = d.rows[t]
         /\ p.rows[table][id] = row
         /\ \A i \in IdsOf(d, table) \ {id} : p.rows[table][i] = d.rows[table][i]
<1> DEFINE f == [i \in DOMAIN d.rows[table] \cup {id} |-> IF i = id THEN row ELSE d.rows[table][i]]
           rows == [d.rows EXCEPT ![table] = f]
<1>1. Put(d, table, id, row) = [rows |-> rows, seq |-> d.seq, log |-> d.log]
  <2>1. d = [rows |-> d.rows, seq |-> d.seq, log |-> d.log] /\ d.rows = [t \in Tables |-> d.rows[t]]
    BY DEF Typed
  <2>2. Put(d, table, id, row) = [d EXCEPT !.rows = rows]
    BY <2>1, Zenon DEF Put
  <2> HIDE DEF rows
  <2> QED BY <2>1, <2>2
<1>2. rows = [t \in Tables |-> rows[t]] /\ rows[table] = f /\ \A t \in Tables \ {table} : rows[t] = d.rows[t]
  BY DEF Typed
<1> HIDE DEF rows
<1> QED BY <1>1, <1>2 DEF IdsOf

\* A log entry goes to the end of the log and changes nothing else.
LEMMA LoggedEntry ==
  ASSUME NEW rows, NEW seq, NEW log \in Seq(Entries), NEW e \in Entries
  PROVE  LET l == Logged([rows |-> rows, seq |-> seq, log |-> log], e) IN
         /\ l = [rows |-> rows, seq |-> seq, log |-> l.log]
         /\ l.log \in Seq(Entries) /\ Len(l.log) = Len(log) + 1
         /\ DOMAIN l.log = DOMAIN log \cup {Len(log) + 1}
         /\ l.log[Len(log) + 1] = e
         /\ \A i \in DOMAIN log : l.log[i] = log[i]
<1>1. Logged([rows |-> rows, seq |-> seq, log |-> log], e) = [rows |-> rows, seq |-> seq, log |-> Append(log, e)]
  BY DEF Logged
<1>2. /\ Append(log, e) \in Seq(Entries) /\ Len(Append(log, e)) = Len(log) + 1
      /\ DOMAIN Append(log, e) = DOMAIN log \cup {Len(log) + 1}
      /\ Append(log, e)[Len(log) + 1] = e
      /\ \A i \in DOMAIN log : Append(log, e)[i] = log[i]
  OBVIOUS
<1> QED BY <1>1, <1>2

\* An absent row is a row.
LEMMA NoRowIsRow == NoRow \in Row
BY DEF NoRow, Row

\* A create takes the next id, and keeps a sound database sound.
LEMMA CreatedSound ==
  ASSUME NEW d, Sound(d), NEW table \in Tables, NEW row \in Row, row.name \in Names,
         table = "rule" => RuleWhole(d, row)
  PROVE  Sound(Created(d, table, row)) /\ Len(Created(d, table, row).log) = Len(d.log) + 1
<1> DEFINE id == d.seq[table] + 1
           p == Put(d, table, id, row)
           seq == [d.seq EXCEPT ![table] = id]
           e == Entry(table, id, "create", NoRow, row)
           c == Created(d, table, row)
           n == Len(d.log) + 1
<1>1. d.seq \in [Tables -> Nat] /\ d.log \in Seq(Entries) /\ id \in Nat /\ Typed(d)
  BY DEF Sound, Typed
<1>2. e \in Entries /\ e.table = table /\ e.id = id /\ e.before = NoRow /\ e.after = row
  BY <1>1, NoRowIsRow DEF Entry, Entries
<1>3. /\ p = [rows |-> p.rows, seq |-> d.seq, log |-> d.log]
      /\ p.rows = [t \in Tables |-> p.rows[t]]
      /\ IdsOf(p, table) = IdsOf(d, table) \cup {id}
      /\ \A t \in Tables \ {table} : p.rows[t] = d.rows[t]
      /\ p.rows[table][id] = row
      /\ \A i \in IdsOf(d, table) \ {id} : p.rows[table][i] = d.rows[table][i]
  BY <1>1, PutRow
<1> HIDE DEF p, e, n
<1>4. c = Logged([rows |-> p.rows, seq |-> seq, log |-> d.log], e)
  <2>1. c = Logged([p EXCEPT !.seq[table] = id], e)
    BY DEF Created, Full, p, e
  <2>2. [p EXCEPT !.seq[table] = id] = [rows |-> p.rows, seq |-> seq, log |-> d.log]
    BY <1>3
  <2> QED BY <2>1, <2>2
<1> HIDE DEF c, seq
<1>5. /\ c = [rows |-> p.rows, seq |-> seq, log |-> c.log]
      /\ c.log \in Seq(Entries) /\ Len(c.log) = n
      /\ DOMAIN c.log = DOMAIN d.log \cup {n}
      /\ c.log[n] = e
      /\ \A i \in DOMAIN d.log : c.log[i] = d.log[i]
  BY <1>1, <1>2, <1>4, LoggedEntry DEF n
<1>6. seq \in [Tables -> Nat] /\ seq[table] = id /\ \A t \in Tables \ {table} : seq[t] = d.seq[t]
  BY <1>1 DEF seq
<1>7. c.rows = p.rows /\ c.seq = seq /\ n \notin DOMAIN d.log
  BY <1>1, <1>5 DEF n
<1>8. \A i \in IdsOf(d, table) : i \in 1 .. d.seq[table] /\ i # id
  BY <1>1 DEF Typed
<1> HIDE DEF id
<1>9. /\ IdsOf(c, table) = IdsOf(d, table) \cup {id}
      /\ \A t \in Tables \ {table} : IdsOf(c, t) = IdsOf(d, t)
      /\ c.rows[table][id] = row
      /\ \A t \in Tables : \A i \in IdsOf(d, t) : i \in IdsOf(c, t) /\ c.rows[t][i] = d.rows[t][i]
  BY <1>3, <1>7, <1>8 DEF IdsOf
<1>10. Typed(c)
  <2>1. ASSUME NEW t \in Tables, NEW i \in IdsOf(c, t)
        PROVE  i \in 1 .. seq[t] /\ c.rows[t][i] \in Row /\ c.rows[t][i].name \in Names
    <3>1. CASE i \in IdsOf(d, t)
      <4>1. i \in 1 .. d.seq[t] /\ d.rows[t][i] \in Row /\ d.rows[t][i].name \in Names
        BY <1>1, <3>1 DEF Typed
      <4>2. d.seq[t] <= seq[t] /\ d.seq[t] \in Nat /\ seq[t] \in Nat
        BY <1>1, <1>6 DEF id
      <4> QED BY <1>9, <3>1, <4>1, <4>2
    <3>2. CASE i \notin IdsOf(d, t)
      <4>1. t = table /\ i = id
        BY <1>9, <2>1, <3>2
      <4>2. id \in 1 .. id
        BY <1>1 DEF id
      <4> QED BY <1>6, <1>9, <4>1, <4>2
    <3> QED BY <3>1, <3>2
  <2> QED BY <1>3, <1>5, <1>6, <1>7, <2>1 DEF Typed
<1>11. Chronicled(c)
  <2>1. \A i \in DOMAIN d.log : /\ d.log[i] \in Entries
                                /\ d.log[i].before = NoRow
                                /\ d.log[i].id <= d.seq[d.log[i].table]
    BY <1>1 DEF Sound, Chronicled
  <2>2. ASSUME NEW i \in DOMAIN c.log
        PROVE  c.log[i].before = NoRow /\ c.log[i].id <= c.seq[c.log[i].table]
    <3>1. CASE i = n
      BY <1>1, <1>2, <1>5, <1>6, <1>7, <3>1
    <3>2. CASE i # n
      <4>1. i \in DOMAIN d.log /\ c.log[i] = d.log[i]
        BY <1>5, <2>2, <3>2
      <4> DEFINE x == d.log[i]
      <4>2. x.table \in Tables /\ x.id \in Nat /\ x.before = NoRow /\ x.id <= d.seq[x.table]
        BY <2>1, <4>1 DEF Entries
      <4>3. d.seq[x.table] <= seq[x.table] /\ d.seq[x.table] \in Nat /\ seq[x.table] \in Nat
        BY <1>1, <1>6, <4>2 DEF id
      <4> HIDE DEF x
      <4>4. x.id <= seq[x.table]
        BY <4>2, <4>3
      <4> QED BY <1>7, <4>1, <4>2, <4>4 DEF x
    <3> QED BY <3>1, <3>2
  <2>3. \A i \in DOMAIN d.log : ~(d.log[i].table = table /\ d.log[i].id = id)
    <3>1. id = d.seq[table] + 1 /\ d.seq[table] \in Nat
      BY <1>1 DEF id
    <3> QED BY <2>1, <3>1
  <2>4. \A i, j \in DOMAIN c.log : SameRow(c.log[i], c.log[j]) => i = j
    BY <1>2, <1>5, <1>7, <2>3 DEF SameRow, Sound, Chronicled
  <2>5. ASSUME NEW t \in Tables, NEW k \in IdsOf(c, t)
        PROVE  \E i \in DOMAIN c.log : c.log[i].table = t /\ c.log[i].id = k /\ c.log[i].after = c.rows[t][k]
    <3>1. CASE k \in IdsOf(d, t)
      <4>1. PICK i \in DOMAIN d.log : d.log[i].table = t /\ d.log[i].id = k /\ d.log[i].after = d.rows[t][k]
        BY <3>1 DEF Sound, Chronicled
      <4> QED BY <1>5, <1>9, <3>1, <4>1
    <3>2. CASE k \notin IdsOf(d, t)
      BY <1>2, <1>5, <1>9, <2>5, <3>2
    <3> QED BY <3>1, <3>2
  <2> QED BY <2>2, <2>4, <2>5 DEF Chronicled
<1>12. Whole(c)
  <2>1. \A t \in Tables : IdsOf(d, t) \subseteq IdsOf(c, t)
    BY <1>9
  <2>2. ASSUME NEW i \in IdsOf(c, "rule")
        PROVE  RuleWhole(c, c.rows["rule"][i])
    <3>1. "rule" \in Tables /\ "target" \in Tables /\ "source" \in Tables
      BY DEF Tables
    <3>2. CASE i \in IdsOf(d, "rule")
      <4> DEFINE x == d.rows["rule"][i]
      <4>1. RuleWhole(d, x) /\ c.rows["rule"][i] = x
        BY <1>9, <3>1, <3>2 DEF Sound, Whole
      <4> HIDE DEF x
      <4> QED BY <2>1, <3>1, <4>1 DEF RuleWhole, AcceptsRow
    <3>3. CASE i \notin IdsOf(d, "rule")
      <4>1. table = "rule" /\ i = id /\ c.rows["rule"][i] = row
        BY <1>9, <2>2, <3>1, <3>3
      <4> QED BY <2>1, <3>1, <4>1 DEF RuleWhole, AcceptsRow
    <3> QED BY <3>2, <3>3
  <2> QED BY <2>2 DEF Whole
<1> QED BY <1>5, <1>10, <1>11, <1>12 DEF Sound, c, n

\* A row in the place of another, or a new one with the next id, keeps the types.
LEMMA PutTyped ==
  ASSUME NEW d, Typed(d), NEW table \in Tables, NEW id \in IdsOf(d, table),
         NEW row \in Row, row.name \in Names
  PROVE  Typed(Put(d, table, id, row))
<1> DEFINE p == Put(d, table, id, row)
<1>1. /\ p = [rows |-> p.rows, seq |-> d.seq, log |-> d.log]
      /\ p.rows = [t \in Tables |-> p.rows[t]]
      /\ IdsOf(p, table) = IdsOf(d, table) \cup {id}
      /\ \A t \in Tables \ {table} : p.rows[t] = d.rows[t]
      /\ p.rows[table][id] = row
      /\ \A i \in IdsOf(d, table) \ {id} : p.rows[table][i] = d.rows[table][i]
  BY PutRow
<1> HIDE DEF p
<1>2. p.seq = d.seq /\ p.log = d.log
  BY <1>1
<1>3. \A t \in Tables : /\ IdsOf(p, t) = IdsOf(d, t)
                        /\ \A i \in IdsOf(d, t) : p.rows[t][i] \in {d.rows[t][i], row}
  BY <1>1 DEF IdsOf
<1>4. Typed(p)
  BY <1>1, <1>2, <1>3 DEF Typed
<1> QED BY <1>4 DEF p

\* f is d with one more row.
OneMore(d, table, row, f) ==
  /\ f.seq[table] = d.seq[table] + 1
  /\ IdsOf(f, table) = IdsOf(d, table) \cup {d.seq[table] + 1}
  /\ \A t \in Tables \ {table} : f.rows[t] = d.rows[t]
  /\ f.rows[table][d.seq[table] + 1] = row

LEMMA FullTyped ==
  ASSUME NEW d, Typed(d), NEW table \in Tables, NEW row \in Row, row.name \in Names
  PROVE  Typed(Full(d, table, row)) /\ OneMore(d, table, row, Full(d, table, row))
<1> DEFINE id == d.seq[table] + 1
           p == Put(d, table, id, row)
           f == Full(d, table, row)
           seq == [d.seq EXCEPT ![table] = id]
<1>1. /\ p = [rows |-> p.rows, seq |-> d.seq, log |-> d.log]
      /\ p.rows = [t \in Tables |-> p.rows[t]]
      /\ IdsOf(p, table) = IdsOf(d, table) \cup {id}
      /\ \A t \in Tables \ {table} : p.rows[t] = d.rows[t]
      /\ p.rows[table][id] = row
      /\ \A i \in IdsOf(d, table) \ {id} : p.rows[table][i] = d.rows[table][i]
  BY PutRow
<1> HIDE DEF p
<1>2. f = [rows |-> p.rows, seq |-> seq, log |-> d.log]
  <2>1. f = [p EXCEPT !.seq[table] = id]
    BY DEF Full, p
  <2> QED BY <1>1, <2>1
<1> HIDE DEF f
<1>3. d.seq \in [Tables -> Nat] /\ d.log \in Seq(Entries) /\ id \in Nat
  BY DEF Typed
<1>4. seq \in [Tables -> Nat] /\ seq[table] = id /\ \A t \in Tables : d.seq[t] <= seq[t]
  BY <1>3
<1> HIDE DEF seq
<1>5. f.rows = p.rows /\ f.seq = seq /\ f.log = d.log
  BY <1>2
<1>6. ASSUME NEW t \in Tables, NEW i \in IdsOf(f, t)
      PROVE  i \in 1 .. f.seq[t] /\ f.rows[t][i] \in Row /\ f.rows[t][i].name \in Names
  <2>1. CASE t = table /\ i = id
    <3>1. id \in 1 .. id
      BY <1>3
    <3> QED BY <1>1, <1>4, <1>5, <2>1, <3>1
  <2>2. CASE ~(t = table /\ i = id)
    <3>1. i \in IdsOf(d, t) /\ f.rows[t][i] = d.rows[t][i]
      BY <1>1, <1>5, <1>6, <2>2 DEF IdsOf
    <3>2. i \in 1 .. d.seq[t] /\ d.seq[t] \in Nat /\ seq[t] \in Nat /\ d.seq[t] <= seq[t]
      BY <1>3, <1>4, <3>1 DEF Typed
    <3>3. i \in 1 .. seq[t]
      BY <3>2
    <3> QED BY <1>5, <3>1, <3>3 DEF Typed
  <2> QED BY <2>1, <2>2
<1>7. Typed(f)
  BY <1>1, <1>2, <1>3, <1>4, <1>5, <1>6 DEF Typed
<1>8. IdsOf(f, table) = IdsOf(d, table) \cup {id} /\ \A t \in Tables \ {table} : f.rows[t] = d.rows[t]
  BY <1>1, <1>5 DEF IdsOf
<1>9. OneMore(d, table, row, f)
  BY <1>1, <1>4, <1>5, <1>8 DEF OneMore
<1> QED BY <1>7, <1>9 DEF f

\* A row with other links is a row.
LEMMA RelinkedRow ==
  ASSUME NEW row \in Row, NEW links \in SUBSET Ids
  PROVE  /\ [row EXCEPT !.links = links] \in Row
         /\ [row EXCEPT !.links = links].name = row.name
         /\ \A old \in SUBSET Ids : [[row EXCEPT !.links = old] EXCEPT !.links = row.links] = row
         /\ row.links = links => [row EXCEPT !.links = links] = row
BY DEF Row

\* A new row has no links yet.
LEMMA InsertedIsFull ==
  ASSUME NEW d, Typed(d), NEW table \in Tables, NEW row
  PROVE  Inserted(d, table, row) = Full(d, table, [row EXCEPT !.links = {}])
<1>1. d.seq[table] + 1 \notin IdsOf(d, table)
  <2>1. d.seq[table] \in Nat
    BY DEF Typed
  <2> QED BY <2>1 DEF Typed
<1>2. RowOf(d, table, d.seq[table] + 1).links = {}
  BY <1>1 DEF RowOf, NoRow
<1> QED BY <1>2 DEF Inserted, Written, Full

\* With the links of the row it is the row.
LEMMA LinkedIsFull ==
  ASSUME NEW d, Typed(d), NEW row \in Row, row.name \in Names, row.links \subseteq IdsOf(d, "target")
  PROVE  LET bare == [row EXCEPT !.links = {}] IN
         Linked(Full(d, "rule", bare), d.seq["rule"] + 1, row.links) = Full(d, "rule", row)
<1> DEFINE bare == [row EXCEPT !.links = {}]
           id == d.seq["rule"] + 1
           b == Full(d, "rule", bare)
           f == Full(d, "rule", row)
           l == Linked(b, id, row.links)
           p == Put(d, "rule", id, bare)
           q == Put(d, "rule", id, row)
           seq == [d.seq EXCEPT !["rule"] = id]
<1>1. "rule" \in Tables /\ "target" \in Tables /\ bare \in Row /\ bare.name \in Names
  BY RelinkedRow DEF Tables
<1>2. IdsOf(b, "rule") = IdsOf(d, "rule") \cup {id} /\ b.rows["target"] = d.rows["target"] /\ b.rows["rule"][id] = bare
  <2> HIDE DEF bare
  <2>1. OneMore(d, "rule", bare, b)
    BY <1>1, FullTyped
  <2> HIDE DEF b
  <2>2. "rule" # "target"
    OBVIOUS
  <2> QED BY <1>1, <2>1, <2>2 DEF OneMore
<1>3. RowOf(b, "rule", id) = bare /\ row.links \cap IdsOf(b, "target") = row.links
  BY <1>2 DEF RowOf, IdsOf
<1>4. [bare EXCEPT !.links = row.links] = row
  BY RelinkedRow
<1>5. l = Put(b, "rule", id, row)
  <2> HIDE DEF b, bare, id
  <2> QED BY <1>2, <1>3, <1>4 DEF Linked
<1>6. d = [rows |-> d.rows, seq |-> d.seq, log |-> d.log] /\ d.rows = [t \in Tables |-> d.rows[t]]
  BY DEF Typed
<1> DEFINE g == [i \in IdsOf(d, "rule") \cup {id} |-> IF i = id THEN bare ELSE d.rows["rule"][i]]
           h == [i \in IdsOf(d, "rule") \cup {id} |-> IF i = id THEN row ELSE d.rows["rule"][i]]
<1>7. b = [rows |-> [d.rows EXCEPT !["rule"] = g], seq |-> seq, log |-> d.log]
  <2>1. p = [d EXCEPT !.rows["rule"] = g]
    BY Zenon DEF Put, IdsOf
  <2>2. p = [rows |-> [d.rows EXCEPT !["rule"] = g], seq |-> d.seq, log |-> d.log]
    <3> HIDE DEF g, p
    <3> QED BY <1>6, <2>1
  <2> HIDE DEF p
  <2>3. b = [p EXCEPT !.seq["rule"] = id]
    BY DEF Full, p
  <2> HIDE DEF g, b
  <2> QED BY <2>2, <2>3
<1>8. f = [rows |-> [d.rows EXCEPT !["rule"] = h], seq |-> seq, log |-> d.log]
  <2>1. q = [d EXCEPT !.rows["rule"] = h]
    BY Zenon DEF Put, IdsOf
  <2>2. q = [rows |-> [d.rows EXCEPT !["rule"] = h], seq |-> d.seq, log |-> d.log]
    <3> HIDE DEF h, q
    <3> QED BY <1>6, <2>1
  <2> HIDE DEF q
  <2>3. f = [q EXCEPT !.seq["rule"] = id]
    BY DEF Full, q
  <2> HIDE DEF h, f
  <2> QED BY <2>2, <2>3
<1>9. Put(b, "rule", id, row) = [b EXCEPT !.rows["rule"] = h]
  <2>1. b.rows["rule"] = g
    <3> HIDE DEF b, g
    <3> QED BY <1>1, <1>6, <1>7
  <2>2. [i \in DOMAIN b.rows["rule"] \cup {id} |-> IF i = id THEN row ELSE b.rows["rule"][i]] = h
    <3> HIDE DEF b
    <3> QED BY <2>1
  <2> HIDE DEF b, h
  <2> QED BY <2>2, Zenon DEF Put
<1>10. [b EXCEPT !.rows["rule"] = h] = f
  <2> HIDE DEF b, f, g, h, seq
  <2> QED BY <1>1, <1>6, <1>7, <1>8
<1> QED BY <1>5, <1>9, <1>10

\* An UPDATE keeps the types.
LEMMA UpdatedTyped ==
  ASSUME NEW d, Typed(d), NEW table \in Tables, NEW id, NEW row \in Row, row.name \in Names
  PROVE  Typed(Updated(d, table, id, row))
<1>1. CASE id \in IdsOf(d, table)
  <2>1. RowOf(d, table, id) \in Row
    BY <1>1 DEF RowOf, Typed
  <2>2. RowOf(d, table, id).links \in SUBSET Ids
    BY <2>1 DEF Row
  <2>3. Typed(Put(d, table, id, [row EXCEPT !.links = RowOf(d, table, id).links]))
    BY <1>1, <2>2, RelinkedRow, PutTyped
  <2> QED BY <1>1, <2>3 DEF Updated, Written
<1> QED BY <1>1 DEF Updated

\* And so does a delete.
LEMMA DeletedTyped ==
  ASSUME NEW d, Typed(d), NEW table \in Tables, NEW id
  PROVE  Typed(Deleted(d, table, id))
<1> DEFINE f == [i \in DOMAIN d.rows[table] \ {id} |-> d.rows[table][i]]
           rows == [d.rows EXCEPT ![table] = f]
           u == Deleted(d, table, id)
<1>1. d = [rows |-> d.rows, seq |-> d.seq, log |-> d.log] /\ d.rows = [t \in Tables |-> d.rows[t]]
  BY DEF Typed
<1>2. rows = [t \in Tables |-> rows[t]] /\ rows[table] = f /\ \A t \in Tables \ {table} : rows[t] = d.rows[t]
  BY <1>1
<1>3. u = [rows |-> rows, seq |-> d.seq, log |-> d.log]
  <2>1. u = [d EXCEPT !.rows = rows]
    BY Zenon DEF Deleted
  <2> HIDE DEF rows, u
  <2> QED BY <1>1, <2>1
<1> HIDE DEF rows, u
<1>4. u.rows = rows /\ u.seq = d.seq /\ u.log = d.log
  BY <1>3
<1>5. \A t \in Tables : \A i \in IdsOf(u, t) : i \in IdsOf(d, t) /\ u.rows[t][i] = d.rows[t][i]
  BY <1>2, <1>4 DEF IdsOf
<1>6. Typed(u)
  BY <1>2, <1>3, <1>4, <1>5 DEF Typed
<1> QED BY <1>6 DEF u

\* And a log entry.
LEMMA LoggedTyped ==
  ASSUME NEW d, Typed(d), NEW e \in Entries
  PROVE  Typed(Logged(d, e))
<1> DEFINE l == Logged(d, e)
<1>1. d = [rows |-> d.rows, seq |-> d.seq, log |-> d.log] /\ d.log \in Seq(Entries)
  BY DEF Typed
<1>2. l = [rows |-> d.rows, seq |-> d.seq, log |-> l.log] /\ l.log \in Seq(Entries)
  <2>1. l = Logged([rows |-> d.rows, seq |-> d.seq, log |-> d.log], e)
    BY <1>1
  <2> HIDE DEF l
  <2> QED BY <1>1, <2>1, LoggedEntry
<1> HIDE DEF l
<1>3. l.rows = d.rows /\ l.seq = d.seq
  BY <1>2
<1>4. Typed(l)
  BY <1>2, <1>3 DEF Typed, IdsOf
<1> QED BY <1>4 DEF l

\* Nothing is in the tables.
LEMMA EmptySound == Sound(EmptyDb)
<1>1. \A t \in Tables : IdsOf(EmptyDb, t) = {}
  BY DEF EmptyDb, IdsOf
<1>2. "rule" \in Tables /\ EmptyDb.log = <<>> /\ EmptyDb.seq \in [Tables -> Nat]
  BY DEF Tables, EmptyDb
<1>3. Typed(EmptyDb)
  BY <1>1, <1>2 DEF Typed, EmptyDb
<1> QED BY <1>1, <1>2, <1>3 DEF Sound, Chronicled, Whole

-----------------------------------------------------------------------------
\* What a create and an update make of rows.

\* The rows that a create may mean; those of rules have targets.
LEMMA NewRowType ==
  ASSUME NEW o \in Ops, o.kind = "create", NEW row \in NewRows(o.body)
  PROVE  /\ row \in Row /\ row.name \in Names /\ LinksOf(row) = row.links
         /\ IF o.table = "rule" THEN row.links # {} ELSE row.links = {}
<1> DEFINE b == o.body
<1>1. WellFormed(o)
  BY ConfigAssumption
<1>2. b \in Row /\ b.name # NoName /\ (o.table = "rule" => b.target # 0 \/ b.links # {})
  BY <1>1 DEF WellFormed
<1>3. b.name \in Names /\ b.target \in Ids \cup {0} /\ b.links \subseteq Ids
  BY <1>2 DEF Row
<1> HIDE DEF b
<1>4. LinksOf(b) \subseteq Ids /\ (b.target # 0 \/ b.links # {} => LinksOf(b) # {})
  BY <1>3 DEF LinksOf
<1>5. Primaries(b) \subseteq Ids \cup {0}
  BY <1>3 DEF Primaries
<1>6. PICK t \in Primaries(b) : row = [b EXCEPT !.links = LinksOf(b), !.target = t]
  BY DEF NewRows, b
<1>7. row \in Row /\ row.name = b.name /\ row.links = LinksOf(b)
  BY <1>2, <1>4, <1>5, <1>6 DEF Row
<1>8. o.table # "rule" => row.links = {} /\ row.target = 0
  <2> SUFFICES ASSUME o.table # "rule" PROVE row.links = {} /\ row.target = 0
    OBVIOUS
  <2>1. b.links = {} /\ b.target = 0
    BY <1>1 DEF WellFormed, NoRow, b
  <2> QED BY <1>2, <1>6, <2>1 DEF LinksOf, Primaries, Row
<1>9. IF o.table = "rule" THEN row.links # {} ELSE row.links = {}
  BY <1>2, <1>4, <1>7, <1>8
<1>10. LinksOf(row) = row.links
  BY <1>8, <1>9 DEF LinksOf
<1> QED BY <1>2, <1>3, <1>7, <1>9, <1>10

\* What an update writes is a row with a name.
LEMMA MergedType ==
  ASSUME NEW row \in Row, row.name \in Names, NEW body \in Row
  PROVE  Merged(row, body) \in Row /\ Merged(row, body).name \in Names
<1>1. \A b \in Row : LinksOf(b) \subseteq Ids
  BY DEF LinksOf, Row
<1> QED BY <1>1 DEF Merged, Row

-----------------------------------------------------------------------------
\* The invariant.

Working == {"begin", "snapshot", "apply", "links", "log", "commit"}

Types ==
  /\ conn \in Requests \cup {Free}
  /\ pc \in [Requests -> {"idle", "read", "load", "ok", "rejected", "failed"} \cup Working]
  /\ op \in [Requests -> Ops \cup {NoOp}]
  /\ held \in [Requests -> Row] /\ before \in [Requests -> Row]
  /\ ended \subseteq Requests
  /\ Typed(scratch) /\ Sound(db)

\* What handler r is at work on.
TaskOf(r) ==
  /\ pc[r] \in Working => op[r] \in Ops /\ op[r].kind \in {"create", "update", "delete"}
  /\ pc[r] = "read" => op[r].kind = "read"
  /\ pc[r] = "load" => op[r] \in Ops /\ op[r].kind = "update"
  /\ pc[r] \in Working /\ op[r].kind = "update" => held[r].name \in Names
  /\ pc[r] \in Working /\ op[r].kind = "create" => held[r] \in NewRows(op[r].body) /\ before[r] = NoRow
  /\ pc[r] \in {"idle", "load", "begin"} => before[r] = NoRow
  /\ pc[r] = "links" => op[r].table = "rule"
  /\ pc[r] = "snapshot" => op[r].kind # "create"
  /\ pc[r] = "ok" => op[r].kind \in {"create", "read"}

\* The transaction of r: before the statements nothing has changed; past the
\* snapshot an update or delete has lost its context; a create has the row, then its
\* links, then all that it is to commit.
TransactionOf(r) ==
  conn = r =>
    /\ pc[r] \in {"snapshot", "apply"} => scratch = db
    /\ pc[r] \in {"apply", "links", "log", "commit"} /\ r \notin ended => op[r].kind = "create"
    /\ pc[r] = "links" /\ op[r].kind = "create" =>
         scratch = Full(db, "rule", [held[r] EXCEPT !.links = {}]) /\ AcceptsRow(db, "rule", 0, held[r])
    /\ pc[r] = "log" /\ op[r].kind = "create" =>
         /\ scratch = Full(db, op[r].table, held[r])
         /\ op[r].table = "rule" => RuleWhole(db, held[r])
    /\ pc[r] = "commit" /\ r \notin ended => Sound(scratch) /\ Len(scratch.log) = Len(db.log) + 1

Done == {r \in Requests : Committed(r)}

\* One entry per write that was reported as done.
Counted == IsFiniteSet(Done) /\ Len(db.log) = Cardinality(Done)

CInv ==
  /\ Types
  /\ \A r \in Requests : TaskOf(r) /\ TransactionOf(r)
  /\ Counted

\* Empty tables, no handler.
LEMMA ConfigInit == Init => CInv
<1> SUFFICES ASSUME Init PROVE CInv
  OBVIOUS
<1>1. Types
  BY EmptySound, NoRowIsRow DEF Init, Types, Sound
<1>2. \A r \in Requests : TaskOf(r) /\ TransactionOf(r)
  BY ConfigAssumption DEF Init, TaskOf, TransactionOf, Working
<1>3. Done = {} /\ Len(db.log) = 0
  BY DEF Init, Done, Committed, EmptyDb
<1>4. Counted
  BY <1>3, FS_EmptySet DEF Counted
<1> QED BY <1>1, <1>2, <1>4 DEF CInv

\* Another handler's step leaves r where it was, unless it takes the connection,
\* which r then does not have.
LEMMA OtherTasks ==
  ASSUME CInv, NEW r \in Requests, UNCHANGED <<pc[r], op[r], held[r], before[r]>>, ended \subseteq ended',
         conn' = r => conn = r /\ UNCHANGED <<db, scratch>>
  PROVE  TaskOf(r)' /\ TransactionOf(r)'
BY DEF CInv, TaskOf, TransactionOf

\* A step that reports no write as done leaves the count.
LEMMA CountKept ==
  ASSUME CInv, db' = db, \A r \in Requests : Committed(r)' <=> Committed(r)
  PROVE  Counted'
<1>1. Done' = Done
  BY DEF Done
<1> QED BY <1>1 DEF CInv, Counted

\* Every step keeps it: only a commit changes the tables, only a whole create gets
\* there, and the request then counts.
LEMMA ConfigStep == CInv /\ [Next]_vars => CInv'
<1> SUFFICES ASSUME CInv, [Next]_vars PROVE CInv'
  OBVIOUS
<1>0. Types /\ \A r \in Requests : TaskOf(r) /\ TransactionOf(r)
  BY DEF CInv
<1>f. Free \notin Requests
  BY ConfigAssumption
<1>1. ASSUME NEW r \in Requests, Arrive(r) PROVE CInv'
  <2>0. PICK o \in Ops :
          \E row \in Drafts(o) :
            /\ op' = [op EXCEPT ![r] = o] /\ held' = [held EXCEPT ![r] = row]
            /\ pc' = [pc EXCEPT ![r] = CASE o.kind = "read" -> "read"
                                         [] o.kind = "update" -> "load"
                                         [] o.kind \in {"create", "delete"} -> "begin"]
    BY <1>1 DEF Arrive, Goto
  <2>1. PICK row \in Drafts(o) :
          /\ op' = [op EXCEPT ![r] = o] /\ held' = [held EXCEPT ![r] = row]
          /\ pc' = [pc EXCEPT ![r] = CASE o.kind = "read" -> "read"
                                       [] o.kind = "update" -> "load"
                                       [] o.kind \in {"create", "delete"} -> "begin"]
    BY <2>0
  <2>2. o.kind \in {"create", "update", "delete", "read"}
    BY ConfigAssumption DEF WellFormed
  <2>3. UNCHANGED <<db, scratch, conn, before, ended>> /\ pc[r] = "idle"
    BY <1>1 DEF Arrive
  <2>10. row \in Row /\ (o.kind = "create" => row \in NewRows(o.body))
    BY NewRowType, NoRowIsRow DEF Drafts
  <2>4. /\ o.kind = "read" => pc'[r] = "read"
        /\ o.kind = "update" => pc'[r] = "load"
        /\ o.kind \in {"create", "delete"} => pc'[r] = "begin"
    BY <1>0, <2>1, <2>2 DEF Types
  <2>5. op'[r] = o /\ held'[r] = row /\ \A q \in Requests \ {r} : UNCHANGED <<pc[q], op[q], held[q]>>
    BY <1>0, <2>1 DEF Types
  <2>6. Types'
    BY <1>0, <2>1, <2>2, <2>3, <2>4, <2>10 DEF Types, Working
  <2>7. TaskOf(r)' /\ TransactionOf(r)'
    BY <1>0, <2>2, <2>3, <2>4, <2>5, <2>10 DEF TaskOf, TransactionOf, Working
  <2>8. \A q \in Requests \ {r} : TaskOf(q)' /\ TransactionOf(q)'
    BY <2>3, <2>5, OtherTasks
  <2>9. \A q \in Requests : Committed(q)' <=> Committed(q)
    BY <2>2, <2>3, <2>4, <2>5 DEF Committed
  <2> QED BY <2>3, <2>6, <2>7, <2>8, <2>9, CountKept DEF CInv
<1>2. ASSUME NEW r \in Requests,
             \/ Read(r) \/ GiveUp(r) \/ TooLate(r)
             \/ Load(r) /\ op[r].id \notin IdsOf(db, op[r].table)
             \/ Commit(r) /\ ~Commits(r)
      PROVE  CInv'
  <2>1. /\ UNCHANGED <<db, scratch, conn, op, held, before, ended>>
        /\ pc' = [pc EXCEPT ![r] = pc'[r]] /\ pc'[r] \in {"ok", "rejected", "failed"}
        /\ pc'[r] = "ok" => pc[r] = "read"
        /\ pc[r] # "ok"
    BY <1>0, <1>2 DEF Read, GiveUp, TooLate, Load, Commit, Goto, Types
  <2>2. Types'
    BY <1>0, <2>1 DEF Types
  <2>3. TaskOf(r)' /\ TransactionOf(r)'
    BY <1>0, <2>1 DEF TaskOf, TransactionOf, Working
  <2>4. \A q \in Requests \ {r} : TaskOf(q)' /\ TransactionOf(q)'
    BY <1>0, <2>1, OtherTasks DEF Types
  <2>5. \A q \in Requests : Committed(q)' <=> Committed(q)
    BY <1>0, <2>1 DEF Committed, TaskOf, Types
  <2> QED BY <2>1, <2>2, <2>3, <2>4, <2>5, CountKept DEF CInv
<1>3. ASSUME NEW r \in Requests, Load(r), op[r].id \in IdsOf(db, op[r].table) PROVE CInv'
  <2> DEFINE row == Merged(RowOf(db, op[r].table, op[r].id), op[r].body)
  <2>1. /\ UNCHANGED <<db, scratch, conn, op, before, ended>> /\ pc[r] = "load" /\ conn = Free
        /\ pc' = [pc EXCEPT ![r] = "begin"] /\ held' = [held EXCEPT ![r] = row]
    BY <1>3 DEF Load, Goto
  <2>2. op[r] \in Ops /\ op[r].kind = "update"
    BY <1>0, <2>1 DEF TaskOf
  <2>3. op[r].table \in Tables /\ op[r].body \in Row
    BY <2>2, ConfigAssumption DEF WellFormed
  <2>4. row \in Row /\ row.name \in Names
    <3>1. RowOf(db, op[r].table, op[r].id) \in Row /\ RowOf(db, op[r].table, op[r].id).name \in Names
      BY <1>0, <1>3, <2>3 DEF RowOf, Types, Sound, Typed
    <3> QED BY <2>3, <3>1, MergedType
  <2> HIDE DEF row
  <2>5. Types'
    BY <1>0, <2>1, <2>4 DEF Types, Working
  <2>6. TaskOf(r)' /\ TransactionOf(r)'
    BY <1>0, <1>f, <2>1, <2>2, <2>4 DEF TaskOf, TransactionOf, Working, Types
  <2>7. \A q \in Requests \ {r} : TaskOf(q)' /\ TransactionOf(q)'
    BY <1>0, <2>1, OtherTasks DEF Types
  <2>8. \A q \in Requests : Committed(q)' <=> Committed(q)
    BY <1>0, <2>1 DEF Committed, Types
  <2> QED BY <2>1, <2>5, <2>6, <2>7, <2>8, CountKept DEF CInv
<1>4. ASSUME NEW r \in Requests, Begin(r) PROVE CInv'
  <2>1. /\ UNCHANGED <<db, op, held, before, ended>> /\ pc[r] = "begin" /\ conn = Free
        /\ conn' = r /\ scratch' = db
        /\ pc' = [pc EXCEPT ![r] = IF op[r].kind = "create" THEN "apply" ELSE "snapshot"]
    BY <1>4 DEF Begin, Goto
  <2>2. Types'
    BY <1>0, <2>1 DEF Types, Working, Sound
  <2>3. TaskOf(r)' /\ TransactionOf(r)'
    BY <1>0, <2>1 DEF TaskOf, TransactionOf, Working, Types
  <2>4. \A q \in Requests \ {r} : TaskOf(q)' /\ TransactionOf(q)'
    BY <1>0, <2>1, OtherTasks DEF Types
  <2>5. \A q \in Requests : Committed(q)' <=> Committed(q)
    BY <1>0, <2>1 DEF Committed, Types
  <2> QED BY <2>1, <2>2, <2>3, <2>4, <2>5, CountKept DEF CInv
<1>5. ASSUME NEW r \in Requests, Snapshot(r) PROVE CInv'
  <2> DEFINE old == IF r \in ended THEN NoRow ELSE RowOf(db, op[r].table, op[r].id)
  <2>1. /\ UNCHANGED <<db, scratch, conn, op, held, ended>> /\ pc[r] = "snapshot"
        /\ conn = Free \/ r \in ended
        /\ pc' = [pc EXCEPT ![r] = "apply"] /\ before' = [before EXCEPT ![r] = old]
    BY <1>5 DEF Snapshot, Goto
  <2>2. old \in Row
    <3>1. op[r].table \in Tables
      BY <1>0, <2>1, ConfigAssumption DEF TaskOf, Working, WellFormed
    <3> QED BY <1>0, <3>1, NoRowIsRow DEF RowOf, Types, Sound, Typed
  <2> HIDE DEF old
  <2>3. Types'
    BY <1>0, <2>1, <2>2 DEF Types, Working
  <2>4. TaskOf(r)' /\ TransactionOf(r)'
    BY <1>0, <1>f, <2>1 DEF TaskOf, TransactionOf, Working, Types
  <2>5. \A q \in Requests \ {r} : TaskOf(q)' /\ TransactionOf(q)'
    BY <1>0, <2>1, OtherTasks DEF Types
  <2>6. \A q \in Requests : Committed(q)' <=> Committed(q)
    BY <1>0, <2>1 DEF Committed, Types
  <2> QED BY <2>1, <2>3, <2>4, <2>5, <2>6, CountKept DEF CInv
<1>6. ASSUME NEW r \in Requests, Apply(r) PROVE CInv'
  <2> DEFINE o == op[r]
             next == IF o.table = "rule" /\ o.kind # "delete" THEN "links" ELSE "log"
  <2>1. /\ UNCHANGED <<db, conn, op, held, before, ended>> /\ pc[r] = "apply" /\ conn = r
        /\ pc' = [pc EXCEPT ![r] = next]
    BY <1>6 DEF Apply, Goto
  <2>2. o \in Ops /\ o.kind \in {"create", "update", "delete"} /\ scratch = db
        /\ (o.kind = "update" => held[r].name \in Names) /\ (r \notin ended => o.kind = "create")
        /\ (o.kind = "create" => held[r] \in NewRows(o.body))
    BY <1>0, <2>1 DEF TaskOf, TransactionOf, Working
  <2>3. o.table \in Tables /\ o.id \in Ids \cup {0} /\ held[r] \in Row /\ Typed(db)
    BY <1>0, <2>2, ConfigAssumption DEF WellFormed, Types, Sound
  <2> DEFINE bare == [held[r] EXCEPT !.links = {}]
  <2>4. o.kind = "create" =>
          /\ scratch' = Full(db, o.table, bare) /\ Typed(scratch') /\ AcceptsRow(db, o.table, 0, held[r])
          /\ o.table # "rule" => bare = held[r]
    <3> SUFFICES ASSUME o.kind = "create"
                 PROVE  /\ scratch' = Full(db, o.table, bare) /\ Typed(scratch')
                        /\ AcceptsRow(db, o.table, 0, held[r]) /\ (o.table # "rule" => bare = held[r])
      OBVIOUS
    <3>1. scratch' = Inserted(db, o.table, held[r]) /\ AcceptsRow(db, o.table, 0, held[r])
      BY <1>6, <2>2 DEF Apply, Acceptable
    <3>2. held[r].name \in Names /\ (o.table # "rule" => held[r].links = {})
      BY <2>2, NewRowType
    <3>3. bare \in Row /\ bare.name \in Names /\ (o.table # "rule" => bare = held[r])
      BY <2>3, <3>2, RelinkedRow
    <3>4. scratch' = Full(db, o.table, bare)
      BY <2>3, <3>1, InsertedIsFull
    <3> HIDE DEF bare
    <3> QED BY <2>3, <3>1, <3>3, <3>4, FullTyped
  <2>5. Typed(scratch')
    <3>1. CASE o.kind = "update"
      <4>1. scratch' = Updated(db, o.table, o.id, held[r])
        BY <1>6, <2>2, <3>1 DEF Apply
      <4> QED BY <2>2, <2>3, <3>1, <4>1, UpdatedTyped
    <3>2. CASE o.kind = "delete"
      <4>1. scratch' = Deleted(db, o.table, o.id)
        BY <1>6, <2>2, <3>2 DEF Apply
      <4> QED BY <2>3, <4>1, DeletedTyped
    <3> QED BY <2>2, <2>4, <3>1, <3>2
  <2>6. Types'
    BY <1>0, <2>1, <2>5 DEF Types, Working
  <2>7. pc'[r] = next /\ (next = "links" => o.table = "rule") /\ next \in {"links", "log"}
        /\ (next = "log" /\ o.kind = "create" => o.table # "rule")
    BY <1>0, <2>1 DEF Types
  <2>8. TaskOf(r)'
    BY <1>0, <2>1, <2>2, <2>7 DEF TaskOf, Working
  <2>9. TransactionOf(r)'
    BY <2>1, <2>2, <2>4, <2>7 DEF TransactionOf
  <2>10. \A q \in Requests \ {r} : TaskOf(q)' /\ TransactionOf(q)'
    BY <1>0, <2>1, OtherTasks DEF Types
  <2>11. \A q \in Requests : Committed(q)' <=> Committed(q)
    BY <1>0, <2>1 DEF Committed, Types
  <2> QED BY <2>1, <2>6, <2>8, <2>9, <2>10, <2>11, CountKept DEF CInv
<1>7. ASSUME NEW r \in Requests, ApplyRefused(r) \/ LinkRefused(r) PROVE CInv'
  <2>1. /\ UNCHANGED <<db, op, held, before, ended>> /\ pc[r] \in {"apply", "links"}
        /\ conn' = Free /\ scratch' = db
        /\ pc' = [pc EXCEPT ![r] = pc'[r]] /\ pc'[r] \in {"rejected", "failed"}
    BY <1>0, <1>7 DEF ApplyRefused, LinkRefused, RollBack, Goto, Types
  <2>2. Types'
    BY <1>0, <2>1 DEF Types, Sound
  <2>3. TaskOf(r)' /\ TransactionOf(r)'
    BY <1>0, <1>f, <2>1 DEF TaskOf, TransactionOf, Working, Types
  <2>4. \A q \in Requests \ {r} : TaskOf(q)' /\ TransactionOf(q)'
    BY <1>0, <1>f, <2>1, OtherTasks DEF Types
  <2>5. \A q \in Requests : Committed(q)' <=> Committed(q)
    BY <1>0, <2>1 DEF Committed, Types
  <2> QED BY <2>1, <2>2, <2>3, <2>4, <2>5, CountKept DEF CInv
<1>10. ASSUME NEW r \in Requests, Link(r) PROVE CInv'
  <2> DEFINE row == held[r]
             bare == [row EXCEPT !.links = {}]
  <2>1. /\ UNCHANGED <<db, conn, op, held, before, ended>> /\ pc[r] = "links" /\ conn = r /\ ~LinkFails(r)
        /\ pc' = [pc EXCEPT ![r] = "log"] /\ scratch' = Linked(scratch, IdOf(r), LinksOf(row))
    BY <1>10 DEF Link, Goto
  <2>2. /\ op[r] \in Ops /\ op[r].kind = "create" /\ op[r].table = "rule" /\ row \in NewRows(op[r].body)
        /\ scratch = Full(db, "rule", bare) /\ AcceptsRow(db, "rule", 0, row) /\ row \in Row /\ Typed(db)
    BY <1>0, <2>1 DEF TaskOf, TransactionOf, Working, LinkFails, Types, Sound
  <2>3. row.name \in Names /\ LinksOf(row) = row.links /\ row.links # {}
    BY <2>2, NewRowType
  <2>4. bare \in Row /\ bare.name \in Names
    BY <2>2, <2>3, RelinkedRow
  <2>5. IdOf(r) = db.seq["rule"] + 1 /\ IdsOf(scratch, "target") = IdsOf(db, "target")
    <3> HIDE DEF bare
    <3>1. "rule" \in Tables /\ "target" \in Tables /\ db.seq \in [Tables -> Nat]
      BY <2>2 DEF Tables, Typed
    <3>2. scratch.seq["rule"] = db.seq["rule"] + 1 /\ scratch.rows["target"] = db.rows["target"]
      <4>1. OneMore(db, "rule", bare, scratch)
        BY <2>2, <2>4, <3>1, FullTyped
      <4> QED BY <3>1, <4>1 DEF OneMore
    <3> QED BY <2>2, <3>1, <3>2 DEF IdOf, IdsOf
  <2>6. row.links \subseteq IdsOf(db, "target")
    BY <2>1, <2>3, <2>5 DEF LinkFails, AcceptsLinks
  <2>7. scratch' = Full(db, "rule", row) /\ RuleWhole(db, row)
    <3>1. scratch' = Linked(Full(db, "rule", bare), db.seq["rule"] + 1, row.links)
      BY <2>1, <2>2, <2>3, <2>5
    <3>2. scratch' = Full(db, "rule", row)
      BY <2>2, <2>3, <2>6, <3>1, LinkedIsFull
    <3> QED BY <2>2, <2>3, <2>6, <3>2 DEF RuleWhole
  <2>8. Typed(scratch')
    <3> HIDE DEF row
    <3>1. "rule" \in Tables
      BY DEF Tables
    <3> QED BY <2>2, <2>3, <2>7, <3>1, FullTyped
  <2> HIDE DEF bare
  <2>9. Types'
    BY <1>0, <2>1, <2>8 DEF Types, Working
  <2>10. TaskOf(r)' /\ TransactionOf(r)'
    BY <1>0, <2>1, <2>2, <2>7 DEF TaskOf, TransactionOf, Working, Types
  <2>11. \A q \in Requests \ {r} : TaskOf(q)' /\ TransactionOf(q)'
    BY <1>0, <2>1, OtherTasks DEF Types
  <2>12. \A q \in Requests : Committed(q)' <=> Committed(q)
    BY <1>0, <2>1 DEF Committed, Types
  <2> QED BY <2>1, <2>9, <2>10, <2>11, <2>12, CountKept DEF CInv
<1>11. ASSUME NEW r \in Requests, Log(r) PROVE CInv'
  <2> DEFINE o == op[r]
             e == Entry(o.table, IdOf(r), o.kind, before[r], held[r])
  <2>1. /\ UNCHANGED <<db, conn, op, held, before, ended>> /\ pc[r] = "log" /\ conn = r
        /\ pc' = [pc EXCEPT ![r] = "commit"] /\ scratch' = Logged(scratch, e)
    BY <1>11 DEF Log, Goto
  <2>2. /\ o \in Ops /\ o.kind \in {"create", "update", "delete"} /\ (r \notin ended => o.kind = "create")
        /\ (o.kind = "create" => held[r] \in NewRows(o.body) /\ before[r] = NoRow)
        /\ (o.kind = "create" => scratch = Full(db, o.table, held[r]))
        /\ (o.kind = "create" /\ o.table = "rule" => RuleWhole(db, held[r]))
        /\ held[r] \in Row /\ before[r] \in Row /\ Typed(scratch) /\ Sound(db) /\ Typed(db)
    BY <1>0, <2>1 DEF TaskOf, TransactionOf, Working, Types, Sound
  <2>3. o.table \in Tables /\ o.id \in Ids \cup {0}
    BY <2>2, ConfigAssumption DEF WellFormed
  <2>4. o.kind = "create" => Sound(scratch') /\ Len(scratch'.log) = Len(db.log) + 1
    <3> SUFFICES ASSUME o.kind = "create" PROVE Sound(scratch') /\ Len(scratch'.log) = Len(db.log) + 1
      OBVIOUS
    <3>1. held[r].name \in Names
      <4>1. held[r] \in NewRows(o.body)
        BY <2>2
      <4> HIDE DEF e
      <4> QED BY <2>2, <4>1, NewRowType
    <3>2. scratch = Full(db, o.table, held[r]) /\ before[r] = NoRow
      BY <2>2
    <3>3. IdOf(r) = db.seq[o.table] + 1
      <4>1. OneMore(db, o.table, held[r], scratch)
        BY <2>2, <2>3, <3>1, <3>2, FullTyped
      <4> QED BY <4>1 DEF IdOf, OneMore
    <3>4. scratch' = Created(db, o.table, held[r])
      <4>1. e = Entry(o.table, db.seq[o.table] + 1, "create", NoRow, held[r])
        BY <3>2, <3>3
      <4> HIDE DEF e, o
      <4> QED BY <2>1, <3>2, <4>1 DEF Created
    <3> QED BY <2>2, <2>3, <3>1, <3>4, CreatedSound
  <2>5. Typed(scratch')
    <3>1. CASE o.kind = "create"
      BY <2>4, <3>1 DEF Sound
    <3>2. CASE o.kind # "create"
      <4>1. e \in Entries
        BY <2>2, <2>3, <3>2 DEF Entry, Entries, IdOf, Ids
      <4> QED BY <2>1, <2>2, <4>1, LoggedTyped
    <3> QED BY <3>1, <3>2
  <2> HIDE DEF e
  <2>6. Types'
    BY <1>0, <2>1, <2>5 DEF Types, Working
  <2>7. TaskOf(r)' /\ TransactionOf(r)'
    BY <1>0, <2>1, <2>2, <2>4 DEF TaskOf, TransactionOf, Working, Types
  <2>8. \A q \in Requests \ {r} : TaskOf(q)' /\ TransactionOf(q)'
    BY <1>0, <2>1, OtherTasks DEF Types
  <2>9. \A q \in Requests : Committed(q)' <=> Committed(q)
    BY <1>0, <2>1 DEF Committed, Types
  <2> QED BY <2>1, <2>6, <2>7, <2>8, <2>9, CountKept DEF CInv
<1>8. ASSUME NEW r \in Requests, Commit(r), Commits(r) PROVE CInv'
  <2>1. /\ UNCHANGED <<scratch, op, held, before, ended>> /\ pc[r] = "commit" /\ conn = r /\ r \notin ended
        /\ db' = scratch /\ conn' = Free /\ pc' = [pc EXCEPT ![r] = "ok"]
    BY <1>8 DEF Commit, Commits, Goto
  <2>2. op[r].kind = "create" /\ Sound(scratch) /\ Len(scratch.log) = Len(db.log) + 1
    BY <1>0, <2>1 DEF TransactionOf
  <2>3. Types'
    BY <1>0, <2>1, <2>2 DEF Types
  <2>4. TaskOf(r)' /\ TransactionOf(r)'
    BY <1>0, <1>f, <2>1, <2>2 DEF TaskOf, TransactionOf, Working, Types
  <2>5. \A q \in Requests \ {r} : TaskOf(q)' /\ TransactionOf(q)'
    <3>1. \A q \in Requests : conn' # q
      BY <1>f, <2>1
    <3> QED BY <1>0, <2>1, <3>1, OtherTasks DEF Types
  <2>6. Counted'
    <3>1. Done' = Done \cup {r} /\ r \notin Done
      BY <1>0, <2>1, <2>2 DEF Done, Committed, Types
    <3>2. IsFiniteSet(Done) /\ Len(db.log) = Cardinality(Done)
      BY DEF CInv, Counted
    <3>3. IsFiniteSet(Done \cup {r}) /\ Cardinality(Done \cup {r}) = Cardinality(Done) + 1
      BY <3>1, <3>2, FS_AddElement
    <3> HIDE DEF Done
    <3> QED BY <2>1, <2>2, <3>1, <3>2, <3>3 DEF Counted
  <2> QED BY <2>3, <2>4, <2>5, <2>6 DEF CInv
<1>9. CASE (\E r \in Requests : End(r) \/ Rollback(r)) \/ UNCHANGED vars
  <2>1. /\ UNCHANGED <<db, pc, op, held, before>> /\ ended \subseteq ended' /\ ended' \subseteq Requests
        /\ (conn' = conn /\ scratch' = scratch) \/ (conn' = Free /\ scratch' = db)
    BY <1>0, <1>9 DEF End, Rollback, RollBack, vars, Types
  <2>2. Types'
    BY <1>0, <2>1 DEF Types, Sound
  <2>3. \A q \in Requests : TaskOf(q)' /\ TransactionOf(q)'
    BY <1>f, <2>1, OtherTasks
  <2>4. \A q \in Requests : Committed(q)' <=> Committed(q)
    BY <2>1 DEF Committed
  <2> QED BY <2>1, <2>2, <2>3, <2>4, CountKept DEF CInv
<1> QED BY <1>1, <1>2, <1>3, <1>4, <1>5, <1>6, <1>7, <1>8, <1>9, <1>10, <1>11 DEF Next, Step

-----------------------------------------------------------------------------
\* The theorems.

\* Every variable keeps its type, in the committed tables and in a transaction.
THEOREM TypeCorrect == Spec => []TypeOK
<1>1. CInv => TypeOK
  BY DEF CInv, Types, Sound, Typed, TypeOK, Working
<1> QED BY <1>1, ConfigInit, ConfigStep, PTL DEF Spec

\* Every rule has targets to route to, and what it refers to exists.
THEOREM RulesAreWhole == Spec => []RulesWhole
<1>1. CInv => RulesWhole
  BY DEF CInv, Types, Sound, Whole, RuleWhole, AcceptsRow, AcceptsLinks, RulesWhole
<1> QED BY <1>1, ConfigInit, ConfigStep, PTL DEF Spec

\* The change log is the history of the tables.
THEOREM LogTellsHistory == Spec => []LogIsHistory
<1>1. ASSUME CInv PROVE LogIsHistory
  <2>1. Typed(db) /\ Chronicled(db)
    BY <1>1 DEF CInv, Types, Sound
  <2>2. db.log \in Seq(Entries)
    BY <2>1 DEF Typed
  <2>3. DOMAIN db.log = 1 .. Len(db.log) /\ Len(db.log) \in Nat
    BY <2>2
  <2>4. ASSUME NEW i \in DOMAIN db.log
        PROVE  db.log[i].before = NoRow /\ \A j \in 1 .. i - 1 : ~SameRow(db.log[i], db.log[j])
    <3>1. \A j \in 1 .. i - 1 : j \in DOMAIN db.log /\ j # i
      BY <2>3
    <3> QED BY <2>1, <3>1 DEF Chronicled
  <2>5. ASSUME NEW t \in Tables, NEW id \in IdsOf(db, t)
        PROVE  \E i \in DOMAIN db.log :
                 /\ db.log[i].table = t /\ db.log[i].id = id
                 /\ LastBefore(i, Len(db.log) + 1)
                 /\ db.log[i].after = db.rows[t][id]
    <3>1. PICK i \in DOMAIN db.log :
            db.log[i].table = t /\ db.log[i].id = id /\ db.log[i].after = db.rows[t][id]
      BY <2>1 DEF Chronicled
    <3>2. LastBefore(i, Len(db.log) + 1)
      <4>1. \A j \in DOMAIN db.log : i < j => i # j
        BY <2>3
      <4> QED BY <2>1, <4>1 DEF LastBefore, Chronicled
    <3> QED BY <3>1, <3>2
  <2> QED BY <2>4, <2>5 DEF LogIsHistory
<1> QED BY <1>1, ConfigInit, ConfigStep, PTL DEF Spec

\* There are as many entries as writes that were reported as done.
THEOREM AnswersAreLogged == Spec => []AnswersMatchLog
<1>1. CInv => AnswersMatchLog
  BY DEF CInv, Counted, Done, AnswersMatchLog
<1> QED BY <1>1, ConfigInit, ConfigStep, PTL DEF Spec

\* No update and no delete of a source, target or rule is ever reported as done:
\* each waits for the connection it holds until its context ends, and is rolled back.
THEOREM OnlyCreatesCommit == Spec => [](\A r \in Requests : Committed(r) => op[r].kind = "create")
<1>1. CInv => \A r \in Requests : Committed(r) => op[r].kind = "create"
  BY DEF CInv, TaskOf, Committed
<1> QED BY <1>1, ConfigInit, ConfigStep, PTL DEF Spec
=============================================================================
