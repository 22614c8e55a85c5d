----------------------------- MODULE Comparison -----------------------------
(***************************************************************************)
(* What the leaf operators of a condition make of the values found in a    *)
(* payload: the lower half of internal/engine/expression.go, equal and     *)
(* compare with normalize and toFloat beneath them, and evalCompare, in    *)
(* and regexMatch above.                                                   *)
(*                                                                         *)
(* A JSON value is a record with its kind; payloads and conditions come    *)
(* out of json.Unmarshal, so there are no other Go types than these six.   *)
(* Texts are opaque: the library functions on them (strconv, fmt, strings, *)
(* regexp) are parameters with what is assumed of them.  Numbers are       *)
(* integers: only their order matters.                                     *)
(***************************************************************************)
EXTENDS Integers, Sequences

CONSTANTS
  Values,           \* JSON values: of payloads, and right sides of conditions
  Texts,            \* strings
  Empty,            \* the empty one
  NaN,              \* what ParseFloat makes of "NaN"
  NoNumber,         \* its error
  ParseFloat(_),    \* of a text: a number, NaN or NoNumber
  Decimal(_),       \* FormatFloat(n, 'f', -1, 64)
  Sprint(_),        \* fmt.Sprint of a value
  Less(_, _),       \* the byte order of texts
  Within(_, _),     \* is the first text a part of the second?
  Compiles(_),      \* is the text a regular expression?
  Finds(_, _)       \* does the expression match somewhere in the text?

Null == [kind |-> "null"]
Number(n) == [kind |-> "number", num |-> n]
Text(t) == [kind |-> "text", text |-> t]
Bool(b) == [kind |-> "bool", bool |-> b]
List(items) == [kind |-> "list", items |-> items]
Map(fields) == [kind |-> "map", fields |-> fields]

\* Values are well-formed; a number survives being written in full and read again;
\* texts are ordered; NaN and the error are no numbers.
ASSUME ComparisonAssumption ==
  /\ \A v \in Values :
       \/ v = Null
       \/ v.kind = "number" /\ v.num \in Int
       \/ v.kind = "text" /\ v.text \in Texts
       \/ v.kind \in {"bool", "list", "map"}
  /\ NaN \notin Int /\ NoNumber \notin Int /\ NaN # NoNumber
  /\ \A t \in Texts : ParseFloat(t) \in Int \cup {NaN, NoNumber}
  /\ \A v \in Values : v.kind = "number" =>
       Decimal(v.num) \in Texts /\ ParseFloat(Decimal(v.num)) = v.num
  /\ Empty \in Texts
  /\ \A v \in Values : Sprint(v) \in Texts
  /\ \A s, t \in Texts : Less(s, t) \in BOOLEAN
  /\ \A s, t \in Texts : ~(Less(s, t) /\ Less(t, s))
  /\ \A s, t \in Texts : s # t => Less(s, t) \/ Less(t, s)

-----------------------------------------------------------------------------
\* normalize, toFloat.

Normalize(v) ==
  CASE v.kind = "null"   -> Empty
    [] v.kind = "number" -> Decimal(v.num)
    [] v.kind = "text"   -> v.text
    [] v.kind \in {"bool", "list", "map"} -> Sprint(v)

ToFloat(v) ==
  CASE v.kind = "number" -> v.num
    [] v.kind = "text"   -> ParseFloat(v.text)
    [] v.kind \in {"null", "bool", "list", "map"} -> NoNumber

Equal(a, b) == Normalize(a) = Normalize(b)

-----------------------------------------------------------------------------
\* Slips: what a definition below would be with a plausible mistake in the code
\* it stands for.  No definition of the system uses them.

CompareAsText(a, b) ==
  IF Less(Normalize(a), Normalize(b)) THEN -1 ELSE IF Less(Normalize(b), Normalize(a)) THEN 1 ELSE 0

NoneEqualIfFound(vals, value) ==       \* without the case of a path that finds nothing
  vals # <<>> /\ \A i \in DOMAIN vals : ~Equal(vals[i], value)

-----------------------------------------------------------------------------
\* compare: numbers if both sides are, NaN equal to all of them; else texts.
Compare(a, b) ==
  LET x == ToFloat(a)  y == ToFloat(b) IN
  IF x # NoNumber /\ y # NoNumber
  THEN IF x = NaN \/ y = NaN THEN 0 ELSE IF x > y THEN 1 ELSE IF x < y THEN -1 ELSE 0
  ELSE IF Less(Normalize(a), Normalize(b)) THEN -1
       ELSE IF Less(Normalize(b), Normalize(a)) THEN 1 ELSE 0

\* evalCompare: what has to hold of one of the values, and for "ne" of all of them,
\* even if there is none.
One(op, v, value) ==
  CASE op = "eq"  -> Equal(v, value)
    [] op = "gt"  -> Compare(v, value) > 0
    [] op = "gte" -> Compare(v, value) >= 0
    [] op = "lt"  -> Compare(v, value) < 0
    [] op = "lte" -> Compare(v, value) <= 0
    [] op = "contains" -> Within(Sprint(value), Sprint(v))

NoneEqual(vals, value) == \A i \in DOMAIN vals : ~Equal(vals[i], value)

EvalCompare(op, vals, value) ==
  IF op = "ne" THEN NoneEqual(vals, value)
  ELSE \E i \in DOMAIN vals : One(op, vals[i], value)

\* asList: a text on its own is made a list that in does not use, so that not_in holds.
In(vals, value) ==
  /\ value.kind = "list"
  /\ \E i \in DOMAIN vals, j \in DOMAIN value.items : Equal(vals[i], value.items[j])

RegexMatch(vals, value) ==
  /\ value.kind = "text" /\ value.text # Empty
  /\ Compiles(value.text)
  /\ \E i \in DOMAIN vals : Finds(value.text, Normalize(vals[i]))

\* evalLeaf, but for "exists"; an unknown operator never holds.
Leaf(op, vals, value) ==
  CASE op = "in"     -> In(vals, value)
    [] op = "not_in" -> ~In(vals, value)
    [] op = "regex"  -> RegexMatch(vals, value)
    [] op \in {"eq", "ne", "gt", "gte", "lt", "lte", "contains"} ->
         EvalCompare(op, vals, value)
    [] OTHER -> FALSE

-----------------------------------------------------------------------------
\* How the operators stand to one another, for the same values and right side.

Agreement(vals, value) ==
  LET holds(op) == Leaf(op, vals, value) IN
  /\ holds("ne") <=> ~holds("eq")
  /\ holds("eq") => holds("gte") /\ holds("lte")
  /\ holds("gt") => holds("gte")
  /\ holds("lt") => holds("lte")
  /\ vals # <<>> => (holds("gt") \/ holds("lte")) /\ (holds("lt") \/ holds("gte"))
  /\ Len(vals) = 1 => ~(holds("gt") /\ holds("lte")) /\ ~(holds("lt") /\ holds("gte"))
  /\ value.kind = "list" => (holds("in") <=> \E j \in DOMAIN value.items : Leaf("eq", vals, value.items[j]))
=============================================================================
