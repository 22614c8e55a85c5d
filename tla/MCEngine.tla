------------------------------ MODULE MCEngine ------------------------------
(* Instances of Engine for TLC. *)
EXTENDS Engine

\* The texts that occur, in byte order.  "-1" and "0" to "9" are also parts of paths.
InOrder == <<"", "(", "*", "-1", "0", "1", "10", "5x", "9", "<nil>", "NaN", "[10]", "[9 a]",
             "[<nil> 9]", "[map..]", "a", "ab", "false", "map[]", "map[..]", "true">>
AllTexts == {InOrder[i] : i \in DOMAIN InOrder}

Rank(t) == CHOOSE i \in DOMAIN InOrder : InOrder[i] = t
LessText(s, t) == Rank(s) < Rank(t)

\* ParseFloat and Atoi of them.
AsNumber == [t \in AllTexts |->
  CASE t = "-1" -> -1 [] t = "0" -> 0 [] t = "1" -> 1 [] t = "9" -> 9 [] t = "10" -> 10
    [] OTHER -> NoNumber]
Float(t) == IF t = "NaN" THEN NaN ELSE AsNumber[t]
Integer(t) == AsNumber[t]
Written(n) == CHOOSE t \in AllTexts : AsNumber[t] = n

\* strings.Contains, and a search for an expression that is plain text.
Part(s, t) == s = "" \/ s = t \/ <<s, t>> \in {<<"a", "ab">>, <<"a", "[9 a]">>, <<"9", "[9 a]">>,
     <<"10", "[10]">>, <<"9", "[<nil> 9]">>, <<"a", "[map..]">>, <<"a", "map[..]">>, <<"a", "false">>}
Regular(t) == t # "("
FindsPart(s, t) == Part(s, t)

None == Map([t \in {} |-> Null])
N == Number(9)
T == Number(10)

\* One text stands for the maps that are not empty, one for a list of them.
Printed(v) ==
  CASE v.kind = "null" -> "<nil>"
    [] v.kind = "number" -> Written(v.num)
    [] v.kind = "text" -> v.text
    [] v.kind = "bool" -> IF v.bool THEN "true" ELSE "false"
    [] v.kind = "list" -> IF v = List(<<T>>) THEN "[10]"
                          ELSE IF v.items[1] = Null THEN "[<nil> 9]"
                          ELSE IF v.items[1] = N THEN "[9 a]" ELSE "[map..]"
    [] v.kind = "map" -> IF v = None THEN "map[]" ELSE "map[..]"

\* Payloads: scalars of several kinds, lists, maps, both nested, keys that are numbers
\* or empty, nulls, and nothing at all.
Object(a, b) == Map([t \in {"a", "b"} |-> IF t = "a" THEN a ELSE b])
Only(key, v) == Map([t \in {key} |-> v])
Pair(v, w) == Map([t \in {"a", "ab"} |-> IF t = "a" THEN v ELSE w])

Payloads ==
  {None,
   Only("a", N), Only("a", Text("9")), Only("a", Text("5x")), Only("a", Null), Only("a", Bool(TRUE)),
   Only("a", Text("")), Only("a", Text("NaN")), Only("", T), Only("0", N),
   Only("a", List(<<N, Text("a")>>)), Only("a", List(<<Null, N>>)), Only("a", List(<<T>>)),
   Only("a", Pair(N, Text("5x"))), Only("a", Pair(Null, T)), Only("a", Pair(Null, Null)),
   Only("a", List(<<Only("a", N), Only("a", T), Only("ab", N)>>)),
   Only("a", Pair(Pair(N, T), Pair(Text("10"), N)))}

AllEvents == {[source |-> "s1", type |-> "push", payload |-> p] : p \in Payloads}

Rights == {Null, N, T, Text("9"), Text("10"), Text("a"), Text("5x"), Text("("), Text(""), Bool(TRUE),
           List(<<N, Text("a")>>), List(<<T>>)}

SubValues(p) == UNION {{ValueAt(place, p) : place \in Places(p, n)} : n \in 0 .. 4}
AllValues == Rights \cup UNION {SubValues(p) : p \in Payloads}

\* Paths: the root twice, fields, an index, wildcards, an empty part, a negative index.
Paths == {<<"">>, <<"", "">>, <<"a">>, <<"a", "0">>, <<"a", "1">>, <<"0">>, <<"-1">>, <<"a", "*">>,
          <<"*">>, <<"a", "", "ab">>, <<"a", "*", "a">>, <<"a", "*", "*">>}

Operators == {"eq", "ne", "gt", "gte", "lt", "lte", "contains", "in", "not_in", "regex", "exists", ""}

LeafOf(op, path, value) == [op |-> op, path |-> path, value |-> value]
Group(op, children) == [op |-> op, children |-> children]

Rule(source, type, conditions, target, ids, enabled) ==
  [source |-> source, type |-> type, conditions |-> conditions, target |-> target,
   targets |-> ids, enabled |-> enabled]

Simple(c) == <<Rule(NoSource, AnyType, <<c>>, 1, <<1>>, TRUE)>>

Lonely ==
  {Simple(LeafOf(op, path, value)) : op \in Operators \ {"exists"}, path \in Paths, value \in Rights}
  \cup {Simple(LeafOf("exists", path, Null)) : path \in Paths}

Nine == LeafOf("eq", <<"a", "*">>, N)
There == LeafOf("exists", <<"a">>, Null)
Big == LeafOf("gt", <<"a", "*">>, Text("9"))

Grouped ==
  {Simple(Group(op, cs)) : op \in {"and", "or", "not"},
     cs \in {<<>>, <<Nine>>, <<Nine, Big>>, <<Big, Group("not", <<There, Nine>>)>>,
             <<Group("or", <<Nine, LeafOf("", <<"a">>, N)>>), Group("and", <<There, Big>>)>>}}

\* Rules that overlap: two lists of targets, a rule without rule_targets, a rule of
\* another source, of another type, a disabled one.
Overlapping ==
  LET open(cs, t, ids) == Rule(NoSource, AnyType, cs, t, ids, TRUE) IN
  {<<open(<<There>>, 1, <<2, 1, 2>>), open(<<>>, 3, <<>>), open(<<Nine, Big>>, 1, <<1, 3>>)>>,
   <<Rule("s1", "push", <<There>>, 3, <<3>>, TRUE), Rule("s2", AnyType, <<>>, 1, <<1>>, TRUE),
     Rule("s1", "pull", <<>>, 2, <<2>>, TRUE), Rule("s1", AnyType, <<>>, 2, <<2, 3>>, TRUE)>>,
   <<Rule("s1", "push", <<>>, 1, <<1>>, FALSE), open(<<Big>>, 2, <<2>>), open(<<There>>, 2, <<>>)>>,
   <<>>}

AllRuleLists == Lonely \cup Grouped \cup Overlapping

\* The conditions of these rules, whole and in parts.
Grouping(c) == c.op \in {"and", "or", "not"}

WithParts(S) == S \cup UNION {ToSet(c.children) : c \in {g \in S : Grouping(g)}}

RulesAndParts ==
  WithParts(WithParts(WithParts(
    UNION {{Group("and", list[i].conditions) : i \in DOMAIN list} : list \in AllRuleLists})))

\* A name of its own: TLC computes RulesAndParts once, and a constant given by a cfg is
\* computed at every use.
AllConditions == RulesAndParts

RECURSIVE Nesting(_)
Nesting(c) ==
  IF Grouping(c) /\ c.children # <<>>
  THEN 1 + Max({Nesting(c.children[i]) : i \in DOMAIN c.children})
  ELSE 0
=============================================================================
