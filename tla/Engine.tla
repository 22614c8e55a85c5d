------------------------------- MODULE Engine -------------------------------
(***************************************************************************)
(* The rule engine: internal/engine as handleCreateEvent calls it, with    *)
(* the paths of path.go, the conditions of expression.go and the loops of  *)
(* engine.go over the enabled rules.                                       *)
(*                                                                         *)
(* Go ranges over a map in an order of its own each time, and a wildcard   *)
(* does: Lookup stands for every sequence it may return, and Verdicts for  *)
(* every answer Eval may give.                                             *)
(*                                                                         *)
(* A loop of the code is a recursive function of the rounds it has made.   *)
(*                                                                         *)
(* Abstractions.  A path is the sequence of its parts between the dots.  A *)
(* rule without source_id has source NoSource.  The payload is an object:  *)
(* ValidatePayload has seen to it.  A rule's id is its place in the list.  *)
(***************************************************************************)
EXTENDS Comparison, FiniteSets, SequencesExt

CONSTANTS
  Star,        \* the part "*"
  Atoi(_),     \* strconv.Atoi of a part: an integer or NoNumber
  NoSource,    \* a rule for all sources
  AnyType,     \* a rule for all event types
  Conditions,  \* conditions, with all that are part of one
  Depth(_),    \* how deep a condition is nested
  Events,      \* events: source, type and payload
  RuleLists    \* what ListEnabledRules may return

\* A rule as CreateRule lets it through, with the conjunction that EvalAll makes of its
\* conditions.
Wellformed(rule) ==
  /\ DOMAIN rule.conditions = 1 .. Len(rule.conditions)
  /\ [op |-> "and", children |-> rule.conditions] \in Conditions
  /\ rule.enabled \in BOOLEAN
  /\ rule.target \in Nat
  /\ rule.targets \in Seq(Nat \ {0})
  /\ rule.targets # <<>> \/ rule.target # 0

\* What comes out of json.Unmarshal is a tree: it ends somewhere, objects have finitely
\* many fields, and what is inside of a value or a condition is one too.
ASSUME EngineAssumption ==
  /\ Star # Empty
  /\ \A v \in Values :
       /\ v.kind = "list" => v.items \in Seq(Values)
       /\ v.kind = "map" => IsFiniteSet(DOMAIN v.fields) /\ v.fields \in [DOMAIN v.fields -> Values]
  /\ \A p \in Texts : Atoi(p) \in Int \cup {NoNumber}
  /\ \A c \in Conditions :
       /\ Depth(c) \in Nat
       /\ IF c.op \in {"and", "or", "not"}
          THEN /\ c.children \in Seq(Conditions)
               /\ \A i \in DOMAIN c.children : Depth(c.children[i]) < Depth(c)
          ELSE c.path \in Seq(Texts) /\ c.value \in Values
  /\ \A e \in Events : e.payload \in Values
  /\ \A list \in RuleLists : \A i \in DOMAIN list : Wellformed(list[i])
  /\ \A list \in RuleLists : DOMAIN list = 1 .. Len(list) /\ Len(list) \in Nat

VARIABLES
  event,    \* the event being routed
  rules,    \* the rules as loaded
  pos,      \* the rule MatchRules looks at
  matches,  \* what it has collected: rules (by place) with their targets
  targets   \* what SelectTargets returns at the end

vars == <<event, rules, pos, matches, targets>>

-----------------------------------------------------------------------------
\* Slips: what a definition below would be with a plausible mistake in the code
\* it stands for.  No definition of the system uses them.

SegmentSigned(p) ==                   \* a negative number is a key like any other
  IF p # Star /\ Atoi(p) # NoNumber /\ Atoi(p) >= 0
  THEN [key |-> Empty, index |-> Atoi(p)] ELSE [key |-> p, index |-> -1]

TargetsOfListed(rule) == rule.targets   \* the list as it is, without the fallback

SelectedAll(ms) == FlattenSeq([i \in DOMAIN ms |-> ms[i].targets])

-----------------------------------------------------------------------------
\* Paths.

\* ParsePath: empty parts are passed over, so "" and "." are the root.  A part that
\* Atoi takes is an index and has no key, a negative one too.
Segment(p) ==
  CASE p = Star -> [key |-> Star, index |-> -1]
    [] p # Star /\ Atoi(p) # NoNumber -> [key |-> Empty, index |-> Atoi(p)]
    [] p # Star /\ Atoi(p) = NoNumber -> [key |-> p, index |-> -1]

ParsePath(path) ==
  LET segs[n \in 0 .. Len(path)] ==
        IF n = 0 THEN <<>>
        ELSE IF path[n] = Empty THEN segs[n - 1]
        ELSE Append(segs[n - 1], Segment(path[n]))
  IN  segs[Len(path)]

\* An index counts from 0; out of range there is nothing.
Place(v, n) == IF v.kind = "list" /\ n + 1 \in DOMAIN v.items THEN <<v.items[n + 1]>> ELSE <<>>

Field(v, key) == IF v.kind = "map" /\ key \in DOMAIN v.fields THEN <<v.fields[key]>> ELSE <<>>

\* wildcard: the items in order, the fields in any order.
Wildcard(v) ==
  CASE v.kind = "list" -> {v.items}
    [] v.kind = "map"  ->
         {[i \in DOMAIN keys |-> v.fields[keys[i]]] : keys \in SetToSeqs(DOMAIN v.fields)}
    [] v.kind \notin {"list", "map"} -> {<<>>}

\* step: the sequences it may return for one value.
Step(v, seg) ==
  IF seg.key = Star THEN Wildcard(v)
  ELSE IF seg.index >= 0 THEN {Place(v, seg.index)}
  ELSE {Field(v, seg.key)}

\* One round of the loop of Lookup: next, what is found beneath vals.
StepAll(vals, seg) ==
  LET next[n \in 0 .. Len(vals)] ==
        IF n = 0 THEN {<<>>}
        ELSE {found \o more : found \in next[n - 1], more \in Step(vals[n], seg)}
  IN  next[Len(vals)]

Lookup(path, root) ==
  LET segs == ParsePath(path)
      cur[n \in 0 .. Len(segs)] ==
        IF n = 0 THEN {<<root>>} ELSE UNION {StepAll(vals, segs[n]) : vals \in cur[n - 1]}
  IN  cur[Len(segs)]

-----------------------------------------------------------------------------
\* Conditions.

\* exists looks the path up twice: for the number of values and for the first.
Exists(path, root) ==
  {Len(counted) > 0 /\ first # <<>> /\ first[1] # Null :
     counted \in Lookup(path, root), first \in Lookup(path, root)}

\* A slip of the same kind: First where Lookup is meant.
EvalLeafOfFirst(c, root) ==
  IF c.op = "exists" THEN Exists(c.path, root)
  ELSE {Leaf(c.op, IF vals = <<>> THEN vals ELSE <<vals[1]>>, c.value) :
          vals \in Lookup(c.path, root)}

\* The answers that evalLeaf may give.
EvalLeaf(c, root) ==
  IF c.op = "exists" THEN Exists(c.path, root)
  ELSE {Leaf(c.op, vals, c.value) : vals \in Lookup(c.path, root)}

\* The answers that Eval may give.  Children are looked up one by one, so that every
\* combination of their answers may occur, as far as the loops get.
Verdicts(c, root) ==
  LET answers[x \in Conditions] ==
        LET may(b) == {i \in DOMAIN x.children : b \in answers[x.children[i]]}
            every(b) == may(b) = DOMAIN x.children
        IN  CASE x.op = "and" ->
                   {b \in BOOLEAN : IF b THEN every(TRUE) ELSE may(FALSE) # {}}
              [] x.op = "or"  ->
                   {b \in BOOLEAN : IF b THEN may(TRUE) # {} ELSE every(FALSE)}
              [] x.op = "not" ->
                   {b \in BOOLEAN : IF b THEN every(FALSE) ELSE may(TRUE) # {}}
              [] x.op \notin {"and", "or", "not"} -> EvalLeaf(x, root)
  IN  answers[c]

\* EvalAll.
All(conditions) == [op |-> "and", children |-> conditions]

\* Match.
Match(rule, e) ==
  IF /\ rule.source \in {NoSource, e.source}
     /\ rule.type \in {AnyType, e.type}
  THEN Verdicts(All(rule.conditions), e.payload)
  ELSE {FALSE}

-----------------------------------------------------------------------------
\* Targets.

\* out with what is new in ids, as the loops with seen add it.
AddNew(out, ids) ==
  LET sum[n \in 0 .. Len(ids)] ==
        IF n = 0 THEN out
        ELSE IF ids[n] \in ToSet(sum[n - 1]) THEN sum[n - 1]
        ELSE Append(sum[n - 1], ids[n])
  IN  sum[Len(ids)]

\* resolveTargets.
ResolveTargets(rule) ==
  IF rule.targets # <<>> THEN AddNew(<<>>, rule.targets)
  ELSE IF rule.target # 0 THEN <<rule.target>> ELSE <<>>

\* SelectTargets, given what MatchRules has returned.
SelectTargets(ms) ==
  LET out[n \in 0 .. Len(ms)] ==
        IF n = 0 THEN <<>> ELSE AddNew(out[n - 1], ms[n].targets)
  IN  out[Len(ms)]

-----------------------------------------------------------------------------
Init ==
  /\ event \in Events
  /\ rules \in RuleLists
  /\ pos = 1
  /\ matches = <<>>
  /\ targets = <<>>

\* One round of the loop of MatchRules.
Consider ==
  /\ pos <= Len(rules)
  /\ LET rule == rules[pos] IN
       \E hit \in IF rule.enabled THEN Match(rule, event) ELSE {FALSE} :
         matches' = IF hit
                    THEN Append(matches, [rule |-> pos, targets |-> ResolveTargets(rule)])
                    ELSE matches
  /\ pos' = pos + 1
  /\ UNCHANGED <<event, rules, targets>>

\* The loops of SelectTargets, and those of the handler.
Select ==
  /\ pos = Len(rules) + 1
  /\ targets' = SelectTargets(matches)
  /\ pos' = pos + 1
  /\ UNCHANGED <<event, rules, matches>>

Next == Consider \/ Select

Spec == Init /\ [][Next]_vars

-----------------------------------------------------------------------------
\* What a path and a condition mean, without loops: the places of a payload that fit
\* the path, and quantifiers over them.

\* A place is the sequence of steps that lead to it.
At(n) == [at |-> n]
Of(key) == [of |-> key]

Steps(v) ==
  CASE v.kind = "list" -> {At(n) : n \in DOMAIN v.items}
    [] v.kind = "map"  -> {Of(key) : key \in DOMAIN v.fields}
    [] v.kind \notin {"list", "map"} -> {}

Taken(v, step) == IF v.kind = "list" THEN v.items[step.at] ELSE v.fields[step.of]

ValueAt(place, root) ==
  LET at[n \in 0 .. Len(place)] ==
        IF n = 0 THEN root ELSE Taken(at[n - 1], place[n])
  IN  at[Len(place)]

\* The places that are so many steps away.
Places(root, steps) ==
  LET places[n \in 0 .. steps] ==
        IF n = 0 THEN {<<>>}
        ELSE UNION {{Append(place, s) : s \in Steps(ValueAt(place, root))} : place \in places[n - 1]}
  IN  places[steps]

\* What a part of a path asks of a step: nothing, a place in a list or a field; a
\* negative number stands for the field without a name.
Suits(step, part) ==
  \/ part = Star
  \/ Atoi(part) = NoNumber /\ step = Of(part)
  \/ Atoi(part) # NoNumber /\ Atoi(part) >= 0 /\ step = At(Atoi(part) + 1)
  \/ Atoi(part) # NoNumber /\ Atoi(part) < 0 /\ step = Of(Empty)

\* The steps that the first p parts of a path ask for: an empty part asks for none.
StepsOf(path, p) == Cardinality({q \in 1 .. p : path[q] # Empty})

Fits(place, path) ==
  \A p \in DOMAIN path : path[p] # Empty => Suits(place[StepsOf(path, p)], path[p])

Fitting(path, root) == {place \in Places(root, StepsOf(path, Len(path))) : Fits(place, path)}

Found(path, root) == {ValueAt(place, root) : place \in Fitting(path, root)}

\* The order of two values: of their numbers if both have one, else of their texts.
Above(a, b) ==
  IF ToFloat(a) # NoNumber /\ ToFloat(b) # NoNumber
  THEN NaN \notin {ToFloat(a), ToFloat(b)} /\ ToFloat(a) > ToFloat(b)
  ELSE Less(Normalize(b), Normalize(a))

\* What is on the right of in; a text is a list of one.
Items(value) ==
  CASE value.kind = "list" -> ToSet(value.items)
    [] value.kind = "text" -> {value}
    [] value.kind \notin {"list", "text"} -> {}

\* What a leaf means.
Says(c, root) ==
  LET some(Test(_)) == \E v \in Found(c.path, root) : Test(v)
      member == some(LAMBDA v : \E item \in Items(c.value) : Equal(v, item))
  IN  CASE c.op = "exists" -> Found(c.path, root) # {}
        [] c.op = "eq"  -> some(LAMBDA v : Equal(v, c.value))
        [] c.op = "ne"  -> ~some(LAMBDA v : Equal(v, c.value))
        [] c.op = "gt"  -> some(LAMBDA v : Above(v, c.value))
        [] c.op = "gte" -> some(LAMBDA v : ~Above(c.value, v))
        [] c.op = "lt"  -> some(LAMBDA v : Above(c.value, v))
        [] c.op = "lte" -> some(LAMBDA v : ~Above(v, c.value))
        [] c.op = "contains" -> some(LAMBDA v : Within(Sprint(c.value), Sprint(v)))
        [] c.op = "in" -> member
        [] c.op = "not_in" -> ~member
        [] c.op = "regex" ->
             /\ c.value.kind = "text" /\ c.value.text # Empty /\ Compiles(c.value.text)
             /\ some(LAMBDA v : Finds(c.value.text, Normalize(v)))
        [] OTHER -> FALSE

\* What a condition means.
Holds(c, root) ==
  LET true[x \in Conditions] ==
        CASE x.op = "and" -> \A i \in DOMAIN x.children : true[x.children[i]]
          [] x.op = "or"  -> \E i \in DOMAIN x.children : true[x.children[i]]
          [] x.op = "not" -> ~\E i \in DOMAIN x.children : true[x.children[i]]
          [] x.op \notin {"and", "or", "not"} -> Says(x, root)
  IN  true[c]

\* The leaves of a condition.
Leaves(c) ==
  LET leaves[x \in Conditions] ==
        IF x.op \in {"and", "or", "not"}
        THEN UNION {leaves[x.children[i]] : i \in DOMAIN x.children}
        ELSE {x}
  IN  leaves[c]

LeavesOf(rule) == Leaves(All(rule.conditions))

\* No test for existence meets a null: exists looks at the first value only.
Clear(rule) ==
  \A c \in LeavesOf(rule) : c.op = "exists" => Null \notin Found(c.path, event.payload)

\* No in or not_in has a text on its right: the code does not take it for a list.
Listed(rule) ==
  \A c \in LeavesOf(rule) : c.op \in {"in", "not_in"} => c.value.kind # "text"

Applies(rule) ==
  /\ rule.enabled
  /\ rule.source \in {NoSource, event.source}
  /\ rule.type \in {AnyType, event.type}
  /\ Holds(All(rule.conditions), event.payload)

-----------------------------------------------------------------------------
\* Properties.

Matched == {matches[n].rule : n \in DOMAIN matches}

\* Every variable has its type; a matched rule has targets, whichever column they
\* come from.
TypeOK ==
  /\ event \in Events /\ rules \in RuleLists
  /\ pos \in 1 .. Len(rules) + 2
  /\ \A n \in DOMAIN matches :
       /\ matches[n].rule \in DOMAIN rules
       /\ matches[n].targets \in Seq(Nat \ {0}) \ {<<>>}
  /\ targets \in Seq(Nat \ {0})

\* Lookup finds the values at the places that fit the path, each as often as there
\* are places, whatever the order of the maps on the way.
LookupFindsPlaces ==
  \A i \in DOMAIN rules : \A c \in LeavesOf(rules[i]) :
    LET places == Fitting(c.path, event.payload) IN
    \A vals \in Lookup(c.path, event.payload) : \A v \in Found(c.path, event.payload) \cup ToSet(vals) :
      Cardinality({n \in DOMAIN vals : vals[n] = v})
        = Cardinality({place \in places : ValueAt(place, event.payload) = v})

\* A rule is matched if and only if it is enabled, for this source and type, and its
\* conditions mean what is the case; the early ends of the loops do not matter.  But for
\* two exceptions: where exists meets a null, and in with a text on its right.
MatchesExact ==
  \A i \in DOMAIN rules :
    i < pos /\ Clear(rules[i]) /\ Listed(rules[i]) => (i \in Matched <=> Applies(rules[i]))

\* The same event under the same rules is routed the same way every time: the order
\* in which Go ranges over a map decides nothing, except where exists meets a null.
OneAnswer ==
  \A i \in DOMAIN rules : Clear(rules[i]) => Cardinality(Match(rules[i], event)) = 1

\* The operators agree on whatever a path finds.
OperatorsAgree ==
  \A i \in DOMAIN rules : \A c \in LeavesOf(rules[i]) :
    \A vals \in Lookup(c.path, event.payload) : Agreement(vals, c.value)

\* The first of the matched rules that routes to t.
FirstFor(t) == CHOOSE n \in DOMAIN matches :
  /\ t \in ToSet(matches[n].targets)
  /\ \A m \in 1 .. n - 1 : t \notin ToSet(matches[m].targets)

\* However matched rules overlap, every target of theirs is selected once, and targets
\* of earlier rules (priority, then id) come first.
TargetsOnce ==
  pos > Len(rules) + 1 =>
    /\ \A i, j \in DOMAIN targets : targets[i] = targets[j] => i = j
    /\ ToSet(targets) =
         UNION {ToSet(rules[i].targets) \cup
                  (IF rules[i].targets = <<>> THEN {rules[i].target} ELSE {}) : i \in Matched}
    /\ \A i, j \in DOMAIN targets : i < j => FirstFor(targets[i]) <= FirstFor(targets[j])

-----------------------------------------------------------------------------
\* What the documents say and the code does not do (the violation run).

\* expression.go:100, a single text on the right of in is a list of one: a rule with
\* such a leaf is matched if and only if it applies, like any other.
TextIsListOfOne ==
  \A i \in DOMAIN rules :
    i < pos /\ Clear(rules[i]) /\ ~Listed(rules[i]) => (i \in Matched <=> Applies(rules[i]))
=============================================================================
