--------------------------- MODULE MCConfigStore ---------------------------
(* Instances of ConfigStore for TLC. *)
EXTENDS ConfigStore, TLC

CONSTANTS a, b, q1, q2, q3

Named(n) == [NoRow EXCEPT !.name = n]
Rule(source, target, links) ==
  [name |-> a, source |-> source, target |-> target, links |-> links]

Create(t, body) == [kind |-> "create", table |-> t, id |-> 0, body |-> body]
Update(t, id, body) == [kind |-> "update", table |-> t, id |-> id, body |-> body]
Delete(t, id) == [kind |-> "delete", table |-> t, id |-> id, body |-> NoRow]

\* A target; rules that name it, alone or in a list, before and after it exists, and
\* one that names it and lists another; changes of either.  (Sources go the way of
\* targets.)
Creates ==
  {Create("target", Named(a)), Create("rule", Rule(0, 1, {})), Create("rule", Rule(0, 0, {1})),
   Create("rule", Rule(0, 1, {2}))}
Changes ==
  {Update("target", 1, Named(b)),
   Update("rule", 1, [Rule(0, 1, {}) EXCEPT !.name = NoName]),
   Delete("target", 1), Delete("rule", 1)}

MixedOps == Creates \cup Changes \cup {NoOp}
LoneOps == {Create("target", Named(a)), Update("target", 1, Named(b))}

\* Requests that come one at a time: nobody competes for the connection.
Alone(r) == \A s \in Requests \ {r} : pc[s] = "idle" \/ Returned(s)

OneByOne ==
  Init /\ [][\E r \in Requests : Alone(r) /\ (Arrive(r) \/ Step(r) \/ End(r) \/ Rollback(r))]_vars
=============================================================================
