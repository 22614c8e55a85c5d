------------------------------ MODULE MCRouter ------------------------------
(* Instances of Router for TLC. *)
EXTENDS Router

CONSTANTS p1, k1, t1, t2, r1, r2

Correct ==
  {[body |-> "within", id |-> "given", source |-> "known", signed |-> TRUE,
    payload |-> "object", type |-> "allowed", stamp |-> "absent"]}

\* Rules that overlap in a target; a rule with a target the whitelist refuses, which
\* manual retries can take up while the handler is at the next.
TwiceOrRefused == {<<t1, t1>>, <<t2, t1>>}
=============================================================================
