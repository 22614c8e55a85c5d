------------------------------ MODULE MCIngest ------------------------------
(* Instances of Ingest for TLC. *)
EXTENDS Ingest, TLC

CONSTANTS p1, p2, k1, k2, t1, t2, t3

RequestSymmetry == Permutations(Requests)

Good ==
  [body |-> "within", id |-> "given", source |-> "known", signed |-> TRUE,
   payload |-> "object", type |-> "allowed", stamp |-> "absent"]

\* Correct requests, and one for each thing that can be wrong with them.
Faulty ==
  {Good, [Good EXCEPT !.stamp = "fresh"],
   [Good EXCEPT !.body = "beyond"], [Good EXCEPT !.body = "malformed"],
   [Good EXCEPT !.body = "broken", !.id = "empty"], [Good EXCEPT !.id = "empty"],
   [Good EXCEPT !.source = "missing", !.signed = FALSE],
   [Good EXCEPT !.source = "disabled"],
   [Good EXCEPT !.signed = FALSE, !.payload = "grown"],
   [Good EXCEPT !.payload = "grown"], [Good EXCEPT !.payload = "other", !.type = "foreign"],
   [Good EXCEPT !.type = "foreign", !.stamp = "stale"],
   [Good EXCEPT !.stamp = "stale"], [Good EXCEPT !.stamp = "future"],
   [Good EXCEPT !.stamp = "negative"]}
OnlyGood == {Good}

\* No match; two rules that overlap, with a disabled target; a rule with one target.
OverlappingPlans == {<<>>, <<t1, t3, t1, t2>>, <<t2>>}
OnePlan == {<<t1, t2>>}
=============================================================================
