------------------------------ MODULE MCRouting ------------------------------
(* A cloud model with the circuit, a local model and a coding agent without.  *)
EXTENDS Routing, TLC
CONSTANTS k1, k2, k3, p1, p2
MCCalls == {k1, k2, k3}
MCProbes == {p1, p2}
Cloud == [id |-> 1, suits |-> TRUE, breaker |-> TRUE, local |-> FALSE, agent |-> FALSE,
          refreshAfter |-> 9, generatedAt |-> 0, checkedAt |-> 0, quotaAt |-> 0, quotaStale |-> 3,
          capacityAt |-> 0, capacityStale |-> 9, verifiedAt |-> 0, latency |-> 1, score |-> 2, alias |-> "x"]
Local == [Cloud EXCEPT !.id = 2, !.breaker = FALSE, !.local = TRUE, !.capacityAt = 1, !.capacityStale = 2,
                       !.quotaStale = 9, !.score = 1, !.alias = "y"]
Agent == [Cloud EXCEPT !.id = 3, !.breaker = FALSE, !.agent = TRUE, !.quotaStale = 9, !.score = 2]
Ask(candidates) == [candidates |-> candidates, deadline |-> Never, pin |-> "none", probe |-> 0, allowFallbacks |-> TRUE]
MCRequests ==
  {[Ask({Cloud, Local}) EXCEPT !.probe = 1],
   [Ask({Cloud, Local}) EXCEPT !.pin = "y"],
   [Ask({Cloud, Agent}) EXCEPT !.deadline = 3, !.allowFallbacks = FALSE]}
Symmetry == Permutations(MCCalls) \cup Permutations(MCProbes)
=============================================================================
