------------------------------- MODULE Routing -------------------------------
(* Routing decisions of packages/router/src/router.ts over evidence that ages *)
(* and a circuit that moves on (CircuitBreaker).  A decision is made from a   *)
(* snapshot; the execution it is for begins later, while the decision is      *)
(* valid and after the circuit was looked at again.                           *)
(*                                                                            *)
(* A candidate is its evidence: the instants it was observed at and goes      *)
(* stale, its latency, its score.  suits stands for everything the router     *)
(* compares that time does not change: configuration, policy, capabilities,   *)
(* context, cost and the budget plan.  breaker says that its circuit is the   *)
(* modelled one; the others' stay closed.                                     *)
EXTENDS CircuitBreaker, FiniteSetsExt, SequencesExt

CONSTANTS Requests,
          CatalogMs, HealthMs, QuotaMs, CapacityMs, SecureMs,  \* freshness
          MaximumFallbacks

\* Instants and durations are milliseconds; a request names finitely many
\* candidates, whose evidence was parsed.
ASSUME RoutingAssumption ==
  /\ {CatalogMs, HealthMs, QuotaMs, CapacityMs, SecureMs, MaximumFallbacks} \subseteq Nat
  /\ \A r \in Requests :
       /\ r.deadline \in Nat \cup {Never}
       /\ r.allowFallbacks \in BOOLEAN
       /\ IsFiniteSet(r.candidates)
       /\ \A c \in r.candidates :
            /\ {c.suits, c.breaker, c.local, c.agent} \subseteq BOOLEAN
            /\ {c.refreshAfter, c.generatedAt, c.checkedAt, c.quotaAt, c.quotaStale, c.capacityAt,
                c.capacityStale, c.verifiedAt, c.latency, c.id} \subseteq Nat
            /\ c.score \in Int

VARIABLE decision   \* the decision a dispatcher holds, or NoDecision

vars == <<circuit, now, running, events, applied, decision>>

NoDecision == [choices |-> <<>>]

-----------------------------------------------------------------------------
\* isFresh()
Fresh(t, observedAt, staleAt, maximumAge) ==
  observedAt <= t /\ t <= staleAt /\ t - observedAt <= maximumAge

CatalogFits(c, t) ==
  /\ t <= c.refreshAfter
  /\ c.generatedAt <= t /\ t - c.generatedAt <= CatalogMs

CircuitAdmits(r, c, phase) ==
  c.breaker => \/ phase = "closed"
               \/ phase = "half-open" /\ r.probe = c.id

RuntimeFits(r, c, t, phase) ==
  /\ c.checkedAt <= t /\ t - c.checkedAt <= HealthMs
  /\ Fresh(t, c.quotaAt, c.quotaStale, QuotaMs)
  /\ c.local => Fresh(t, c.capacityAt, c.capacityStale, CapacityMs)
  /\ c.agent => c.verifiedAt <= t /\ t - c.verifiedAt <= SecureMs
  /\ CircuitAdmits(r, c, phase)

InTime(r, c, t) == r.deadline = Never \/ t + c.latency <= r.deadline

\* evaluateCandidate(): no rejection code.
Feasible(r, c, t, phase) ==
  c.suits /\ CatalogFits(c, t) /\ RuntimeFits(r, c, t, phase) /\ InTime(r, c, t)

Expiries(r, c) ==
  {c.refreshAfter, c.generatedAt + CatalogMs, c.checkedAt + HealthMs,
   c.quotaStale, c.quotaAt + QuotaMs}
  \cup (IF c.agent THEN {c.verifiedAt + SecureMs} ELSE {})
  \cup (IF r.deadline = Never THEN {} ELSE {r.deadline})

\* Mutated form of ValidUntil: what a local model needs is not looked at.
ValidUntilRemote(r, c) == Min(Expiries(r, c))

\* The earliest instant at which a piece of evidence goes stale.
ValidUntil(r, c) ==
  Min(Expiries(r, c) \cup (IF c.local THEN {c.capacityStale, c.capacityAt + CapacityMs} ELSE {}))

\* orderFeasible(): the pinned first, then by score, ties by fingerprint.
Before(r, c, d) ==
  IF r.pin # "none" /\ (c.alias = r.pin) # (d.alias = r.pin) THEN c.alias = r.pin
  ELSE c.score > d.score \/ (c.score = d.score /\ c.id < d.id)

\* The feasible candidates in that order.
Rankings(r, t, phase) ==
  LET feasible == {c \in r.candidates : Feasible(r, c, t, phase)}
  IN {s \in [1 .. Cardinality(feasible) -> feasible] :
        \A i, j \in DOMAIN s : i < j => Before(r, s[i], s[j])}

\* The primary and its fallbacks.
Chosen(r, ranking) ==
  LET wanted == 1 + (IF r.allowFallbacks THEN MaximumFallbacks ELSE 0)
  IN SubSeq(ranking, 1, IF wanted < Len(ranking) THEN wanted ELSE Len(ranking))

-----------------------------------------------------------------------------
Init == CircuitInit /\ decision = NoDecision

\* routeTaskWithConfiguration()
Route(r) ==
  \E ranking \in Rankings(r, now, circuit.phase) :
    /\ decision = NoDecision
    /\ ranking # <<>>
    /\ decision' = [choices |-> Chosen(r, ranking), request |-> r, phase |-> circuit.phase,
                    validUntil |-> ValidUntil(r, Head(ranking))]
    /\ UNCHANGED circuitVars

\* The dispatcher begins the call a valid decision is for.
Dispatch(k) ==
  /\ decision # NoDecision /\ now <= decision.validUntil
  /\ CircuitAdmits(decision.request, Head(decision.choices), circuit.phase)
  /\ Begin(k)
  /\ decision' = NoDecision

\* Or gives the decision up.
Drop ==
  /\ decision # NoDecision
  /\ decision' = NoDecision
  /\ UNCHANGED circuitVars

Next ==
  \/ \E r \in Requests : Route(r)
  \/ \E k \in Calls : Dispatch(k)
  \/ Drop
  \/ CircuitStep /\ UNCHANGED decision

Spec == Init /\ [][Next]_vars

-----------------------------------------------------------------------------
(* Properties *)

\* Every variable keeps its type.
TypeOK ==
  /\ CircuitTypeOK
  /\ decision # NoDecision => /\ decision.request \in Requests
                              /\ ToSet(decision.choices) \subseteq decision.request.candidates
                              /\ decision.phase \in Phases

\* However long a dispatcher holds a decision: while it is valid the same
\* evidence would still give it its candidate, and afterwards it would not.  The
\* one exception is a deadline, which rules the candidate out earlier, by the
\* latency it is expected to have.
ValidityIsExact ==
  decision # NoDecision =>
    LET r == decision.request  c == Head(decision.choices)
    IN (now <= decision.validUntil /\ InTime(r, c, now)) = Feasible(r, c, now, decision.phase)
=============================================================================
