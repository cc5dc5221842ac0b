--------------------------- MODULE RoutingProofs ---------------------------
(* Theorems about the circuit breaker beneath the router, for every set of    *)
(* calls and probes, threshold, cool-down and memory of identifiers, and      *)
(* however the outcomes are delivered; and about the decisions made over it,  *)
(* for every set of requests and every age the evidence may have.             *)
EXTENDS Routing, FiniteSetTheorems, WellFoundedInduction, TLAPS

States == [phase : Phases, failures : Nat, openedAt : Nat \cup {Never},
           until : Nat \cup {Never}, probe : BOOLEAN, lastAt : Nat \cup {Never},
           ids : Seq(EventIds)]

AnyEvent == [id : EventIds, kind : Outcomes \cup {"admit-probe"}, at : Nat]

\* The newest identifiers of a sequence are a sequence of identifiers.
LEMMA NewestType ==
  ASSUME NEW ids \in Seq(EventIds) PROVE Newest(ids) \in Seq(EventIds)
BY CircuitAssumption DEF Newest

\* A transition leads from a state that parses to one that does.
LEMMA TransitionType ==
  ASSUME NEW s \in States, StateParses(s), NEW e \in AnyEvent
  PROVE  Transition(s, e) \in States /\ StateParses(Transition(s, e))
<1>. USE CircuitAssumption
<1>1. Sealed(s, e) \in States /\ Sealed(s, e) = [s EXCEPT !.lastAt = e.at, !.ids = Sealed(s, e).ids]
  <2>1. Append(s.ids, e.id) \in Seq(EventIds)
    BY DEF States, AnyEvent
  <2>2. Newest(Append(s.ids, e.id)) \in Seq(EventIds)
    BY <2>1, NewestType
  <2>. QED BY <2>2 DEF Sealed, States, AnyEvent
<1>2. CASE ~IsApplicable(s, e)
  BY <1>2 DEF Transition
<1>3. CASE IsApplicable(s, e) /\ e.kind = "admit-probe"
  <2>1. Transition(s, e) = HalfOpen(s, e) /\ s.phase = "open"
    BY <1>3 DEF Transition, IsApplicable, MayProbe
  <2>2. HalfOpen(s, e) \in States
    BY <1>1 DEF HalfOpen, States, Phases
  <2>3. /\ HalfOpen(s, e).phase = "half-open" /\ HalfOpen(s, e).probe
        /\ HalfOpen(s, e).openedAt = s.openedAt /\ HalfOpen(s, e).until = s.until
    BY <1>1 DEF HalfOpen, Sealed, States
  <2>. QED BY <2>1, <2>2, <2>3 DEF StateParses
<1>4. CASE IsApplicable(s, e) /\ e.kind = "success"
  <2>1. Transition(s, e) = AfterSuccess(s, e)
    BY <1>4 DEF Transition
  <2>2. AfterSuccess(s, e) \in States
    BY <1>1 DEF AfterSuccess, States, Phases
  <2>3. /\ AfterSuccess(s, e).phase = "closed" /\ ~AfterSuccess(s, e).probe
        /\ AfterSuccess(s, e).openedAt = Never /\ AfterSuccess(s, e).until = Never
    BY <1>1 DEF AfterSuccess, Sealed, States
  <2>. QED BY <2>1, <2>2, <2>3 DEF StateParses
<1>5. CASE IsApplicable(s, e) /\ e.kind = "failure"
  <2>1. Transition(s, e) = AfterFailure(s, e) /\ s.phase # "open"
    BY <1>5 DEF Transition, IsApplicable
  <2>4. Sealed(s, e).failures + 1 \in Nat /\ e.at \in Nat /\ e.at + CoolDown \in Nat
    BY <1>1 DEF States, AnyEvent
  <2>2. CASE Opens(s)
    <3>1. AfterFailure(s, e) \in States
      BY <1>1, <2>2, <2>4 DEF AfterFailure, States, Phases
    <3>2. /\ AfterFailure(s, e).phase = "open" /\ ~AfterFailure(s, e).probe
          /\ AfterFailure(s, e).openedAt = e.at /\ AfterFailure(s, e).until = e.at + CoolDown
      BY <1>1, <2>2 DEF AfterFailure, Sealed, States
    <3>. QED BY <2>1, <3>1, <3>2 DEF StateParses, Never, AnyEvent
  <2>3. CASE ~Opens(s)
    <3>1. AfterFailure(s, e) \in States
      BY <1>1, <2>3, <2>4 DEF AfterFailure, States
    <3>2. /\ AfterFailure(s, e).phase = s.phase /\ AfterFailure(s, e).probe = s.probe
          /\ AfterFailure(s, e).openedAt = s.openedAt /\ AfterFailure(s, e).until = s.until
      BY <1>1, <2>3 DEF AfterFailure, Sealed, States
    <3>. QED BY <2>1, <3>1, <3>2 DEF StateParses, States
  <2>. QED BY <2>2, <2>3
<1>. QED BY <1>2, <1>3, <1>4, <1>5 DEF AnyEvent, Outcomes

\* The router and its dispatcher move the circuit only as it moves by itself.
LEMMA RoutingStepsAreCircuitSteps == [Next]_vars => [CircuitNext]_circuitVars
BY DEF Next, vars, circuitVars, Route, Dispatch, Drop, CircuitStep, CircuitNext

\* The state of the circuit parses in every phase.
LEMMA CircuitTypeStep ==
  /\ CircuitInit => CircuitTypeOK
  /\ CircuitTypeOK /\ [CircuitNext]_circuitVars => CircuitTypeOK'
<1>. USE CircuitAssumption
<1>1. CircuitInit => CircuitTypeOK
  BY DEF CircuitInit, CircuitTypeOK, Closed0, StateParses, Phases, Never
<1>2. ASSUME CircuitTypeOK, [CircuitNext]_circuitVars PROVE CircuitTypeOK'
  <2>. USE <1>2
  <2>1. ASSUME NEW k \in Calls, Begin(k) PROVE CircuitTypeOK'
    BY <2>1 DEF Begin, CircuitTypeOK
  <2>2. ASSUME NEW k \in Calls, End(k) PROVE CircuitTypeOK'
    <3>1. events \subseteq events' /\ events' \subseteq AnyEvent
      BY <2>2 DEF End, CircuitTypeOK, AnyEvent, EventIds, Outcomes
    <3>2. applied' \in Seq(events')
      BY <2>2, <3>1 DEF End, CircuitTypeOK
    <3>. QED BY <2>2, <3>1, <3>2 DEF End, CircuitTypeOK, AnyEvent
  <2>3. ASSUME NEW p \in Probes, AskForProbe(p) PROVE CircuitTypeOK'
    <3>1. events \subseteq events' /\ events' \subseteq AnyEvent
      BY <2>3 DEF AskForProbe, CircuitTypeOK, AnyEvent, EventIds
    <3>2. applied' \in Seq(events')
      BY <2>3, <3>1 DEF AskForProbe, CircuitTypeOK
    <3>. QED BY <2>3, <3>1, <3>2 DEF AskForProbe, CircuitTypeOK, AnyEvent
  <2>4. ASSUME NEW e \in events, Deliver(e) PROVE CircuitTypeOK'
    <3>1. circuit \in States /\ StateParses(circuit) /\ e \in AnyEvent
      BY DEF CircuitTypeOK, States, AnyEvent
    <3>2. circuit' \in States /\ StateParses(circuit')
      BY <2>4, <3>1, TransitionType DEF Deliver
    <3>3. applied' \in Seq(events')
      BY <2>4 DEF Deliver, CircuitTypeOK
    <3>. QED BY <2>4, <3>2, <3>3 DEF Deliver, CircuitTypeOK, States
  <2>5. ASSUME Tick PROVE CircuitTypeOK'
    BY <2>5 DEF Tick, CircuitTypeOK
  <2>6. CASE UNCHANGED circuitVars
    BY <2>6 DEF circuitVars, CircuitTypeOK
  <2>. QED BY <2>1, <2>2, <2>3, <2>4, <2>5, <2>6 DEF CircuitNext, CircuitStep
<1>. QED BY <1>1, <1>2

\* Whatever the router does, the circuit keeps its types and parses.
THEOREM CircuitTypeCorrect == Spec => []CircuitTypeOK
<1>1. Init => CircuitTypeOK
  BY CircuitTypeStep DEF Init
<1>2. CircuitTypeOK /\ [Next]_vars => CircuitTypeOK'
  BY CircuitTypeStep, RoutingStepsAreCircuitSteps
<1>. QED BY <1>1, <1>2, PTL DEF Spec

-----------------------------------------------------------------------------
(* The events are what they are recorded as, once; those that were applied    *)
(* are in the order of their times, and the state remembers the last of them. *)

OnePerId ==
  /\ \A e, f \in events : e.id = f.id => e = f
  /\ \A k \in running : ~Recorded(k)

Increasing ==
  /\ \A i, j \in DOMAIN applied : i < j => applied[i].at < applied[j].at
  /\ applied = <<>> => circuit.lastAt = Never
  /\ applied # <<>> => circuit.lastAt = applied[Len(applied)].at

\* An open circuit was opened by the last applied event.
OpenedByLast ==
  circuit.phase = "open" =>
    /\ applied # <<>>
    /\ applied[Len(applied)].kind = "failure"
    /\ circuit.until = applied[Len(applied)].at + CoolDown

CircuitInv == CircuitTypeOK /\ OnePerId /\ Increasing /\ OpenedByLast /\ ProbesAreSpaced

\* What is delivered changes the circuit by one event at the end of applied.
LEMMA Delivery ==
  ASSUME CircuitTypeOK, NEW e \in events, Deliver(e), IsApplicable(circuit, e)
  PROVE  /\ applied' = Append(applied, e)
         /\ Len(applied') = Len(applied) + 1 /\ Len(applied) \in Nat
         /\ \A i \in DOMAIN applied : i \in 1 .. Len(applied) /\ applied'[i] = applied[i]
         /\ applied'[Len(applied')] = e
         /\ \A i \in DOMAIN applied' : i \in DOMAIN applied \/ i = Len(applied')
         /\ DOMAIN applied' = 1 .. Len(applied) + 1 /\ DOMAIN applied = 1 .. Len(applied)
         /\ circuit'.lastAt = e.at /\ circuit.lastAt < e.at
         /\ e \in AnyEvent /\ circuit \in States
<1>1. applied \in Seq(events) /\ applied' = Append(applied, e) /\ e \in AnyEvent /\ circuit \in States
  BY DEF CircuitTypeOK, Deliver, AnyEvent, States
<1>2. circuit.lastAt < e.at
  BY <1>1 DEF IsApplicable, IsLate, AnyEvent, States, Never
<1>3. circuit'.lastAt = e.at
  <2>1. Sealed(circuit, e).lastAt = e.at /\ DOMAIN Sealed(circuit, e) = DOMAIN circuit
    BY <1>1 DEF Sealed, States
  <2>2. e.kind = "admit-probe" \/ e.kind = "success" \/ e.kind = "failure"
    BY <1>1 DEF AnyEvent, Outcomes
  <2>3. circuit' = HalfOpen(circuit, e) \/ circuit' = AfterSuccess(circuit, e) \/ circuit' = AfterFailure(circuit, e)
    BY <2>2 DEF Deliver, Transition
  <2>. QED BY <1>1, <2>1, <2>3 DEF HalfOpen, AfterSuccess, AfterFailure, States
<1>. QED BY <1>1, <1>2, <1>3

\* Where an applicable event leads, by its kind.
LEMMA Outcome ==
  ASSUME NEW s \in States, NEW e \in AnyEvent, IsApplicable(s, e)
  PROVE  /\ e.kind = "admit-probe" =>
              /\ s.phase = "open" /\ e.at >= s.until
              /\ Transition(s, e).phase = "half-open" /\ Transition(s, e).failures = s.failures
         /\ e.kind = "success" =>
              Transition(s, e).phase = "closed" /\ Transition(s, e).failures = 0
         /\ e.kind = "failure" =>
              /\ s.phase # "open"
              /\ Transition(s, e).failures = s.failures + 1
              /\ Transition(s, e).phase = IF Opens(s) THEN "open" ELSE s.phase
              /\ Opens(s) => Transition(s, e).until = e.at + CoolDown
<1>1. /\ Sealed(s, e).failures = s.failures /\ Sealed(s, e).phase = s.phase
      /\ DOMAIN Sealed(s, e) = DOMAIN s
  BY DEF Sealed, States
<1>2. CASE e.kind = "admit-probe"
  <2>1. Transition(s, e) = HalfOpen(s, e) /\ s.phase = "open" /\ e.at >= s.until
    BY <1>2 DEF Transition, IsApplicable, MayProbe
  <2>. QED BY <1>1, <1>2, <2>1 DEF HalfOpen, States
<1>3. CASE e.kind = "success"
  <2>1. Transition(s, e) = AfterSuccess(s, e)
    BY <1>3 DEF Transition
  <2>. QED BY <1>1, <1>3, <2>1 DEF AfterSuccess, States
<1>4. CASE e.kind = "failure"
  <2>1. Transition(s, e) = AfterFailure(s, e) /\ s.phase # "open"
    BY <1>4 DEF Transition, IsApplicable
  <2>. QED BY <1>1, <1>4, <2>1 DEF AfterFailure, States
<1>. QED BY <1>2, <1>3, <1>4

\* Every step of the circuit keeps its invariant, probes and late outcomes
\* included.
LEMMA CircuitInvStep == CircuitInv /\ [CircuitNext]_circuitVars => CircuitInv'
<1>. SUFFICES ASSUME CircuitInv, [CircuitNext]_circuitVars PROVE CircuitInv'
  OBVIOUS
<1>. USE CircuitAssumption DEF CircuitInv
<1>1. CircuitTypeOK'
  BY CircuitTypeStep
<1>2. OnePerId'
  <2>1. ASSUME NEW k \in Calls, Begin(k) PROVE OnePerId'
    BY <2>1 DEF Begin, OnePerId, Recorded
  <2>2. ASSUME NEW k \in Calls, End(k) PROVE OnePerId'
    <3>1. PICK kind \in Outcomes : events' = events \cup {[id |-> k, kind |-> kind, at |-> now]}
      BY <2>2 DEF End
    <3>2. ~Recorded(k) /\ running' = running \ {k}
      BY <2>2 DEF End, OnePerId
    <3>. QED BY <3>1, <3>2 DEF OnePerId, Recorded
  <2>3. ASSUME NEW p \in Probes, AskForProbe(p) PROVE OnePerId'
    <3>1. p \notin running
      BY DEF CircuitTypeOK
    <3>. QED BY <2>3, <3>1 DEF AskForProbe, OnePerId, Recorded
  <2>4. ASSUME UNCHANGED <<events, running>> PROVE OnePerId'
    BY <2>4 DEF OnePerId, Recorded
  <2>. QED BY <2>1, <2>2, <2>3, <2>4 DEF CircuitNext, CircuitStep, Deliver, Tick, circuitVars
<1>3. CASE UNCHANGED <<circuit, applied>>
  BY <1>1, <1>2, <1>3 DEF Increasing, OpenedByLast, ProbesAreSpaced
<1>4. ASSUME NEW e \in events, Deliver(e), ~IsApplicable(circuit, e)
      PROVE  UNCHANGED <<circuit, applied>>
  BY <1>4 DEF Deliver, Transition
<1>5. ASSUME NEW e \in events, Deliver(e), IsApplicable(circuit, e)
      PROVE  Increasing' /\ OpenedByLast' /\ ProbesAreSpaced'
  <2>1. /\ applied' = Append(applied, e)
        /\ Len(applied') = Len(applied) + 1 /\ Len(applied) \in Nat
        /\ \A i \in DOMAIN applied : i \in 1 .. Len(applied) /\ applied'[i] = applied[i]
        /\ applied'[Len(applied')] = e
        /\ \A i \in DOMAIN applied' : i \in DOMAIN applied \/ i = Len(applied')
        /\ DOMAIN applied' = 1 .. Len(applied) + 1 /\ DOMAIN applied = 1 .. Len(applied)
        /\ circuit'.lastAt = e.at /\ circuit.lastAt < e.at
        /\ e \in AnyEvent /\ circuit \in States
    BY <1>5, Delivery
  <2>2. \A i \in DOMAIN applied : applied[i].at \in Nat /\ applied[i] \in events
    BY DEF CircuitTypeOK
  <2>3. Increasing'
    <3>1. \A i \in DOMAIN applied : applied[i].at < e.at
      <4>. SUFFICES ASSUME NEW i \in DOMAIN applied PROVE applied[i].at < e.at
        OBVIOUS
      <4>1. applied # <<>> /\ Len(applied) \in DOMAIN applied /\ applied[i].at <= applied[Len(applied)].at
        BY <2>1, <2>2 DEF Increasing
      <4>2. applied[Len(applied)].at < e.at
        BY <2>1, <4>1 DEF Increasing
      <4>. QED BY <2>1, <2>2, <4>1, <4>2 DEF AnyEvent
    <3>2. applied' # <<>>
      BY <2>1
    <3>3. \A i, j \in DOMAIN applied' : i < j => applied'[i].at < applied'[j].at
      BY <2>1, <3>1 DEF Increasing
    <3>. QED BY <2>1, <3>2, <3>3 DEF Increasing
  <2>4. circuit' = Transition(circuit, e) /\ e.kind \in {"admit-probe", "success", "failure"}
    BY <1>5, <2>1 DEF Deliver, AnyEvent, Outcomes
  <2>5. OpenedByLast'
    <3>. SUFFICES ASSUME circuit'.phase = "open"
                  PROVE  e.kind = "failure" /\ circuit'.until = e.at + CoolDown
      BY <2>1 DEF OpenedByLast
    <3>1. e.kind = "failure"
      BY <1>5, <2>1, <2>4, Outcome
    <3>. QED BY <1>5, <2>1, <2>4, <3>1, Outcome
  <2>6. ProbesAreSpaced'
    <3>. SUFFICES ASSUME NEW i \in DOMAIN applied', i > 1, applied'[i].kind = "admit-probe"
                  PROVE  /\ applied'[i - 1].kind = "failure"
                         /\ applied'[i].at >= applied'[i - 1].at + CoolDown
      BY DEF ProbesAreSpaced
    <3>1. CASE i \in DOMAIN applied
      <4>1. i - 1 \in DOMAIN applied
        BY <2>1, <3>1
      <4>. QED BY <2>1, <3>1, <4>1 DEF ProbesAreSpaced
    <3>2. CASE i = Len(applied')
      <4>1. i = Len(applied) + 1 /\ Len(applied) >= 1 /\ applied'[i] = e
        BY <2>1, <3>2
      <4>3. i - 1 = Len(applied) /\ Len(applied) \in DOMAIN applied
        BY <2>1, <4>1
      <4>4. applied'[i - 1] = applied[Len(applied)]
        BY <2>1, <4>3
      <4>2. circuit.phase = "open" /\ e.at >= circuit.until
        BY <1>5, <2>1, <4>1, Outcome
      <4>. QED BY <4>1, <4>2, <4>4 DEF OpenedByLast
    <3>. QED BY <2>1, <3>1, <3>2
  <2>. QED BY <2>3, <2>5, <2>6
<1>. QED
  BY <1>1, <1>2, <1>3, <1>4, <1>5
  DEF CircuitNext, CircuitStep, Begin, End, AskForProbe, Tick, circuitVars

\* The invariant of the circuit holds however the router uses it.
LEMMA CircuitInvHolds == Spec => []CircuitInv
<1>1. Init => CircuitInv
  BY CircuitTypeStep
  DEF Init, CircuitInit, CircuitInv, OnePerId, Recorded, Increasing, OpenedByLast, ProbesAreSpaced, Closed0
<1>2. CircuitInv /\ [Next]_vars => CircuitInv'
  BY CircuitInvStep, RoutingStepsAreCircuitSteps
<1>. QED BY <1>1, <1>2, PTL DEF Spec

\* However often an outcome is delivered, and however few identifiers are
\* remembered, it has an effect once: the times of applied events increase.
THEOREM OutcomesCountOnce == Spec => []CountedOnce
<1>1. CircuitInv => CountedOnce
  <2>. SUFFICES ASSUME CircuitInv, NEW i \in DOMAIN applied, NEW j \in DOMAIN applied,
                       applied[i].id = applied[j].id
                PROVE  i = j
    BY DEF CountedOnce
  <2>1. /\ applied[i] \in events /\ applied[j] \in events /\ i \in Nat /\ j \in Nat
        /\ applied[i].at \in Nat
    BY DEF CircuitInv, CircuitTypeOK
  <2>2. applied[i].at = applied[j].at
    BY <2>1 DEF CircuitInv, OnePerId
  <2>. QED BY <2>1, <2>2 DEF CircuitInv, Increasing
<1>. QED BY <1>1, CircuitInvHolds, PTL

\* The cool-down passes between a failure that leaves the circuit open and the
\* next probe, the failure of a probe included.
THEOREM ProbesKeepTheirDistance == Spec => []ProbesAreSpaced
<1>1. CircuitInv => ProbesAreSpaced
  BY DEF CircuitInv
<1>. QED BY <1>1, CircuitInvHolds, PTL

-----------------------------------------------------------------------------
(* The count.                                                                 *)

CountInv == CircuitInv /\ IsFiniteSet(Run) /\ CountIsTheRun

\* What an applied event does to the failures in a row.
LEMMA RunStep ==
  ASSUME CircuitTypeOK, NEW e \in events, Deliver(e), IsApplicable(circuit, e)
  PROVE  Run' = CASE e.kind = "success"     -> {}
                  [] e.kind = "failure"     -> Run \cup {Len(applied) + 1}
                  [] e.kind = "admit-probe" -> Run
<1>1. /\ Len(applied') = Len(applied) + 1 /\ Len(applied) \in Nat
      /\ \A i \in DOMAIN applied : applied'[i] = applied[i]
      /\ applied'[Len(applied) + 1] = e
      /\ DOMAIN applied' = 1 .. Len(applied) + 1 /\ DOMAIN applied = 1 .. Len(applied)
      /\ e \in AnyEvent
  BY Delivery
<1>2. ASSUME NEW i \in DOMAIN applied
      PROVE  i \in Run' <=> i \in Run /\ e.kind # "success"
  <2>1. i .. Len(applied') = (i .. Len(applied)) \cup {Len(applied) + 1}
    BY <1>1
  <2>2. i .. Len(applied) \subseteq DOMAIN applied
    BY <1>1
  <2>. QED BY <1>1, <2>1, <2>2 DEF Run
<1>3. Len(applied) + 1 \in Run' <=> e.kind = "failure"
  <2>1. (Len(applied) + 1) .. Len(applied') = {Len(applied) + 1}
    BY <1>1
  <2>. QED BY <1>1, <2>1 DEF Run
<1>4. Run' \subseteq DOMAIN applied' /\ Run \subseteq DOMAIN applied
  BY DEF Run
<1>5. DOMAIN applied' = DOMAIN applied \cup {Len(applied) + 1}
  BY <1>1
<1>6. e.kind = "success" \/ e.kind = "failure" \/ e.kind = "admit-probe"
  BY <1>1 DEF AnyEvent, Outcomes
<1>7. CASE e.kind = "success"
  <2>1. Run' = {}
    BY <1>2, <1>3, <1>4, <1>5, <1>7
  <2>. QED BY <2>1, <1>7
<1>8. CASE e.kind = "failure"
  <2>1. Run' = Run \cup {Len(applied) + 1}
    BY <1>2, <1>3, <1>4, <1>5, <1>8
  <2>. QED BY <2>1, <1>8
<1>9. CASE e.kind = "admit-probe"
  <2>1. Run' = Run
    BY <1>2, <1>3, <1>4, <1>5, <1>9
  <2>. QED BY <2>1, <1>9
<1>. QED BY <1>6, <1>7, <1>8, <1>9

\* Every step of the circuit keeps the counter equal to the run it has seen.
LEMMA CountStep == CountInv /\ [CircuitNext]_circuitVars => CountInv'
<1>. SUFFICES ASSUME CountInv, [CircuitNext]_circuitVars PROVE CountInv'
  OBVIOUS
<1>. USE CircuitAssumption
<1>1. CircuitInv'
  BY CircuitInvStep DEF CountInv
<1>2. CASE UNCHANGED <<circuit, applied>>
  BY <1>1, <1>2 DEF CountInv, CountIsTheRun, Run
<1>3. ASSUME NEW e \in events, Deliver(e), ~IsApplicable(circuit, e)
      PROVE  UNCHANGED <<circuit, applied>>
  BY <1>3 DEF Deliver, Transition
<1>4. ASSUME NEW e \in events, Deliver(e), IsApplicable(circuit, e)
      PROVE  IsFiniteSet(Run') /\ CountIsTheRun'
  <2>1. CircuitTypeOK /\ circuit \in States /\ e \in AnyEvent /\ circuit' = Transition(circuit, e)
    BY <1>4 DEF CountInv, CircuitInv, CircuitTypeOK, States, AnyEvent, Deliver
  <2>2. /\ circuit.failures \in Nat /\ circuit.phase \in Phases
        /\ circuit.failures = Cardinality(Run) /\ IsFiniteSet(Run)
        /\ (circuit.phase = "closed") = (circuit.failures < Threshold)
    BY <2>1 DEF States, CountInv, CountIsTheRun
  <2>3. e.kind = "success" \/ e.kind = "failure" \/ e.kind = "admit-probe"
    BY <2>1 DEF AnyEvent, Outcomes
  <2>4. CASE e.kind = "success"
    <3>1. Run' = {}
      BY <1>4, <2>1, <2>4, RunStep
    <3>2. circuit'.phase = "closed" /\ circuit'.failures = 0
      BY <1>4, <2>1, <2>4, Outcome
    <3>3. IsFiniteSet(Run') /\ Cardinality(Run') = 0
      BY <3>1, FS_EmptySet
    <3>. QED BY <3>2, <3>3 DEF CountIsTheRun
  <2>5. CASE e.kind = "admit-probe"
    <3>1. Run' = Run
      BY <1>4, <2>1, <2>5, RunStep
    <3>2. circuit.phase = "open" /\ circuit'.phase = "half-open" /\ circuit'.failures = circuit.failures
      BY <1>4, <2>1, <2>5, Outcome
    <3>3. IsFiniteSet(Run') /\ circuit'.failures = Cardinality(Run')
      BY <2>2, <3>1, <3>2
    <3>. QED BY <2>2, <3>2, <3>3 DEF CountIsTheRun
  <2>6. CASE e.kind = "failure"
    <3>1. Run' = Run \cup {Len(applied) + 1}
      BY <1>4, <2>1, <2>6, RunStep
    <3>2. Len(applied) + 1 \notin Run
      <4>1. Len(applied) + 1 \notin DOMAIN applied
        BY <1>4, <2>1, Delivery
      <4>. QED BY <4>1 DEF Run
    <3>3. IsFiniteSet(Run') /\ Cardinality(Run') = Cardinality(Run) + 1
      BY <2>2, <3>1, <3>2, FS_AddElement
    <3>4. /\ circuit'.failures = circuit.failures + 1
          /\ circuit'.phase = IF Opens(circuit) THEN "open" ELSE circuit.phase
          /\ circuit.phase # "open"
      BY <1>4, <2>1, <2>6, Outcome
    <3>5. (circuit'.phase = "closed") = (circuit'.failures < Threshold)
      <4>1. CASE circuit.phase = "half-open"
        BY <2>2, <3>4, <4>1 DEF Opens
      <4>2. CASE circuit.phase = "closed"
        BY <2>2, <3>4, <4>2 DEF Opens
      <4>. QED BY <2>2, <3>4, <4>1, <4>2 DEF Phases
    <3>. QED BY <2>2, <3>3, <3>4, <3>5 DEF CountIsTheRun
  <2>. QED BY <2>3, <2>4, <2>5, <2>6
<1>. QED
  BY <1>1, <1>2, <1>3, <1>4
  DEF CountInv, CircuitNext, CircuitStep, Begin, End, AskForProbe, Tick, circuitVars

\* Late, lost and repeated outcomes notwithstanding, the circuit counts the
\* applied failures in a row and is closed exactly while they stay below the
\* threshold.
THEOREM FailuresAreCounted == Spec => []CountIsTheRun
<1>1. Init => CountInv
  <2>1. Init => CircuitInv
    BY CircuitTypeStep
    DEF Init, CircuitInit, CircuitInv, OnePerId, Recorded, Increasing, OpenedByLast, ProbesAreSpaced, Closed0
  <2>2. Init => Run = {} /\ circuit.failures = 0 /\ circuit.phase = "closed"
    BY DEF Init, CircuitInit, Run, Closed0
  <2>. QED BY <2>1, <2>2, FS_EmptySet, CircuitAssumption DEF CountInv, CountIsTheRun
<1>2. CountInv /\ [Next]_vars => CountInv'
  BY CountStep, RoutingStepsAreCircuitSteps
<1>3. CountInv => CountIsTheRun
  BY DEF CountInv
<1>. QED BY <1>1, <1>2, <1>3, PTL DEF Spec
-----------------------------------------------------------------------------
(* A decision.                                                                *)

\* A set of instants has an earliest one.
LEMMA EarliestExists ==
  ASSUME NEW S \in SUBSET Nat, S # {}
  PROVE  Min(S) \in S /\ \A x \in S : Min(S) <= x
<1>1. PICK m \in S : \A y \in S : <<y, m>> \notin OpToRel(<, Nat)
  BY WFMin, NatLessThanWellFounded, Zenon
<1>2. \A y \in S : y \in Nat /\ m \in Nat
  OBVIOUS
<1>3. \A y \in S : ~(y < m)
  BY <1>1, <1>2, Zenon DEF OpToRel
<1>4. \A y \in S : m <= y
  BY <1>2, <1>3
<1>. QED BY <1>4 DEF Min

\* The instants at which the evidence of a candidate expires.
AllExpiries(r, c) == Expiries(r, c) \cup (IF c.local THEN {c.capacityStale, c.capacityAt + CapacityMs} ELSE {})

\* The validity of a decision has come exactly when one of them has passed.
LEMMA ValidUntilIsFirst ==
  ASSUME NEW r \in Requests, NEW c \in r.candidates, NEW t \in Nat
  PROVE  t <= ValidUntil(r, c) <=> \A x \in AllExpiries(r, c) : t <= x
<1>1. AllExpiries(r, c) \subseteq Nat /\ AllExpiries(r, c) # {}
  <2>1. Expiries(r, c) \subseteq Nat /\ c.refreshAfter \in Expiries(r, c)
    BY RoutingAssumption DEF Expiries
  <2>2. (IF c.local THEN {c.capacityStale, c.capacityAt + CapacityMs} ELSE {}) \subseteq Nat
    BY RoutingAssumption
  <2>. QED BY <2>1, <2>2 DEF AllExpiries
<1>2. ValidUntil(r, c) = Min(AllExpiries(r, c))
  BY DEF ValidUntil, AllExpiries
<1>3. /\ ValidUntil(r, c) \in AllExpiries(r, c)
      /\ \A x \in AllExpiries(r, c) : ValidUntil(r, c) <= x
  BY <1>1, <1>2, EarliestExists
<1>. QED BY <1>1, <1>3

\* What was feasible once stays so exactly while no evidence has expired and
\* the deadline can be met.
LEMMA FeasibilityEnds ==
  ASSUME NEW r \in Requests, NEW c \in r.candidates, NEW phase,
         NEW made \in Nat, NEW t \in Nat, made <= t, Feasible(r, c, made, phase)
  PROVE  Feasible(r, c, t, phase) <=> t <= ValidUntil(r, c) /\ InTime(r, c, t)
<1>. USE RoutingAssumption
<1>1. /\ c.generatedAt <= made /\ c.checkedAt <= made /\ c.quotaAt <= made
      /\ c.local => c.capacityAt <= made
      /\ c.agent => c.verifiedAt <= made
      /\ c.suits /\ CircuitAdmits(r, c, phase)
  BY DEF Feasible, CatalogFits, RuntimeFits, Fresh
<1>2. Feasible(r, c, t, phase) <=>
        /\ t <= c.refreshAfter /\ t <= c.generatedAt + CatalogMs
        /\ t <= c.checkedAt + HealthMs
        /\ t <= c.quotaStale /\ t <= c.quotaAt + QuotaMs
        /\ c.local => t <= c.capacityStale /\ t <= c.capacityAt + CapacityMs
        /\ c.agent => t <= c.verifiedAt + SecureMs
        /\ InTime(r, c, t)
  <2>1. CatalogFits(c, t) <=> t <= c.refreshAfter /\ t <= c.generatedAt + CatalogMs
    BY <1>1 DEF CatalogFits
  <2>2. t - c.checkedAt <= HealthMs <=> t <= c.checkedAt + HealthMs
    OBVIOUS
  <2>3. Fresh(t, c.quotaAt, c.quotaStale, QuotaMs) <=> t <= c.quotaStale /\ t <= c.quotaAt + QuotaMs
    BY <1>1 DEF Fresh
  <2>4. c.local => (Fresh(t, c.capacityAt, c.capacityStale, CapacityMs)
                      <=> t <= c.capacityStale /\ t <= c.capacityAt + CapacityMs)
    BY <1>1 DEF Fresh
  <2>5. c.agent => (t - c.verifiedAt <= SecureMs <=> t <= c.verifiedAt + SecureMs)
    OBVIOUS
  <2>6. c.checkedAt <= t /\ (c.agent => c.verifiedAt <= t)
    BY <1>1
  <2>. QED BY <1>1, <2>1, <2>2, <2>3, <2>4, <2>5, <2>6 DEF Feasible, RuntimeFits
<1>3. InTime(r, c, t) => (r.deadline # Never => t <= r.deadline)
  BY DEF InTime
<1>4. (\A x \in AllExpiries(r, c) : t <= x) <=>
        /\ t <= c.refreshAfter /\ t <= c.generatedAt + CatalogMs
        /\ t <= c.checkedAt + HealthMs
        /\ t <= c.quotaStale /\ t <= c.quotaAt + QuotaMs
        /\ c.local => t <= c.capacityStale /\ t <= c.capacityAt + CapacityMs
        /\ c.agent => t <= c.verifiedAt + SecureMs
        /\ r.deadline # Never => t <= r.deadline
  BY DEF AllExpiries, Expiries
<1>. QED BY <1>2, <1>3, <1>4, ValidUntilIsFirst

\* A held decision was made at an instant, not a later one than now, at which
\* its primary was feasible, and names when the evidence of the primary expires.
HeldIsJustified ==
  decision # NoDecision =>
    /\ decision.request \in Requests
    /\ ToSet(decision.choices) \subseteq decision.request.candidates
    /\ Head(decision.choices) \in decision.request.candidates
    /\ decision.phase \in Phases
    /\ decision.validUntil = ValidUntil(decision.request, Head(decision.choices))
    /\ \E made \in 0 .. now :
         Feasible(decision.request, Head(decision.choices), made, decision.phase)

DecisionInv == CircuitTypeOK /\ HeldIsJustified

\* The primary of a decision is the best feasible candidate.
LEMMA PrimaryIsFirst ==
  ASSUME NEW r \in Requests, NEW t, NEW phase, NEW ranking \in Rankings(r, t, phase), ranking # <<>>
  PROVE  /\ Head(Chosen(r, ranking)) = Head(ranking)
         /\ Head(ranking) \in r.candidates
         /\ Feasible(r, Head(ranking), t, phase)
         /\ ToSet(Chosen(r, ranking)) \subseteq r.candidates
<1>. DEFINE feasible == {c \in r.candidates : Feasible(r, c, t, phase)}
            n == Cardinality(feasible)
            wanted == 1 + (IF r.allowFallbacks THEN MaximumFallbacks ELSE 0)
            m == IF wanted < Len(ranking) THEN wanted ELSE Len(ranking)
<1>1. n \in Nat /\ ranking \in [1 .. n -> feasible]
  <2>1. IsFiniteSet(feasible)
    BY RoutingAssumption, FS_Subset
  <2>. QED BY <2>1, FS_CardinalityType DEF Rankings
<1>. HIDE DEF feasible, n
<1>2. ranking \in Seq(feasible) /\ Len(ranking) = n
  BY <1>1
<1>3. Len(ranking) \in Nat /\ Len(ranking) >= 1 /\ Head(ranking) = ranking[1] /\ ranking[1] \in feasible
  BY <1>1, <1>2
<1>4. wanted \in Nat /\ wanted >= 1
  BY RoutingAssumption
<1>. HIDE DEF wanted
<1>5. m \in 1 .. Len(ranking)
  BY <1>3, <1>4
<1>. HIDE DEF m
<1>6. /\ SubSeq(ranking, 1, m) \in Seq(feasible) /\ Len(SubSeq(ranking, 1, m)) = m
      /\ \A i \in 1 .. m : SubSeq(ranking, 1, m)[i] = ranking[i]
  BY <1>2, <1>3, <1>5
<1>7. Chosen(r, ranking) = SubSeq(ranking, 1, m)
  BY DEF Chosen, m, wanted
<1>8. Head(Chosen(r, ranking)) = ranking[1]
  <2>1. SubSeq(ranking, 1, m) # <<>> /\ 1 \in 1 .. m
    BY <1>5, <1>6
  <2>. QED BY <2>1, <1>6, <1>7
<1>9. ToSet(Chosen(r, ranking)) \subseteq feasible
  BY <1>6, <1>7 DEF ToSet
<1>. QED BY <1>3, <1>8, <1>9 DEF feasible

\* Every step keeps what a held decision rests on.
LEMMA DecisionInvStep ==
  /\ Init => DecisionInv
  /\ DecisionInv /\ [Next]_vars => DecisionInv'
<1>1. Init => DecisionInv
  BY CircuitTypeStep DEF Init, DecisionInv, HeldIsJustified
<1>2. ASSUME DecisionInv, [Next]_vars PROVE DecisionInv'
  <2>1. CircuitTypeOK /\ CircuitTypeOK' /\ now \in Nat
    BY <1>2, CircuitTypeStep, RoutingStepsAreCircuitSteps, CircuitAssumption DEF DecisionInv, CircuitTypeOK
  <2>2. now' \in Nat /\ now <= now'
    BY <1>2, <2>1
    DEF Next, vars, Route, Dispatch, Drop, CircuitStep, Begin, End, AskForProbe, Deliver, Tick, circuitVars
  <2>3. CASE UNCHANGED decision
    <3>1. 0 .. now \subseteq 0 .. now'
      BY <2>1, <2>2
    <3>. QED BY <1>2, <2>1, <2>3, <3>1 DEF DecisionInv, HeldIsJustified
  <2>4. CASE decision' = NoDecision
    BY <2>1, <2>4 DEF DecisionInv, HeldIsJustified
  <2>5. ASSUME NEW r \in Requests, Route(r) PROVE DecisionInv'
    <3>1. PICK ranking \in Rankings(r, now, circuit.phase) :
            /\ ranking # <<>>
            /\ decision' = [choices |-> Chosen(r, ranking), request |-> r, phase |-> circuit.phase,
                            validUntil |-> ValidUntil(r, Head(ranking))]
            /\ UNCHANGED circuitVars
      BY <2>5 DEF Route
    <3>2. /\ Head(decision'.choices) = Head(ranking) /\ Head(ranking) \in r.candidates
          /\ Feasible(r, Head(ranking), now, circuit.phase)
          /\ ToSet(decision'.choices) \subseteq r.candidates
      BY <3>1, PrimaryIsFirst
    <3>3. now \in 0 .. now' /\ circuit.phase \in Phases
      BY <2>1, <2>2 DEF CircuitTypeOK
    <3>. QED BY <2>1, <3>1, <3>2, <3>3 DEF DecisionInv, HeldIsJustified
  <2>. QED BY <1>2, <2>3, <2>4, <2>5 DEF Next, vars, Dispatch, Drop
<1>. QED BY <1>1, <1>2

\* The router's decisions keep their type too.
THEOREM RoutingTypeCorrect == Spec => []TypeOK
<1>1. DecisionInv => TypeOK
  BY DEF DecisionInv, HeldIsJustified, TypeOK
<1>. QED BY <1>1, DecisionInvStep, PTL DEF Spec

\* However long a decision is held, its validity ends exactly when the evidence
\* for its primary no longer supports it, the latency before a deadline aside.
THEOREM DecisionsExpireWithEvidence == Spec => []ValidityIsExact
<1>1. DecisionInv => ValidityIsExact
  <2>. SUFFICES ASSUME DecisionInv, decision # NoDecision
                PROVE  LET r == decision.request  c == Head(decision.choices)
                       IN (now <= decision.validUntil /\ InTime(r, c, now)) = Feasible(r, c, now, decision.phase)
    BY DEF ValidityIsExact
  <2>1. now \in Nat
    BY CircuitAssumption DEF DecisionInv, CircuitTypeOK
  <2>2. PICK made \in 0 .. now : Feasible(decision.request, Head(decision.choices), made, decision.phase)
    BY DEF DecisionInv, HeldIsJustified
  <2>3. made \in Nat /\ made <= now
    BY <2>1
  <2>4. Feasible(decision.request, Head(decision.choices), now, decision.phase)
          <=> now <= decision.validUntil /\ InTime(decision.request, Head(decision.choices), now)
    BY <2>1, <2>2, <2>3, FeasibilityEnds DEF DecisionInv, HeldIsJustified
  <2>5. Feasible(decision.request, Head(decision.choices), now, decision.phase) \in BOOLEAN
    BY DEF Feasible
  <2>. QED BY <2>4, <2>5
<1>. QED BY <1>1, DecisionInvStep, PTL DEF Spec
=============================================================================
