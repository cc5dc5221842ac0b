---------------------------- MODULE CircuitBreaker ----------------------------
(* The circuit breaker of packages/router/src/circuit.ts: a state that a pure *)
(* transition takes from event to event.  Around it, the calls whose outcomes *)
(* are its events, and a delivery that may be late, repeated, reordered or    *)
(* lost.  One identity; events of another are refused at once.                *)
EXTENDS Integers, Sequences, FiniteSets

CONSTANTS Calls,     \* calls to the model, each with one outcome
          Probes,    \* requests to admit a probe
          Threshold, \* failureThreshold
          CoolDown,  \* coolDownMs
          Remembered,\* maximumRememberedEvents
          MaxTime    \* bound on the clock

ASSUME CircuitAssumption ==
  /\ Threshold \in Nat \ {0} /\ CoolDown \in Nat \ {0} /\ Remembered \in Nat \ {0}
  /\ MaxTime \in Nat
  /\ Calls \cap Probes = {}

Never == -1
Outcomes == {"success", "failure"}   \* retryable and terminal failures count alike
EventIds == Calls \cup Probes
Event == [id : EventIds, kind : Outcomes \cup {"admit-probe"}, at : 0..MaxTime]

VARIABLES
  circuit,  \* the stored state
  now,      \* the clock of whoever records events
  running,  \* the calls under way
  events,   \* the events recorded so far
  applied   \* history: the events that had an effect, in this order

circuitVars == <<circuit, now, running, events, applied>>

-----------------------------------------------------------------------------
Phases == {"closed", "open", "half-open"}

\* createCircuitBreakerState()
Closed0 == [phase |-> "closed", failures |-> 0, openedAt |-> Never, until |-> Never,
            probe |-> FALSE, lastAt |-> Never, ids |-> <<>>]

\* sealState(): the newest identifiers are remembered.
Newest(ids) == SubSeq(ids, Len(ids) - (IF Len(ids) < Remembered THEN Len(ids) ELSE Remembered) + 1, Len(ids))

\* What every accepted event leaves behind.
Sealed(s, e) == [s EXCEPT !.lastAt = e.at, !.ids = Newest(Append(s.ids, e.id))]

IsDuplicate(s, e) == \E i \in DOMAIN s.ids : s.ids[i] = e.id

\* Mutated form of IsLate: an event of the same instant is in order.
IsEarlier(s, e) == e.at < s.lastAt

IsLate(s, e) == e.at <= s.lastAt

MayProbe(s, e) == s.phase = "open" /\ e.at >= s.until

\* The events that have an effect; all others leave the state as it is.
IsApplicable(s, e) ==
  /\ ~IsDuplicate(s, e)
  /\ ~IsLate(s, e)
  /\ IF e.kind = "admit-probe" THEN MayProbe(s, e) ELSE s.phase # "open"

HalfOpen(s, e) == [Sealed(s, e) EXCEPT !.phase = "half-open", !.probe = TRUE]

\* Mutated form of AfterSuccess: only a probe's success clears the count.
AfterSuccessKept(s, e) ==
  [Sealed(s, e) EXCEPT !.phase = "closed", !.openedAt = Never, !.until = Never, !.probe = FALSE,
                       !.failures = IF s.phase = "half-open" THEN 0 ELSE @]

AfterSuccess(s, e) ==
  [Sealed(s, e) EXCEPT !.phase = "closed", !.failures = 0,
                       !.openedAt = Never, !.until = Never, !.probe = FALSE]

Opens(s) == s.phase = "half-open" \/ s.failures + 1 >= Threshold

\* Mutated form of AfterFailure: a circuit that opens again keeps its cool-down.
AfterFailureUncooled(s, e) ==
  IF Opens(s)
  THEN [Sealed(s, e) EXCEPT !.phase = "open", !.failures = @ + 1, !.openedAt = e.at, !.probe = FALSE,
                            !.until = IF s.phase = "half-open" THEN @ ELSE e.at + CoolDown]
  ELSE [Sealed(s, e) EXCEPT !.failures = @ + 1]

AfterFailure(s, e) ==
  IF Opens(s)
  THEN [Sealed(s, e) EXCEPT !.phase = "open", !.failures = @ + 1, !.openedAt = e.at, !.probe = FALSE,
                            !.until = e.at + CoolDown]
  ELSE [Sealed(s, e) EXCEPT !.failures = @ + 1]

\* transitionCircuitBreaker()
Transition(s, e) ==
  IF ~IsApplicable(s, e) THEN s
  ELSE CASE e.kind = "admit-probe" -> HalfOpen(s, e)
         [] e.kind = "success"     -> AfterSuccess(s, e)
         [] e.kind = "failure"     -> AfterFailure(s, e)

-----------------------------------------------------------------------------
CircuitInit ==
  /\ circuit = Closed0
  /\ now = 0
  /\ running = {}
  /\ events = {}
  /\ applied = <<>>

Recorded(id) == \E e \in events : e.id = id

\* A call to the model begins.
Begin(k) ==
  /\ k \notin running /\ ~Recorded(k)
  /\ running' = running \cup {k}
  /\ UNCHANGED <<circuit, now, events, applied>>

\* It ends, and its outcome is recorded with the time.
End(k) ==
  /\ k \in running
  /\ running' = running \ {k}
  /\ \E kind \in Outcomes : events' = events \cup {[id |-> k, kind |-> kind, at |-> now]}
  /\ UNCHANGED <<circuit, now, applied>>

\* Somebody asks for a probe.
AskForProbe(p) ==
  /\ ~Recorded(p)
  /\ events' = events \cup {[id |-> p, kind |-> "admit-probe", at |-> now]}
  /\ UNCHANGED <<circuit, now, running, applied>>

\* An event reaches the stored state: the first time or again, in any order.
Deliver(e) ==
  /\ circuit' = Transition(circuit, e)
  /\ applied' = IF IsApplicable(circuit, e) THEN Append(applied, e) ELSE applied
  /\ UNCHANGED <<now, running, events>>

Tick ==
  /\ now < MaxTime
  /\ now' = now + 1
  /\ UNCHANGED <<circuit, running, events, applied>>

CircuitStep ==
  \/ \E k \in Calls : End(k)
  \/ \E p \in Probes : AskForProbe(p)
  \/ \E e \in events : Deliver(e)
  \/ Tick

CircuitNext == CircuitStep \/ \E k \in Calls : Begin(k)

CircuitSpec == CircuitInit /\ [][CircuitNext]_circuitVars

-----------------------------------------------------------------------------
(* Properties *)

\* What parseCircuitBreakerState() accepts: the metadata agree with the phase.
\* A state that does not would be refused by the next transition.
StateParses(s) ==
  CASE s.phase = "closed"    -> s.openedAt = Never /\ s.until = Never /\ ~s.probe
    [] s.phase = "open"      -> s.openedAt # Never /\ s.until # Never /\ ~s.probe
    [] s.phase = "half-open" -> s.openedAt # Never /\ s.until # Never /\ s.probe

\* Every variable keeps its type.
CircuitTypeOK ==
  /\ circuit \in [phase : Phases, failures : Nat, openedAt : Nat \cup {Never},
                  until : Nat \cup {Never}, probe : BOOLEAN, lastAt : Nat \cup {Never},
                  ids : Seq(EventIds)]
  /\ StateParses(circuit)
  /\ now \in Nat
  /\ running \subseteq Calls
  /\ events \subseteq [id : EventIds, kind : Outcomes \cup {"admit-probe"}, at : Nat]
  /\ applied \in Seq(events)

\* Only so many identifiers are remembered, and events are delivered again
\* long after they were forgotten; still none has an effect twice.
CountedOnce == \A i, j \in DOMAIN applied : applied[i].id = applied[j].id => i = j

\* The failures applied since the last success.
Run == {i \in DOMAIN applied : /\ applied[i].kind = "failure"
                               /\ \A j \in i..Len(applied) : applied[j].kind # "success"}

\* Lost, late and repeated outcomes notwithstanding, the count is that of the
\* applied failures in a row, and the circuit is closed exactly while it stays
\* below the threshold.
CountIsTheRun ==
  /\ circuit.failures = Cardinality(Run)
  /\ (circuit.phase = "closed") = (circuit.failures < Threshold)

\* After any failure that leaves the circuit open, the cool-down passes before
\* a probe is admitted, also when it is a probe that failed.
ProbesAreSpaced ==
  \A i \in DOMAIN applied : i > 1 /\ applied[i].kind = "admit-probe" =>
    applied[i - 1].kind = "failure" /\ applied[i].at >= applied[i - 1].at + CoolDown
=============================================================================
