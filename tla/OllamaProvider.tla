--------------------------- MODULE OllamaProvider ---------------------------
(***************************************************************************)
(* The Ollama provider: start() of provider.ts, from the catalog through   *)
(* the capacity manager of capacity.ts, the transport and the pump to the  *)
(* release of the lease, raced by admission timeouts, aborts, cancels and  *)
(* close().                                                                *)
(*                                                                         *)
(* Code between two awaits is one action.  What the server sends and what  *)
(* validation decides is a choice; the records of a stream are left out,   *)
(* since only its end changes shared state.  The operation controller is   *)
(* reduced to its outcome (ProviderOperation has the rest).  Observers do  *)
(* not throw here, and the ownership of loaded models, which only the      *)
(* residency calls read, is left out.                                      *)
(***************************************************************************)
EXTENDS Integers, FiniteSets, SequencesExt

CONSTANTS
  Requests,       \* calls of start()
  Models,
  ModelOf,        \* the catalog entry a request is for
  Size,           \* sizeBytes of a model
  Configurations  \* the validated adapter configurations to look at: global and
                  \* per-model concurrency, byte budget, margin, queue limit

ASSUME ProviderAssumption ==
  /\ IsFiniteSet(Requests) /\ ModelOf \in [Requests -> Models]
  /\ Size \in [Models -> Nat]
  /\ Configurations \subseteq
       [max : Nat \ {0}, perModel : [Models -> Nat \ {0}], budget : Nat, margin : Nat, queue : Nat]

VARIABLES
  config,    \* configuration
  pc,        \* where each start() or its pump awaits
  op,        \* terminal outcome of each operation controller
  aborted,   \* requests whose caller aborted its signal
  queue,     \* queue of the capacity manager
  capacity,  \* activeCount, reservedBytes, activeByModel
  closing,   \* close(): open, cancelling, draining or closed
  awaits     \* what close() still has to cancel, or awaits

ollamaVars == <<config, pc, op, aborted, queue, capacity, closing, awaits>>

Stages == {"idle", "discovering", "queued", "admitted", "requesting",
           "responded", "streaming", "ending", "done", "refused"}
Outcomes == {"none", "settled", "cancelled"}
Holding == {"admitted", "requesting", "responded", "streaming", "ending"}
Over == {"done", "refused"}

Holders == {r \in Requests : pc[r] \in Holding}
\* pumps, and activeCancels until close() clears it
Pumps == {r \in Requests : pc[r] \in {"streaming", "ending"}}
closed == closing # "open"
capacityClosed == closing \in {"draining", "closed"}

OllamaInit ==
  /\ config \in Configurations
  /\ pc = [r \in Requests |-> "idle"] /\ op = [r \in Requests |-> "none"]
  /\ aborted = {} /\ queue = <<>>
  /\ capacity = [count |-> 0, bytes |-> 0, of |-> [m \in Models |-> 0]]
  /\ closing = "open" /\ awaits = {}

-----------------------------------------------------------------------------
(* The capacity manager                                                    *)

\* admissible
Admissible(r, c) ==
  /\ c.count < config.max
  /\ c.of[ModelOf[r]] < config.perModel[ModelOf[r]]
  /\ c.bytes + Size[ModelOf[r]] + config.margin <= config.budget

\* grant, for each of a set of requests
Charged(c, R) ==
  [count |-> c.count + Cardinality(R),
   bytes |-> c.bytes + SumFunction([r \in R |-> Size[ModelOf[r]]]),
   of    |-> [m \in Models |-> c.of[m] + Cardinality({r \in R : ModelOf[r] = m})]]

\* Mutated form of Refunded: the bytes stay reserved.
RefundedWithoutBytes(c, r) ==
  [count |-> c.count - 1, bytes |-> c.bytes, of |-> [c.of EXCEPT ![ModelOf[r]] = @ - 1]]

\* release, before it calls pump
Refunded(c, r) ==
  [count |-> c.count - 1, bytes |-> c.bytes - Size[ModelOf[r]],
   of    |-> [c.of EXCEPT ![ModelOf[r]] = @ - 1]]

FirstOf(q, n) == {q[i] : i \in 1 .. n}

\* pump: how much of the queue is let in; as long as the head fits, it is.
Admitted(q, c) ==
  CHOOSE n \in 0 .. Len(q) :
    /\ \A i \in 1 .. n : Admissible(q[i], Charged(c, FirstOf(q, i - 1)))
    /\ n < Len(q) => ~ Admissible(q[n + 1], Charged(c, FirstOf(q, n)))

\* The waiters R are let in and leave `rest' of the queue; r goes to a stage of
\* its own.
LetIn(R, rest, c, r, stage) ==
  /\ queue' = rest
  /\ capacity' = Charged(c, R)
  /\ pc' = [x \in Requests |-> IF x \in R THEN "admitted" ELSE IF x = r THEN stage ELSE pc[x]]

\* Mutated form of Pump: the newest waiter is looked at first.
PumpNewest(q, c, r, stage) ==
  IF q # <<>> /\ Admissible(Last(q), c)
    THEN LetIn({Last(q)}, Front(q), c, r, stage)
    ELSE LetIn({}, q, c, r, stage)

\* pump on queue q with the counters c.
Pump(q, c, r, stage) ==
  LET n == Admitted(q, c) IN LetIn(FirstOf(q, n), SubSeq(q, n + 1, Len(q)), c, r, stage)

\* settle of a waiter that is not let in
Settle(r) ==
  /\ \E i \in 1 .. Len(queue) : queue[i] = r /\ queue' = RemoveAt(queue, i)
  /\ pc' = [pc EXCEPT ![r] = "refused"]

\* acquire
Acquire(r) ==
  IF \/ capacityClosed
     \/ Size[ModelOf[r]] + config.margin > config.budget
     \/ r \in aborted
     \/ Len(queue) >= config.queue /\ ~ (queue = <<>> /\ Admissible(r, capacity))
    THEN pc' = [pc EXCEPT ![r] = "refused"] /\ UNCHANGED <<queue, capacity>>
    ELSE IF queue = <<>> /\ Admissible(r, capacity)
      THEN /\ capacity' = Charged(capacity, {r})
           /\ pc' = [pc EXCEPT ![r] = "admitted"]
           /\ UNCHANGED queue
      ELSE Pump(Append(queue, r), capacity, r, "queued")

\* The timers of a queued waiter: admission timeout and deadline.
AdmissionTimeout(r) ==
  /\ pc[r] = "queued"
  /\ Settle(r)
  /\ UNCHANGED <<op, aborted, capacity, closing, awaits, config>>

\* Mutated form of Release: the waiters are not looked at.
ReleaseWithoutPump(r) ==
  /\ capacity' = Refunded(capacity, r)
  /\ pc' = [pc EXCEPT ![r] = IF pc[r] = "ending" THEN "done" ELSE "refused"]
  /\ UNCHANGED queue

\* lease.release: from the pump's finally, or from a start() that fails.
Release(r) ==
  Pump(queue, Refunded(capacity, r), r, IF pc[r] = "ending" THEN "done" ELSE "refused")

-----------------------------------------------------------------------------
(* start()                                                                 *)

\* start, to the await of the catalog: it may be refused before.
Start(r) ==
  /\ pc[r] = "idle"
  /\ \/ pc' = [pc EXCEPT ![r] = "refused"]
     \/ ~ closed /\ pc' = [pc EXCEPT ![r] = "discovering"]
  /\ UNCHANGED <<op, aborted, queue, capacity, closing, awaits, config>>

\* The catalog cannot be had, or requireEligibleEntry or
\* validateRequestAgainstEntry refuses, or the request goes on to acquire.
Validate(r) ==
  /\ pc[r] = "discovering"
  /\ \/ /\ pc' = [pc EXCEPT ![r] = "refused"]
        /\ UNCHANGED <<queue, capacity>>
     \/ Acquire(r)
  /\ UNCHANGED <<op, aborted, closing, awaits, config>>

\* The lease is there: transport.requestStream.
RequestStream(r) ==
  /\ pc[r] = "admitted"
  /\ IF closing = "closed" \/ r \in aborted
       THEN Release(r)
       ELSE pc' = [pc EXCEPT ![r] = "requesting"] /\ UNCHANGED <<queue, capacity>>
  /\ UNCHANGED <<op, aborted, closing, awaits, config>>

\* The server answers; an aborted request is not answered any more.
Respond(r) ==
  /\ pc[r] = "requesting" /\ r \notin aborted /\ closing # "closed"
  /\ pc' = [pc EXCEPT ![r] = "responded"]
  /\ UNCHANGED <<op, aborted, queue, capacity, closing, awaits, config>>

\* requestStream throws, or the status is not a success.
RequestFails(r) ==
  /\ pc[r] \in {"requesting", "responded"}
  /\ Release(r)
  /\ UNCHANGED <<op, aborted, closing, awaits, config>>

\* The controller is made and the pump starts.
Open(r) ==
  /\ pc[r] = "responded"
  /\ pc' = [pc EXCEPT ![r] = "streaming"]
  /\ UNCHANGED <<op, aborted, queue, capacity, closing, awaits, config>>

-----------------------------------------------------------------------------
(* pump()                                                                  *)

\* The pump completes or fails the operation, or finds it cancelled.
PumpEnds(r) ==
  /\ pc[r] = "streaming"
  /\ pc' = [pc EXCEPT ![r] = "ending"]
  /\ op' = [op EXCEPT ![r] = IF @ = "none" THEN "settled" ELSE @]
  /\ UNCHANGED <<aborted, queue, capacity, closing, awaits, config>>

\* The finally after the pump.
Finish(r) ==
  /\ pc[r] = "ending"
  /\ Release(r)
  /\ UNCHANGED <<op, aborted, closing, awaits, config>>

\* controller.operation.cancel: only an operation under way can be cancelled.
CancelOperation(r) ==
  op' = [op EXCEPT ![r] = IF pc[r] = "streaming" /\ @ = "none" THEN "cancelled" ELSE @]

\* The caller cancels the operation.
Cancel(r) ==
  /\ pc[r] = "streaming" /\ op[r] = "none"
  /\ CancelOperation(r)
  /\ UNCHANGED <<pc, aborted, queue, capacity, closing, awaits, config>>

\* The caller aborts its signal.
Abort(r) ==
  /\ r \notin aborted /\ pc[r] \notin Over
  /\ aborted' = aborted \cup {r}
  /\ IF pc[r] = "queued" THEN Settle(r) ELSE UNCHANGED <<pc, queue>>
  /\ CancelOperation(r)
  /\ UNCHANGED <<capacity, closing, awaits, config>>

-----------------------------------------------------------------------------
(* close()                                                                 *)

\* capacity.close
CloseCapacity ==
  /\ pc' = [r \in Requests |-> IF pc[r] = "queued" THEN "refused" ELSE pc[r]]
  /\ queue' = <<>>

\* The loop over activeCancels, one await each, then the rest up to allSettled.
CloseFrom(rest) ==
  IF rest = {}
    THEN /\ CloseCapacity
         /\ closing' = "draining" /\ awaits' = Pumps
         /\ UNCHANGED op
    ELSE \E r \in rest :
         /\ CancelOperation(r)
         /\ closing' = "cancelling" /\ awaits' = rest \ {r}
         /\ UNCHANGED <<pc, queue>>

Close ==
  /\ ~ closed
  /\ CloseFrom(Pumps)
  /\ UNCHANGED <<aborted, capacity, config>>

CloseGoesOn ==
  /\ closing = "cancelling"
  /\ CloseFrom(awaits)
  /\ UNCHANGED <<aborted, capacity, config>>

\* The pumps have settled: transport.close.
CloseReturns ==
  /\ closing = "draining" /\ awaits \cap Pumps = {}
  /\ closing' = "closed" /\ awaits' = {}
  /\ UNCHANGED <<pc, op, aborted, queue, capacity, config>>

-----------------------------------------------------------------------------
\* What a start() or a pump does next; the server's part is bounded by the
\* timeout every request carries.
Advance(r) ==
  \/ Validate(r) \/ RequestStream(r) \/ Respond(r) \/ RequestFails(r) \/ Open(r)
  \/ PumpEnds(r) \/ Finish(r)

CloseAdvances == CloseGoesOn \/ CloseReturns

OllamaNext ==
  \/ \E r \in Requests : Start(r) \/ Advance(r) \/ AdmissionTimeout(r) \/ Cancel(r) \/ Abort(r)
  \/ Close \/ CloseAdvances

OllamaSpec == OllamaInit /\ [][OllamaNext]_ollamaVars

\* Promises that can settle do; nobody has to time out, cancel or close.
OllamaLiveSpec ==
  /\ OllamaSpec
  /\ \A r \in Requests : WF_ollamaVars(Advance(r))
  /\ WF_ollamaVars(CloseAdvances)

-----------------------------------------------------------------------------
\* The type of the provider's state.
OllamaTypeOK ==
  /\ config \in Configurations
  /\ pc \in [Requests -> Stages] /\ op \in [Requests -> Outcomes]
  /\ aborted \subseteq Requests /\ awaits \subseteq Requests
  /\ queue \in Seq(Requests) /\ Len(queue) <= config.queue
  /\ FirstOf(queue, Len(queue)) = {r \in Requests : pc[r] = "queued"}
  /\ \A i, j \in 1 .. Len(queue) : queue[i] = queue[j] => i = j
  /\ capacity \in [count : Int, bytes : Int, of : [Models -> Int]]
  /\ closing \in {"open", "cancelling", "draining", "closed"}

\* On every path out of start() and out of the pump the lease is given back
\* once: the counters are those of the requests that are between acquire and
\* release, and stay within the three limits of admission.
CapacityIsExact ==
  /\ capacity = Charged([count |-> 0, bytes |-> 0, of |-> [m \in Models |-> 0]], Holders)
  /\ capacity.count <= config.max
  /\ \A m \in Models : capacity.of[m] <= config.perModel[m]
  /\ capacity.count > 0 => capacity.bytes + config.margin <= config.budget

\* "Waiters queue strictly FIFO": nobody is let in past a waiter who is still
\* waiting, and nobody who waits changes places.
FirstComeFirstServed ==
  [][\A i, j \in 1 .. Len(queue) :
       i < j /\ pc'[queue[i]] = "queued" =>
         /\ pc'[queue[j]] # "admitted"
         /\ pc'[queue[j]] = "queued" =>
              \E k, l \in 1 .. Len(queue') : k < l /\ queue'[k] = queue[i] /\ queue'[l] = queue[j]]_ollamaVars

\* Once the capacity manager is closed nobody waits in it and nobody is let in,
\* whatever was on its way to it.
ClosedAdmitsNobody ==
  [][capacityClosed => queue' = <<>> /\ Holders' \subseteq Holders]_ollamaVars

\* Every start() is answered and every pump ends, with no help from a timeout,
\* a cancellation or close(): a waiter is never left behind.  And close() returns.
EveryStartSettles ==
  /\ \A r \in Requests : pc[r] # "idle" ~> pc[r] \in Over
  /\ closed ~> closing = "closed"

=============================================================================
