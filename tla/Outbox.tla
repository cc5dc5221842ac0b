------------------------------- MODULE Outbox -------------------------------
(***************************************************************************)
(* The transactional outbox: the state machine of                          *)
(* packages/persistence/src/outbox-logic.ts as the adapters apply it, with *)
(* the workers that claim messages, deliver them and report back.  Every   *)
(* store operation runs in its own transaction and is atomic here; module  *)
(* PersistenceAdapter models the transactions themselves.                  *)
(*                                                                         *)
(* Time is relative: availableIn and leaseLeft count the ticks until       *)
(* availableAt and leaseExpiresAt are at or before the adapter's clock, so *)
(* 0 means "not in the future".  attemptCount and the failure category are *)
(* written but never read by a transition and are left out.                *)
(***************************************************************************)
EXTENDS Integers, FiniteSets

CONSTANTS
  Messages,     \* message identifiers
  Keys,         \* idempotency keys
  KeyOf,        \* the key each message is enqueued with
  Owners,       \* workers; each claims under its own owner identifier
  NoOwner,      \* the null lease owner
  MaxDelay,     \* bound: the longest availability delay asked for
  MaxLease,     \* MAX_LEASE_DURATION_MS
  MaxLimit,     \* MAX_CLAIM_LIMIT
  MayCorrupt    \* messages whose stored payload may become damaged

ASSUME OutboxAssumption ==
  /\ IsFiniteSet(Messages)
  /\ KeyOf \in [Messages -> Keys]
  /\ NoOwner \notin Owners
  /\ MaxDelay \in Nat /\ MaxLease \in Nat \ {0} /\ MaxLimit \in Nat \ {0}
  /\ MayCorrupt \subseteq Messages

VARIABLES
  status,          \* message.status, or "absent"
  availableIn,     \* ticks until availableAt
  leaseOwner,      \* message.leaseOwner
  leaseLeft,       \* ticks until leaseExpiresAt
  sequence,        \* message.sequence
  outboxSequence,  \* state.outboxSequence
  corrupt,         \* messages whose payload fails verifyChecksum
  holds,           \* what each worker believes it has been given
  late             \* history: the workers that reported after a lease ran out

store == <<status, availableIn, leaseOwner, leaseLeft, sequence, outboxSequence>>
outboxVars  == <<store, corrupt, holds, late>>

Settled == {"acknowledged", "dead-lettered"}
Live    == {"pending", "leased"}

Handles == [msg : Messages, left : 0 .. MaxLease]

OutboxInit ==
  /\ status = [m \in Messages |-> "absent"]
  /\ availableIn = [m \in Messages |-> 0]
  /\ leaseOwner = [m \in Messages |-> NoOwner]
  /\ leaseLeft = [m \in Messages |-> 0]
  /\ sequence = [m \in Messages |-> 0]
  /\ outboxSequence = 0
  /\ corrupt = {}
  /\ holds = [w \in Owners |-> {}]
  /\ late = {}

\* outbox.enqueue: message identifier and idempotency key are both unique.
Enqueue(m, delay) ==
  /\ status[m] = "absent"
  /\ \A n \in Messages : status[n] # "absent" => KeyOf[n] # KeyOf[m]
  /\ status' = [status EXCEPT ![m] = "pending"]
  /\ availableIn' = [availableIn EXCEPT ![m] = delay]
  /\ outboxSequence' = outboxSequence + 1
  /\ sequence' = [sequence EXCEPT ![m] = outboxSequence + 1]
  /\ UNCHANGED <<leaseOwner, leaseLeft, corrupt, holds, late>>

\* Mutated form of IsClaimable: a lease that has not run out is ignored.
IsLeasedOrAvailable(m) ==
  \/ status[m] = "pending" /\ availableIn[m] = 0
  \/ status[m] = "leased"

\* Mutated form of IsClaimable: a lease never runs out.
IsPendingAvailable(m) == status[m] = "pending" /\ availableIn[m] = 0

\* isClaimable
IsClaimable(m) ==
  \/ status[m] = "pending" /\ availableIn[m] = 0
  \/ status[m] = "leased" /\ leaseLeft[m] = 0

\* The first `limit' claimable messages in enqueue order.
FirstClaimable(limit) ==
  LET claimable == {m \in Messages : IsClaimable(m)} IN
  {m \in claimable :
     Cardinality({n \in claimable : sequence[n] < sequence[m]}) < limit}

\* leaseExpiry: the lease runs out `lease' ticks from now.
LeaseExpiry(lease) == lease

\* outbox.claim, applyClaim.  One damaged payload among the messages read
\* makes the call throw and the transaction roll back.
Claim(w, limit, lease) ==
  LET chosen == FirstClaimable(limit) IN
  /\ chosen # {}
  /\ chosen \cap corrupt = {}
  /\ status' = [m \in Messages |-> IF m \in chosen THEN "leased" ELSE status[m]]
  /\ leaseOwner' = [m \in Messages |-> IF m \in chosen THEN w ELSE leaseOwner[m]]
  /\ leaseLeft' = [m \in Messages |-> IF m \in chosen THEN LeaseExpiry(lease)
                                     ELSE leaseLeft[m]]
  /\ holds' = [holds EXCEPT ![w] = @ \cup {[msg |-> m, left |-> LeaseExpiry(lease)]
                                             : m \in chosen}]
  /\ UNCHANGED <<availableIn, sequence, outboxSequence, corrupt, late>>

\* A worker reports on a message it was given and then forgets it, whatever
\* the answer.  A late report comes from a delivery that outlived its lease.
Reports(w, h) ==
  /\ h \in holds[w]
  /\ holds' = [holds EXCEPT ![w] = @ \ {h}]
  /\ late' = IF h.left = 0 THEN late \cup {w} ELSE late

\* requireLeasedByOwner: the owner is compared, the expiry is not.
RequireLeasedByOwner(m, w) ==
  /\ status[m] = "leased"
  /\ leaseOwner[m] = w
  /\ m \notin corrupt

ReleaseLease(m) ==
  /\ leaseOwner' = [leaseOwner EXCEPT ![m] = NoOwner]
  /\ leaseLeft' = [leaseLeft EXCEPT ![m] = 0]

\* applyAcknowledge
Acknowledge(w, h) ==
  /\ Reports(w, h)
  /\ RequireLeasedByOwner(h.msg, w)
  /\ status' = [status EXCEPT ![h.msg] = "acknowledged"]
  /\ ReleaseLease(h.msg)
  /\ UNCHANGED <<availableIn, sequence, outboxSequence, corrupt>>

\* Mutated form of ScheduleRetry: the status check is forgotten.
RetryAnything(w, h, delay) ==
  /\ Reports(w, h)
  /\ status' = [status EXCEPT ![h.msg] = "pending"]
  /\ availableIn' = [availableIn EXCEPT ![h.msg] = delay]
  /\ ReleaseLease(h.msg)
  /\ UNCHANGED <<sequence, outboxSequence, corrupt>>

\* applyScheduleRetry: retryAt is any timestamp, the past included.
ScheduleRetry(w, h, delay) ==
  /\ Reports(w, h)
  /\ RequireLeasedByOwner(h.msg, w)
  /\ status' = [status EXCEPT ![h.msg] = "pending"]
  /\ availableIn' = [availableIn EXCEPT ![h.msg] = delay]
  /\ ReleaseLease(h.msg)
  /\ UNCHANGED <<sequence, outboxSequence, corrupt>>

\* applyDeadLetter
DeadLetter(w, h) ==
  /\ Reports(w, h)
  /\ RequireLeasedByOwner(h.msg, w)
  /\ status' = [status EXCEPT ![h.msg] = "dead-lettered"]
  /\ ReleaseLease(h.msg)
  /\ UNCHANGED <<availableIn, sequence, outboxSequence, corrupt>>

\* A report the store refuses (OUTBOX_STATE_CONFLICT, CORRUPTION_DETECTED) or
\* answers without a change (the repeated acknowledgement).
ReportWithoutEffect(w, h) ==
  /\ Reports(w, h)
  /\ ~ RequireLeasedByOwner(h.msg, w)
  /\ UNCHANGED <<store, corrupt>>

\* A worker process dies with everything it was doing; it comes back under
\* the same owner identifier.
WorkerCrash(w) ==
  /\ holds[w] # {}
  /\ holds' = [holds EXCEPT ![w] = {}]
  /\ UNCHANGED <<store, corrupt, late>>

\* The stored text of a message changes under its checksum.
Damage(m) ==
  /\ m \in MayCorrupt \ corrupt
  /\ status[m] \in Live
  /\ corrupt' = corrupt \cup {m}
  /\ UNCHANGED <<store, holds, late>>

Less(n) == IF n = 0 THEN 0 ELSE n - 1

\* One tick of the adapter's clock.
Tick ==
  /\ \/ \E m \in Messages : availableIn[m] > 0 \/ leaseLeft[m] > 0
     \/ \E w \in Owners, h \in Handles : h \in holds[w] /\ h.left > 0
  /\ availableIn' = [m \in Messages |-> Less(availableIn[m])]
  /\ leaseLeft' = [m \in Messages |-> Less(leaseLeft[m])]
  /\ holds' = [w \in Owners |-> {[h EXCEPT !.left = Less(h.left)] : h \in holds[w]}]
  /\ UNCHANGED <<status, leaseOwner, sequence, outboxSequence, corrupt, late>>

Settles(m) ==
  \E w \in Owners : \E h \in holds[w] :
    h.msg = m /\ (Acknowledge(w, h) \/ DeadLetter(w, h))

OutboxNext ==
  \/ \E m \in Messages, delay \in 0 .. MaxDelay : Enqueue(m, delay)
  \/ \E w \in Owners, limit \in 1 .. MaxLimit, lease \in 1 .. MaxLease :
       Claim(w, limit, lease)
  \/ \E w \in Owners : \E h \in holds[w] :
       \/ Acknowledge(w, h)
       \/ \E delay \in 0 .. MaxDelay : ScheduleRetry(w, h, delay)
       \/ DeadLetter(w, h)
       \/ ReportWithoutEffect(w, h)
  \/ \E w \in Owners : WorkerCrash(w)
  \/ \E m \in Messages : Damage(m)
  \/ Tick

OutboxSpec == OutboxInit /\ [][OutboxNext]_outboxVars

\* Time passes, some worker keeps claiming the largest batch, and a message
\* that is handed out over and over is in the end acknowledged or given up:
\* the dispatcher's side of the contract.
OutboxFairness ==
  /\ WF_outboxVars(Tick)
  /\ WF_outboxVars(\E w \in Owners : Claim(w, MaxLimit, MaxLease))
  /\ \A m \in Messages : SF_outboxVars(Settles(m))

OutboxLiveSpec == OutboxSpec /\ OutboxFairness

-----------------------------------------------------------------------------
\* The type of the stored messages and of the workers' handles.
OutboxTypeOK ==
  /\ status \in [Messages -> {"absent"} \cup Live \cup Settled]
  /\ availableIn \in [Messages -> 0 .. MaxDelay]
  /\ leaseOwner \in [Messages -> Owners \cup {NoOwner}]
  /\ leaseLeft \in [Messages -> 0 .. MaxLease]
  /\ sequence \in [Messages -> Nat] /\ outboxSequence \in Nat
  /\ corrupt \subseteq Messages
  /\ holds \in [Owners -> SUBSET Handles]
  /\ late \subseteq Owners

Exclusive ==
  \A v, w \in Owners : \A g \in holds[v], h \in holds[w] :
    g.msg = h.msg /\ g.left > 0 /\ h.left > 0 => v = w /\ g = h

\* No two workers hold a lease on one message that neither has seen run out,
\* whoever crashes, as long as every report is made within its lease.
LeasesExclusive == late = {} => Exclusive

\* An acknowledged or dead-lettered message is final, whatever late or
\* repeated report arrives.
SettledForGood ==
  [][\A m \in Messages : status[m] \in Settled => status'[m] = status[m]]_outboxVars

\* No message is lost: whatever crashes and whoever reports late, what was
\* enqueued is in the end acknowledged or dead-lettered, unless a stored
\* payload was damaged.
EveryMessageSettles ==
  \A m \in Messages :
    status[m] \in Live ~> (status[m] \in Settled \/ corrupt # {})
=============================================================================
