------------------------------ MODULE TaskGraph ------------------------------
(***************************************************************************)
(* The task-graph aggregate of packages/task-graph/src/task-graph.ts: a    *)
(* DAG of tasks that is planned, sealed and then executed.  One action per *)
(* mutating method of class TaskGraph; a method that throws leaves the     *)
(* aggregate as it was, so its refusals are the guards below.              *)
(*                                                                         *)
(* The Map of MutableTask records is the set `added' of its keys and one   *)
(* total function per field; a key that is not in the map has the default  *)
(* values.  A dependency list is the set of its members: parsing refuses   *)
(* duplicates and nothing but message wording depends on its order.        *)
(* Titles, kinds, descriptions, metadata, priorities and reasons do not    *)
(* take part in any transition and are left out.                           *)
(***************************************************************************)
EXTENDS Integers, FiniteSets

CONSTANTS
  TaskIds,                 \* identifiers a caller may give to a task
  Artifacts,               \* output artifact identifiers
  Failures,                \* TaskFailure values
  NoFailure,               \* the null failure
  MaxTasks,                \* TASK_GRAPH_LIMITS.maxTasks
  MaxDependenciesPerTask,  \* TASK_GRAPH_LIMITS.maxDependenciesPerTask
  MaxEdges,                \* TASK_GRAPH_LIMITS.maxEdges
  MaxDepth,                \* TASK_GRAPH_LIMITS.maxDepth
  MaxOutputArtifacts,      \* TASK_GRAPH_LIMITS.maxOutputArtifactsPerTask
  MaxSequence,             \* MAX_SEQUENCE, the largest safe integer
  MaxTime                  \* bound: the latest reading of the clock

ASSUME TaskGraphAssumption ==
  /\ IsFiniteSet(TaskIds)
  /\ NoFailure \notin Failures
  /\ MaxTasks \in Nat /\ MaxDependenciesPerTask \in Nat
  /\ MaxEdges \in Nat /\ MaxDepth \in Nat /\ MaxOutputArtifacts \in Nat
  /\ MaxSequence \in Nat /\ MaxTime \in Nat

VARIABLES
  added,          \* keys of #tasks
  deps,           \* task.dependencies
  status,         \* task.status
  blockedBy,      \* task.blockedBy
  outputs,        \* task.outputArtifactIds
  failure,        \* task.failure
  order,          \* task.order
  taskCreatedAt,  \* task.createdAt
  taskUpdatedAt,  \* task.updatedAt
  nextOrder,      \* #nextOrder
  version,        \* #version
  eventSequence,  \* #eventSequence
  sealed,         \* #sealed
  createdAt,      \* #createdAt
  updatedAt       \* #updatedAt

topology == <<added, deps, order, nextOrder, taskCreatedAt, createdAt>>
outcome  == <<outputs, failure>>
counters == <<version, eventSequence, updatedAt>>
vars     == <<topology, outcome, counters, status, blockedBy, taskUpdatedAt, sealed>>

Statuses == {"pending", "ready", "running", "waiting", "needs_resolution",
             "succeeded", "failed", "cancelled", "blocked"}
Unsuccessful == {"failed", "cancelled", "blocked"}
Terminal     == {"succeeded"} \cup Unsuccessful
GraphStatuses == {"planning", "active", "succeeded", "failed", "cancelled"}

Times == 0 .. MaxTime

(***************************************************************************)
(* The shape of the dependency graph                                       *)
(***************************************************************************)

\* assertGraphEdgeLimit counts the members of every dependency list.
Edges(ids, dp) == {e \in ids \X ids : e[2] \in dp[e[1]]}

\* rank is a certificate that topologicalTaskIds does not throw: a depth in
\* 1..MaxDepth for every task, above the depths of all its dependencies.
\* One exists exactly when there is no cycle and no chain is too long.
Ranks(rank, ids, dp) ==
  /\ rank \in [ids -> 1 .. MaxDepth]
  /\ \A t \in ids : \A d \in dp[t] : rank[d] < rank[t]

WellFormed(ids, dp) ==
  /\ Cardinality(Edges(ids, dp)) <= MaxEdges
  /\ \E rank \in [ids -> 1 .. MaxDepth] : Ranks(rank, ids, dp)

(***************************************************************************)
(* Status of the whole graph and the common parts of every mutation        *)
(***************************************************************************)

\* #calculateGraphStatus
GraphStatus ==
  IF ~sealed THEN "planning"
  ELSE IF \A t \in added : status[t] = "succeeded" THEN "succeeded"
  ELSE IF \E t \in added : status[t] \notin Terminal THEN "active"
  ELSE IF \E t \in added : status[t] = "failed" THEN "failed"
  ELSE "cancelled"

\* #assertExpectedVersion: room is kept for the largest number of events one
\* command may emit.
HasSequenceRoom ==
  /\ version < MaxSequence
  /\ eventSequence <= MaxSequence - (MaxTasks + 3)

\* #readTimestamp: a clock that moved backwards is refused.
ClockReads(stamp) == stamp \in Times /\ stamp >= updatedAt

\* #commit: one version, one sequence number per event, and one more event
\* when the status of the graph changed.
Commit(stamp, events) ==
  /\ version' = version + 1
  /\ updatedAt' = stamp
  /\ eventSequence' = eventSequence + events
                      + (IF GraphStatus' # GraphStatus THEN 1 ELSE 0)

(***************************************************************************)
(* #reconcilePendingTasks walks the pending tasks in topological order: a  *)
(* task is blocked as soon as one dependency is unsuccessful, blocked ones *)
(* included, and ready once all have succeeded.  Because every dependency  *)
(* is visited before its dependents, the set B of tasks the walk blocks is *)
(* the one that satisfies Blocks (module TopologicalWalk checks that the   *)
(* walk computes it).  st and bb are the statuses and blockers before the  *)
(* walk, `touched' the tasks the method itself has already updated.        *)
(***************************************************************************)
PendingIn(st) == {t \in added : st[t] = "pending"}

\* Mutated form of BlockersOf: misses the tasks the same walk has blocked.
BlockersBeforeWalk(t, st, B) == {d \in deps[t] : st[d] \in Unsuccessful}

BlockersOf(t, st, B) == {d \in deps[t] : st[d] \in Unsuccessful \/ d \in B}

Blocks(B, st) ==
  /\ B \subseteq PendingIn(st)
  /\ \A t \in PendingIn(st) : t \in B <=> BlockersOf(t, st, B) # {}

Released(B, st) ==
  {t \in PendingIn(st) \ B : \A d \in deps[t] : st[d] = "succeeded"}

ReconcilePendingTasks(st, bb, touched, stamp, events) ==
  \E B \in SUBSET PendingIn(st) :
    /\ Blocks(B, st)
    /\ status' = [t \in TaskIds |-> IF t \in B THEN "blocked"
                                    ELSE IF t \in Released(B, st) THEN "ready"
                                    ELSE st[t]]
    /\ blockedBy' = [t \in TaskIds |-> IF t \in B THEN BlockersOf(t, st, B)
                                       ELSE IF t \in Released(B, st) THEN {}
                                       ELSE bb[t]]
    /\ taskUpdatedAt' = [t \in TaskIds |->
                           IF t \in B \cup Released(B, st) \cup touched
                           THEN stamp ELSE taskUpdatedAt[t]]
    /\ Commit(stamp, events + Cardinality(B \cup Released(B, st)))

(***************************************************************************)
(* Planning                                                                *)
(***************************************************************************)

\* TaskGraph.create
Init ==
  /\ added = {}
  /\ deps = [t \in TaskIds |-> {}]
  /\ status = [t \in TaskIds |-> "pending"]
  /\ blockedBy = [t \in TaskIds |-> {}]
  /\ outputs = [t \in TaskIds |-> {}]
  /\ failure = [t \in TaskIds |-> NoFailure]
  /\ order = [t \in TaskIds |-> 0]
  /\ taskCreatedAt = [t \in TaskIds |-> 0]
  /\ taskUpdatedAt = [t \in TaskIds |-> 0]
  /\ nextOrder = 0
  /\ version = 0
  /\ eventSequence = 0
  /\ sealed = FALSE
  /\ createdAt \in Times
  /\ updatedAt = createdAt

\* The position of every definition of the batch in the caller's array.
Arrangements(batch) ==
  {p \in [batch -> 0 .. Cardinality(batch) - 1] :
     \A s, t \in batch : p[s] = p[t] => s = t}

\* addTask, addTasks: definitions of a batch may depend on one another.
AddTasks(batch, wanted, position, stamp) ==
  LET ids == added \cup batch
      dp  == [t \in TaskIds |-> IF t \in batch THEN wanted[t] ELSE deps[t]]
  IN
  /\ ~sealed
  /\ HasSequenceRoom
  /\ batch # {} /\ batch \cap added = {}
  /\ Cardinality(added) + Cardinality(batch) <= MaxTasks
  /\ ClockReads(stamp)
  /\ \A t \in batch : /\ t \notin wanted[t]
                      /\ wanted[t] \subseteq ids
                      /\ Cardinality(wanted[t]) <= MaxDependenciesPerTask
  /\ WellFormed(ids, dp)
  /\ added' = ids
  /\ deps' = dp
  /\ order' = [t \in TaskIds |-> IF t \in batch THEN nextOrder + position[t]
                                 ELSE order[t]]
  /\ taskCreatedAt' = [t \in TaskIds |-> IF t \in batch THEN stamp
                                         ELSE taskCreatedAt[t]]
  /\ taskUpdatedAt' = [t \in TaskIds |-> IF t \in batch THEN stamp
                                         ELSE taskUpdatedAt[t]]
  /\ nextOrder' = nextOrder + Cardinality(batch)
  /\ UNCHANGED <<status, blockedBy, outcome, sealed, createdAt>>
  /\ Commit(stamp, Cardinality(batch))

\* addDependency
AddDependency(t, d, stamp) ==
  LET dp == [deps EXCEPT ![t] = @ \cup {d}] IN
  /\ ~sealed
  /\ HasSequenceRoom
  /\ t \in added /\ d \in added
  /\ t # d
  /\ d \notin deps[t]
  /\ Cardinality(deps[t]) < MaxDependenciesPerTask
  /\ WellFormed(added, dp)
  /\ ClockReads(stamp)
  /\ deps' = dp
  /\ taskUpdatedAt' = [taskUpdatedAt EXCEPT ![t] = stamp]
  /\ UNCHANGED <<added, order, nextOrder, taskCreatedAt, createdAt,
                 status, blockedBy, outcome, sealed>>
  /\ Commit(stamp, 1)

\* seal
Seal(stamp) ==
  /\ ~sealed
  /\ HasSequenceRoom
  /\ added # {}
  /\ ClockReads(stamp)
  /\ sealed' = TRUE
  /\ UNCHANGED <<topology, outcome>>
  /\ ReconcilePendingTasks(status, blockedBy, {}, stamp, 1)

(***************************************************************************)
(* Execution                                                               *)
(***************************************************************************)

\* #assertExecution, #requireTask, #assertTransition
MayTransition(t, allowedFrom, stamp) ==
  /\ sealed
  /\ HasSequenceRoom
  /\ t \in added
  /\ status[t] \in allowedFrom
  /\ ClockReads(stamp)

\* #performTransition: no reconciliation, outcome data untouched.
PerformTransition(t, allowedFrom, target, stamp) ==
  /\ MayTransition(t, allowedFrom, stamp)
  /\ status' = [status EXCEPT ![t] = target]
  /\ taskUpdatedAt' = [taskUpdatedAt EXCEPT ![t] = stamp]
  /\ UNCHANGED <<topology, outcome, blockedBy, sealed>>
  /\ Commit(stamp, 1)

StartTask(t, stamp) == PerformTransition(t, {"ready"}, "running", stamp)
MarkTaskWaiting(t, stamp) == PerformTransition(t, {"running"}, "waiting", stamp)
MarkTaskNeedsResolution(t, stamp) ==
  PerformTransition(t, {"running"}, "needs_resolution", stamp)
ResumeTask(t, stamp) ==
  PerformTransition(t, {"waiting", "needs_resolution"}, "running", stamp)

\* The shared end of succeedTask, failTask and cancelTask: the outcome is
\* stored, the status set, the pending tasks reconciled.
Settle(t, target, out, fail, stamp) ==
  /\ outputs' = [outputs EXCEPT ![t] = out]
  /\ failure' = [failure EXCEPT ![t] = fail]
  /\ UNCHANGED <<topology, sealed>>
  /\ ReconcilePendingTasks([status EXCEPT ![t] = target],
                           [blockedBy EXCEPT ![t] = {}], {t}, stamp, 1)

\* succeedTask
SucceedTask(t, out, stamp) ==
  /\ MayTransition(t, {"running"}, stamp)
  /\ Cardinality(out) <= MaxOutputArtifacts
  /\ Settle(t, "succeeded", out, NoFailure, stamp)

\* failTask
FailTask(t, fail, stamp) ==
  /\ MayTransition(t, {"ready", "running", "waiting", "needs_resolution"}, stamp)
  /\ Settle(t, "failed", {}, fail, stamp)

\* Mutated form of CancelTask: the pending tasks are not reconciled.
CancelTaskWithoutReconcile(t, stamp) ==
  PerformTransition(t, {"pending", "ready", "running", "waiting", "needs_resolution"},
                    "cancelled", stamp)

\* cancelTask
CancelTask(t, stamp) ==
  /\ MayTransition(t, {"pending", "ready", "running", "waiting",
                       "needs_resolution"}, stamp)
  /\ Settle(t, "cancelled", {}, NoFailure, stamp)

\* Mutated form of CancelRemaining: cancels all that has not succeeded.
CancelUnsucceeded(stamp) ==
  LET cancellable == {t \in added : status[t] # "succeeded"} IN
  /\ sealed /\ HasSequenceRoom /\ cancellable # {} /\ ClockReads(stamp)
  /\ status' = [t \in TaskIds |-> IF t \in cancellable THEN "cancelled" ELSE status[t]]
  /\ blockedBy' = [t \in TaskIds |-> IF t \in cancellable THEN {} ELSE blockedBy[t]]
  /\ failure' = [t \in TaskIds |-> IF t \in cancellable THEN NoFailure ELSE failure[t]]
  /\ taskUpdatedAt' = [t \in TaskIds |-> IF t \in cancellable THEN stamp
                                         ELSE taskUpdatedAt[t]]
  /\ UNCHANGED <<topology, sealed, outputs>>
  /\ Commit(stamp, Cardinality(cancellable))

\* cancelRemaining: every task that is not terminal, without reconciliation.
CancelRemaining(stamp) ==
  LET cancellable == {t \in added : status[t] \notin Terminal} IN
  /\ sealed
  /\ HasSequenceRoom
  /\ cancellable # {}
  /\ ClockReads(stamp)
  /\ status' = [t \in TaskIds |-> IF t \in cancellable THEN "cancelled"
                                  ELSE status[t]]
  /\ blockedBy' = [t \in TaskIds |-> IF t \in cancellable THEN {}
                                     ELSE blockedBy[t]]
  /\ outputs' = [t \in TaskIds |-> IF t \in cancellable THEN {} ELSE outputs[t]]
  /\ failure' = [t \in TaskIds |-> IF t \in cancellable THEN NoFailure
                                   ELSE failure[t]]
  /\ taskUpdatedAt' = [t \in TaskIds |-> IF t \in cancellable THEN stamp
                                         ELSE taskUpdatedAt[t]]
  /\ UNCHANGED <<topology, sealed>>
  /\ Commit(stamp, Cardinality(cancellable))

(***************************************************************************)
(* Snapshots: what parseSnapshot demands of the snapshot toSnapshot would  *)
(* produce in the current state                                            *)
(***************************************************************************)

\* The counters, timestamps and positions checked by parseSnapshot.
SnapshotEnvelopeValid ==
  /\ version \in 0 .. MaxSequence /\ eventSequence \in 0 .. MaxSequence
  /\ createdAt <= updatedAt
  /\ \A t \in added : createdAt <= taskCreatedAt[t]
                      /\ taskCreatedAt[t] <= taskUpdatedAt[t]
                      /\ taskUpdatedAt[t] <= updatedAt
  /\ \A n \in 0 .. Cardinality(added) - 1 : \E t \in added : order[t] = n
  /\ \A s, t \in added : order[s] = order[t] => s = t
  /\ version <= eventSequence
  /\ added = {} => version = 0 /\ eventSequence = 0 /\ ~sealed
  /\ added # {} => version # 0
  /\ sealed => version >= 2
  /\ updatedAt = createdAt \/ \E t \in added : taskUpdatedAt[t] = updatedAt
  /\ \A t \in added : deps[t] \subseteq added
  /\ WellFormed(added, deps)

\* validateHydratedTaskStates, for one task of an unsealed graph ...
PlannedTaskValid(t) ==
  status[t] = "pending" /\ blockedBy[t] = {} /\ outputs[t] = {} /\ failure[t] = NoFailure

\* ... and for one task of a sealed graph.
SealedTaskValid(t) ==
  LET unsuccessful == {d \in deps[t] : status[d] \in Unsuccessful}
      allSucceeded == \A d \in deps[t] : status[d] = "succeeded"
  IN
  /\ status[t] = "pending" => ~allSucceeded /\ unsuccessful = {}
  /\ status[t] \in {"ready", "running", "waiting", "needs_resolution",
                    "succeeded", "failed"} => allSucceeded
  /\ IF status[t] = "blocked"
     THEN blockedBy[t] # {} /\ blockedBy[t] \subseteq unsuccessful
     ELSE blockedBy[t] = {}
  /\ (status[t] = "failed") <=> (failure[t] # NoFailure)
  /\ outputs[t] # {} => status[t] = "succeeded"

HydratedTaskStatesValid ==
  \A t \in added : IF sealed THEN SealedTaskValid(t) ELSE PlannedTaskValid(t)

\* hydrate(toSnapshot()): a restart.  The constructor recomputes #nextOrder.
Hydrate ==
  /\ SnapshotEnvelopeValid
  /\ HydratedTaskStatesValid
  /\ \/ added = {} /\ nextOrder' = 0
     \/ \E last \in added : /\ \A t \in added : order[t] <= order[last]
                            /\ nextOrder' = order[last] + 1
  /\ UNCHANGED <<added, deps, order, taskCreatedAt, createdAt, outcome, counters,
                 status, blockedBy, taskUpdatedAt, sealed>>

PlanningStep(stamp) ==
  \/ \E batch \in SUBSET (TaskIds \ added) :
       \E wanted \in [batch -> SUBSET (added \cup batch)] :
         \E position \in Arrangements(batch) :
           AddTasks(batch, wanted, position, stamp)
  \/ \E t, d \in TaskIds : AddDependency(t, d, stamp)
  \/ Seal(stamp)

TaskStep(t, stamp) ==
  \/ StartTask(t, stamp)
  \/ MarkTaskWaiting(t, stamp)
  \/ MarkTaskNeedsResolution(t, stamp)
  \/ ResumeTask(t, stamp)
  \/ \E out \in SUBSET Artifacts : SucceedTask(t, out, stamp)
  \/ \E fail \in Failures : FailTask(t, fail, stamp)
  \/ CancelTask(t, stamp)

Next ==
  \/ \E stamp \in Times : PlanningStep(stamp)
  \/ \E stamp \in Times, t \in TaskIds : TaskStep(t, stamp)
  \/ \E stamp \in Times : CancelRemaining(stamp)
  \/ Hydrate

Spec == Init /\ [][Next]_vars

-----------------------------------------------------------------------------
(***************************************************************************)
(* Properties                                                              *)
(***************************************************************************)

\* The type of every field of the aggregate.
TypeOK ==
  /\ added \subseteq TaskIds
  /\ deps \in [TaskIds -> SUBSET TaskIds]
  /\ status \in [TaskIds -> Statuses]
  /\ blockedBy \in [TaskIds -> SUBSET TaskIds]
  /\ outputs \in [TaskIds -> SUBSET Artifacts]
  /\ failure \in [TaskIds -> Failures \cup {NoFailure}]
  /\ order \in [TaskIds -> Nat]
  /\ taskCreatedAt \in [TaskIds -> Times]
  /\ taskUpdatedAt \in [TaskIds -> Times]
  /\ nextOrder \in Nat /\ version \in Nat /\ eventSequence \in Nat
  /\ sealed \in BOOLEAN
  /\ createdAt \in Times /\ updatedAt \in Times

\* Whatever sequence of methods produced it, a snapshot of the aggregate is
\* one that hydrate accepts: parseSnapshot and validateHydratedTaskStates
\* never refuse a state the mutators can reach.
SnapshotRoundTrips == SnapshotEnvelopeValid /\ HydratedTaskStatesValid

\* A sealed graph is never stuck: while a task is pending, some task is
\* ready or under way, so reconcilePendingTasks never forgets to release or
\* to block a task that nothing else will wake.
PendingIsNeverStuck ==
  sealed /\ (\E t \in added : status[t] = "pending")
    => \E t \in added : status[t] \in {"ready", "running", "waiting", "needs_resolution"}

\* The reserve of MAX_TASKS + 3 numbers that #assertExpectedVersion keeps is
\* enough for the largest batch of events one #commit emits: no sequence
\* number passes the safe-integer limit.
SequencesStaySafe == version <= MaxSequence /\ eventSequence <= MaxSequence

\* A settled task is settled for good: no method, reconciliation of another
\* task or mass cancellation changes its status, outputs, failure or
\* blockers.
SettledForGood ==
  [][\A t \in added : status[t] \in Terminal =>
       /\ status'[t] = status[t] /\ outputs'[t] = outputs[t]
       /\ failure'[t] = failure[t] /\ blockedBy'[t] = blockedBy[t]]_vars
=============================================================================
