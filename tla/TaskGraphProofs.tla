--------------------------- MODULE TaskGraphProofs ---------------------------
(***************************************************************************)
(* Theorems about the task-graph aggregate, for every set of task          *)
(* identifiers and every limit, and about the loops of a commit, for any   *)
(* number of tasks.                                                        *)
(***************************************************************************)
EXTENDS TaskGraph, TopologicalWalk, FiniteSetTheorems, WellFoundedInduction, TLAPS

(***************************************************************************)
(* Facts about the sizes of sets of tasks                                  *)
(***************************************************************************)

\* Every set of tasks is finite, so its size is a natural number; a part of
\* it is no larger.
LEMMA TaskSetSize ==
  ASSUME NEW S \in SUBSET TaskIds, NEW T \in SUBSET S
  PROVE  /\ IsFiniteSet(S) /\ Cardinality(S) \in Nat
         /\ IsFiniteSet(T) /\ Cardinality(T) \in Nat
         /\ Cardinality(T) <= Cardinality(S)
<1>1. IsFiniteSet(S)
  BY TaskGraphAssumption, FS_Subset
<1>2. IsFiniteSet(T)
  BY <1>1, FS_Subset
<1>. QED
  BY <1>1, <1>2, FS_Subset, FS_CardinalityType

(***************************************************************************)
(* Type correctness                                                        *)
(***************************************************************************)

\* A commit keeps the counters natural numbers and the timestamp a reading
\* of the clock.
LEMMA CommitType ==
  ASSUME TypeOK, NEW stamp \in Times, NEW n \in Nat, Commit(stamp, n)
  PROVE  version' \in Nat /\ eventSequence' \in Nat /\ updatedAt' \in Times
BY DEF TypeOK, Commit

\* Reconciliation keeps the types of what it assigns.
LEMMA ReconcileType ==
  ASSUME TypeOK, NEW st \in [TaskIds -> Statuses],
         NEW bb \in [TaskIds -> SUBSET TaskIds], NEW touched,
         NEW stamp \in Times, NEW n \in Nat,
         ReconcilePendingTasks(st, bb, touched, stamp, n)
  PROVE  /\ status' \in [TaskIds -> Statuses]
         /\ blockedBy' \in [TaskIds -> SUBSET TaskIds]
         /\ taskUpdatedAt' \in [TaskIds -> Times]
         /\ version' \in Nat /\ eventSequence' \in Nat /\ updatedAt' \in Times
<1>. PICK B \in SUBSET PendingIn(st) :
       /\ status' = [t \in TaskIds |-> IF t \in B THEN "blocked"
                                       ELSE IF t \in Released(B, st) THEN "ready"
                                       ELSE st[t]]
       /\ blockedBy' = [t \in TaskIds |-> IF t \in B THEN BlockersOf(t, st, B)
                                          ELSE IF t \in Released(B, st) THEN {}
                                          ELSE bb[t]]
       /\ taskUpdatedAt' = [t \in TaskIds |->
                              IF t \in B \cup Released(B, st) \cup touched
                              THEN stamp ELSE taskUpdatedAt[t]]
       /\ Commit(stamp, n + Cardinality(B \cup Released(B, st)))
  BY DEF ReconcilePendingTasks
<1>1. B \cup Released(B, st) \subseteq TaskIds
  BY DEF PendingIn, Released, TypeOK
<1>2. n + Cardinality(B \cup Released(B, st)) \in Nat
  BY <1>1, TaskSetSize
<1>3. status' \in [TaskIds -> Statuses]
  BY DEF Statuses
<1>4. blockedBy' \in [TaskIds -> SUBSET TaskIds]
  <2>1. \A t \in TaskIds : BlockersOf(t, st, B) \in SUBSET TaskIds
    BY DEF BlockersOf, TypeOK
  <2>. QED BY <2>1
<1>5. taskUpdatedAt' \in [TaskIds -> Times]
  BY DEF TypeOK
<1>. QED
  BY <1>2, <1>3, <1>4, <1>5, CommitType

\* Every method keeps every field of the aggregate in its type.
THEOREM TypeCorrect == Spec => []TypeOK
<1>1. Init => TypeOK
  <2>. SUFFICES ASSUME Init PROVE TypeOK
    OBVIOUS
  <2>1. 0 \in Times
    BY TaskGraphAssumption DEF Times
  <2>2. sealed \in BOOLEAN
    BY Zenon DEF Init
  <2>. QED BY <2>1, <2>2 DEF Init, TypeOK, Statuses
<1>2. TypeOK /\ [Next]_vars => TypeOK'
  <2>. SUFFICES ASSUME TypeOK, [Next]_vars PROVE TypeOK'
    OBVIOUS
  <2>1. ASSUME NEW stamp \in Times, NEW batch \in SUBSET (TaskIds \ added),
               NEW wanted \in [batch -> SUBSET (added \cup batch)],
               NEW position \in Arrangements(batch),
               AddTasks(batch, wanted, position, stamp)
        PROVE  TypeOK'
    <3>1. Cardinality(batch) \in Nat
      BY TaskSetSize
    <3>2. version' \in Nat /\ eventSequence' \in Nat /\ updatedAt' \in Times
      BY <2>1, <3>1, CommitType DEF AddTasks
    <3>3. /\ order' \in [TaskIds -> Nat] /\ nextOrder' \in Nat
          /\ taskCreatedAt' \in [TaskIds -> Times]
          /\ taskUpdatedAt' \in [TaskIds -> Times]
      BY <2>1, <3>1 DEF AddTasks, Arrangements, TypeOK
    <3>4. added' \subseteq TaskIds /\ deps' \in [TaskIds -> SUBSET TaskIds]
      BY <2>1 DEF AddTasks, TypeOK
    <3>. QED BY <2>1, <3>2, <3>3, <3>4 DEF AddTasks, TypeOK, outcome
  <2>2. ASSUME NEW stamp \in Times, NEW t \in TaskIds, NEW d \in TaskIds,
               AddDependency(t, d, stamp)
        PROVE  TypeOK'
    <3>1. version' \in Nat /\ eventSequence' \in Nat /\ updatedAt' \in Times
      BY <2>2, CommitType DEF AddDependency
    <3>. QED BY <2>2, <3>1 DEF AddDependency, TypeOK, outcome
  <2>3. ASSUME NEW stamp \in Times, Seal(stamp)
        PROVE  TypeOK'
    <3>1. /\ status' \in [TaskIds -> Statuses]
          /\ blockedBy' \in [TaskIds -> SUBSET TaskIds]
          /\ taskUpdatedAt' \in [TaskIds -> Times]
          /\ version' \in Nat /\ eventSequence' \in Nat /\ updatedAt' \in Times
      BY <2>3, ReconcileType DEF Seal, TypeOK
    <3>. QED BY <2>3, <3>1 DEF Seal, TypeOK, topology, outcome
  <2>4. ASSUME NEW stamp \in Times, NEW t \in TaskIds, NEW from \in SUBSET Statuses,
               NEW target \in Statuses, PerformTransition(t, from, target, stamp)
        PROVE  TypeOK'
    <3>1. version' \in Nat /\ eventSequence' \in Nat /\ updatedAt' \in Times
      BY <2>4, CommitType DEF PerformTransition
    <3>. QED BY <2>4, <3>1 DEF PerformTransition, TypeOK, topology, outcome
  <2>5. ASSUME NEW stamp \in Times, NEW t \in TaskIds, NEW target \in Statuses,
               NEW out \in SUBSET Artifacts, NEW fail \in Failures \cup {NoFailure},
               Settle(t, target, out, fail, stamp)
        PROVE  TypeOK'
    <3>1. /\ status' \in [TaskIds -> Statuses]
          /\ blockedBy' \in [TaskIds -> SUBSET TaskIds]
          /\ taskUpdatedAt' \in [TaskIds -> Times]
          /\ version' \in Nat /\ eventSequence' \in Nat /\ updatedAt' \in Times
      <4>1. /\ [status EXCEPT ![t] = target] \in [TaskIds -> Statuses]
            /\ [blockedBy EXCEPT ![t] = {}] \in [TaskIds -> SUBSET TaskIds]
        BY DEF TypeOK
      <4>. QED BY <2>5, <4>1, ReconcileType DEF Settle
    <3>. QED BY <2>5, <3>1 DEF Settle, TypeOK, topology
  <2>6. ASSUME NEW stamp \in Times, CancelRemaining(stamp)
        PROVE  TypeOK'
    <3>1. Cardinality({t \in added : status[t] \notin Terminal}) \in Nat
      BY TaskSetSize DEF TypeOK
    <3>2. version' \in Nat /\ eventSequence' \in Nat /\ updatedAt' \in Times
      BY <2>6, <3>1, CommitType DEF CancelRemaining
    <3>3. status' \in [TaskIds -> Statuses]
      BY <2>6 DEF CancelRemaining, TypeOK, Statuses
    <3>. QED BY <2>6, <3>2, <3>3 DEF CancelRemaining, TypeOK, topology
  <2>7. ASSUME Hydrate PROVE TypeOK'
    <3>1. nextOrder' \in Nat
      BY <2>7 DEF Hydrate, TypeOK
    <3>. QED BY <2>7, <3>1 DEF Hydrate, TypeOK, outcome, counters
  <2>8. CASE UNCHANGED vars
    BY <2>8 DEF TypeOK, vars, topology, outcome, counters
  <2>. QED
    BY <2>1, <2>2, <2>3, <2>4, <2>5, <2>6, <2>7, <2>8
    DEF Next, PlanningStep, TaskStep, StartTask, MarkTaskWaiting, MarkTaskNeedsResolution,
        ResumeTask, SucceedTask, FailTask, CancelTask, Statuses
<1>. QED BY <1>1, <1>2, PTL DEF Spec

(***************************************************************************)
(* Task states.  What validateHydratedTaskStates asks of every task is     *)
(* inductive once one adds that a task outside the map has the default     *)
(* values and that no dependency leaves the map.                           *)
(***************************************************************************)
Closed ==
  /\ \A t \in TaskIds \ added : PlannedTaskValid(t)
  /\ \A t \in added : deps[t] \subseteq added

StateInv == TypeOK /\ Closed /\ HydratedTaskStatesValid

Underway == {"ready", "running", "waiting", "needs_resolution"}

\* What a method leaves to reconciliation: every task is valid for the
\* statuses st, except that pending ones may have to be released or blocked.
SettledPart(t, st, bb, out, fail) ==
  /\ st[t] \in Underway \cup {"succeeded", "failed"}
       => \A d \in deps[t] : st[d] = "succeeded"
  /\ IF st[t] = "blocked"
     THEN bb[t] # {} /\ bb[t] \subseteq {d \in deps[t] : st[d] \in Unsuccessful}
     ELSE bb[t] = {}
  /\ (st[t] = "failed") <=> (fail[t] # NoFailure)
  /\ out[t] # {} => st[t] = "succeeded"

\* One walk of #reconcilePendingTasks completes the validity of all tasks.
LEMMA ReconcileValid ==
  ASSUME TypeOK, Closed, NEW st \in [TaskIds -> Statuses],
         NEW bb \in [TaskIds -> SUBSET TaskIds], NEW touched, NEW stamp, NEW n,
         \A t \in added : SettledPart(t, st, bb, outputs', failure'),
         \A t \in TaskIds \ added : st[t] = "pending" /\ bb[t] = {},
         deps' = deps, added' = added,
         ReconcilePendingTasks(st, bb, touched, stamp, n)
  PROVE  /\ \A t \in added : SealedTaskValid(t)'
         /\ \A t \in TaskIds \ added : status'[t] = "pending" /\ blockedBy'[t] = {}
<1>. PICK B \in SUBSET PendingIn(st) :
       /\ Blocks(B, st)
       /\ status' = [t \in TaskIds |-> IF t \in B THEN "blocked"
                                       ELSE IF t \in Released(B, st) THEN "ready"
                                       ELSE st[t]]
       /\ blockedBy' = [t \in TaskIds |-> IF t \in B THEN BlockersOf(t, st, B)
                                          ELSE IF t \in Released(B, st) THEN {}
                                          ELSE bb[t]]
  BY DEF ReconcilePendingTasks
<1>. DEFINE R == Released(B, st)
<1>a. /\ B \subseteq added /\ R \subseteq added /\ B \cap R = {}
      /\ \A t \in added : t \in B \/ t \in R => st[t] = "pending"
  BY DEF PendingIn, Released
<1>b. ASSUME NEW d \in added
      PROVE  /\ status'[d] = "succeeded" <=> st[d] = "succeeded"
             /\ status'[d] \in Unsuccessful <=> st[d] \in Unsuccessful \/ d \in B
  BY <1>a DEF TypeOK, Unsuccessful, PendingIn, Released
<1>1. ASSUME NEW t \in added PROVE SealedTaskValid(t)'
  <2>. /\ t \in TaskIds
       /\ deps[t] \subseteq added
       /\ SettledPart(t, st, bb, outputs', failure')
    BY DEF TypeOK, Closed
  <2>1. CASE t \in B
    <3>1. /\ status'[t] = "blocked" /\ blockedBy'[t] = BlockersOf(t, st, B)
          /\ BlockersOf(t, st, B) # {} /\ st[t] = "pending"
      BY <2>1, <1>a DEF Blocks
    <3>2. BlockersOf(t, st, B) \subseteq {d \in deps[t] : status'[d] \in Unsuccessful}
      BY <1>b DEF BlockersOf
    <3>. QED BY <3>1, <3>2 DEF SealedTaskValid, SettledPart
  <2>2. CASE t \in R
    <3>1. status'[t] = "ready" /\ blockedBy'[t] = {} /\ st[t] = "pending"
      BY <2>2, <1>a
    <3>2. \A d \in deps[t] : status'[d] = "succeeded"
      BY <2>2, <1>b DEF Released
    <3>. QED BY <3>1, <3>2 DEF SealedTaskValid, SettledPart
  <2>3. CASE t \notin B /\ t \notin R
    <3>1. status'[t] = st[t] /\ blockedBy'[t] = bb[t]
      BY <2>3
    <3>2. CASE st[t] = "pending"
      <4>1. BlockersOf(t, st, B) = {} /\ ~ (\A d \in deps[t] : st[d] = "succeeded")
        BY <2>3, <3>2 DEF Blocks, PendingIn, Released
      <4>2. /\ {d \in deps[t] : status'[d] \in Unsuccessful} = {}
            /\ ~ (\A d \in deps[t] : status'[d] = "succeeded")
        BY <4>1, <1>b DEF BlockersOf
      <4>. QED BY <3>1, <3>2, <4>2 DEF SealedTaskValid, SettledPart
    <3>3. CASE st[t] # "pending"
      <4>1. st[t] \in Underway \cup {"succeeded", "failed"}
              => \A d \in deps[t] : status'[d] = "succeeded"
        BY <1>b DEF SettledPart
      <4>2. st[t] = "blocked" =>
              bb[t] \subseteq {d \in deps[t] : status'[d] \in Unsuccessful}
        BY <1>b DEF SettledPart
      <4>. QED BY <3>1, <3>3, <4>1, <4>2 DEF SealedTaskValid, SettledPart, Underway
    <3>. QED BY <3>2, <3>3
  <2>. QED BY <2>1, <2>2, <2>3
<1>2. \A t \in TaskIds \ added : status'[t] = "pending" /\ blockedBy'[t] = {}
  BY <1>a
<1>. QED BY <1>1, <1>2

\* A task under way that settles, or a pending one that is cancelled, leaves
\* every task valid up to reconciliation.
LEMMA SettleValid ==
  ASSUME StateInv, sealed, NEW t \in added, NEW target, NEW out \in SUBSET Artifacts,
         NEW fail \in Failures \cup {NoFailure}, NEW stamp \in Times,
         \/ target = "succeeded" /\ fail = NoFailure /\ status[t] = "running"
         \/ target = "failed" /\ out = {} /\ fail # NoFailure /\ status[t] \in Underway
         \/ target = "cancelled" /\ out = {} /\ fail = NoFailure
            /\ status[t] \in Underway \cup {"pending"},
         Settle(t, target, out, fail, stamp)
  PROVE  (Closed /\ HydratedTaskStatesValid)'
<1>. DEFINE st == [status EXCEPT ![t] = target]
            bb == [blockedBy EXCEPT ![t] = {}]
<1>0. t \in TaskIds /\ TypeOK /\ Closed /\ \A u \in added : SealedTaskValid(u)
  BY DEF StateInv, TypeOK, HydratedTaskStatesValid
<1>1. st \in [TaskIds -> Statuses] /\ bb \in [TaskIds -> SUBSET TaskIds]
  BY <1>0 DEF TypeOK, Statuses
<1>2. outputs' = [outputs EXCEPT ![t] = out] /\ failure' = [failure EXCEPT ![t] = fail]
      /\ deps' = deps /\ added' = added /\ sealed' = sealed
      /\ ReconcilePendingTasks(st, bb, {t}, stamp, 1)
  BY DEF Settle, topology
<1>3. ASSUME NEW u \in added PROVE SettledPart(u, st, bb, outputs', failure')
  <2>. u \in TaskIds /\ SealedTaskValid(u) /\ SealedTaskValid(t) /\ deps[u] \subseteq added
    BY <1>0 DEF TypeOK, Closed
  <2>1. CASE u = t
    <3>1. st[u] = target /\ bb[u] = {} /\ outputs'[u] = out /\ failure'[u] = fail
      BY <1>0, <1>2, <2>1 DEF TypeOK
    <3>2. target \in {"succeeded", "failed"} => \A d \in deps[u] : st[d] = "succeeded"
      <4>1. target \in {"succeeded", "failed"} =>
              \A d \in deps[u] : status[d] = "succeeded" /\ d # t
        BY <2>1 DEF SealedTaskValid, Underway
      <4>. QED BY <4>1, <1>0 DEF TypeOK
    <3>. QED BY <3>1, <3>2 DEF SettledPart, Underway
  <2>2. CASE u # t
    <3>1. /\ st[u] = status[u] /\ bb[u] = blockedBy[u]
          /\ outputs'[u] = outputs[u] /\ failure'[u] = failure[u]
      BY <1>0, <1>2, <2>2 DEF TypeOK
    <3>2. status[t] # "succeeded" /\ status[t] \notin Unsuccessful
      BY DEF Underway, Unsuccessful
    <3>3. \A d \in deps[u] : status[d] = "succeeded" => st[d] = "succeeded"
      BY <3>2, <1>0 DEF TypeOK
    <3>4. \A d \in deps[u] : status[d] \in Unsuccessful => st[d] \in Unsuccessful
      BY <3>2, <1>0 DEF TypeOK
    <3>. QED BY <3>1, <3>3, <3>4 DEF SettledPart, SealedTaskValid, Underway
  <2>. QED BY <2>1, <2>2
<1>4. \A u \in TaskIds \ added : st[u] = "pending" /\ bb[u] = {}
  BY <1>0 DEF Closed, PlannedTaskValid, TypeOK
<1>5. /\ \A u \in added : SealedTaskValid(u)'
      /\ \A u \in TaskIds \ added : status'[u] = "pending" /\ blockedBy'[u] = {}
  <2>. HIDE DEF st, bb
  <2>. QED BY <1>0, <1>1, <1>2, <1>3, <1>4, ReconcileValid
<1>6. \A u \in TaskIds \ added : PlannedTaskValid(u)'
  BY <1>0, <1>2, <1>5 DEF Closed, PlannedTaskValid, TypeOK
<1>. QED BY <1>0, <1>2, <1>5, <1>6 DEF Closed, HydratedTaskStatesValid

\* Planning steps keep every task in its initial state.
LEMMA PlanningKeepsStates ==
  ASSUME StateInv, ~sealed, ~sealed', UNCHANGED <<status, blockedBy, outputs, failure>>,
         added \subseteq added', added' \subseteq TaskIds,
         \A t \in added' : deps'[t] \subseteq added'
  PROVE  (Closed /\ HydratedTaskStatesValid)'
<1>1. \A t \in TaskIds : PlannedTaskValid(t)
  BY DEF StateInv, Closed, HydratedTaskStatesValid
<1>2. \A t \in TaskIds : PlannedTaskValid(t)'
  BY <1>1 DEF PlannedTaskValid
<1>. QED BY <1>2 DEF Closed, HydratedTaskStatesValid

\* validateHydratedTaskStates accepts the tasks of every state the methods
\* can produce: readiness, blockers, failures and outputs always agree with
\* the statuses of the dependencies.
LEMMA StateInvStep == StateInv /\ TypeOK' /\ [Next]_vars => StateInv'
<1>. SUFFICES ASSUME StateInv, TypeOK', [Next]_vars
              PROVE  (Closed /\ HydratedTaskStatesValid)'
  BY DEF StateInv
<1>0. TypeOK /\ Closed /\ HydratedTaskStatesValid
  BY DEF StateInv
<1>1. ASSUME NEW stamp \in Times, NEW batch \in SUBSET (TaskIds \ added),
             NEW wanted \in [batch -> SUBSET (added \cup batch)],
             NEW position \in Arrangements(batch),
             AddTasks(batch, wanted, position, stamp)
      PROVE  (Closed /\ HydratedTaskStatesValid)'
  <2>1. \A t \in added' : deps'[t] \subseteq added'
    BY <1>0, <1>1 DEF AddTasks, Closed, TypeOK
  <2>2. /\ ~sealed /\ ~sealed' /\ UNCHANGED <<status, blockedBy, outputs, failure>>
        /\ added \subseteq added' /\ added' \subseteq TaskIds
    BY <1>0, <1>1 DEF AddTasks, outcome, TypeOK
  <2>. QED BY <2>1, <2>2, PlanningKeepsStates
<1>2. ASSUME NEW stamp \in Times, NEW t \in TaskIds, NEW d \in TaskIds,
             AddDependency(t, d, stamp)
      PROVE  (Closed /\ HydratedTaskStatesValid)'
  <2>1. \A u \in added' : deps'[u] \subseteq added'
    BY <1>0, <1>2 DEF AddDependency, Closed, TypeOK
  <2>2. /\ ~sealed /\ ~sealed' /\ UNCHANGED <<status, blockedBy, outputs, failure>>
        /\ added \subseteq added' /\ added' \subseteq TaskIds
    BY <1>0, <1>2 DEF AddDependency, outcome, TypeOK
  <2>. QED BY <2>1, <2>2, PlanningKeepsStates
<1>3. ASSUME NEW stamp \in Times, Seal(stamp)
      PROVE  (Closed /\ HydratedTaskStatesValid)'
  <2>0. /\ ~sealed /\ sealed' /\ deps' = deps /\ added' = added
        /\ outputs' = outputs /\ failure' = failure
        /\ ReconcilePendingTasks(status, blockedBy, {}, stamp, 1)
    BY <1>3 DEF Seal, topology, outcome
  <2>1. \A t \in TaskIds : PlannedTaskValid(t)
    BY <1>0, <2>0 DEF Closed, HydratedTaskStatesValid
  <2>2. \A t \in added : SettledPart(t, status, blockedBy, outputs', failure')
    BY <1>0, <2>0, <2>1 DEF SettledPart, PlannedTaskValid, Underway, TypeOK
  <2>3. \A t \in TaskIds \ added : status[t] = "pending" /\ blockedBy[t] = {}
    BY <2>1 DEF PlannedTaskValid
  <2>4. /\ \A t \in added : SealedTaskValid(t)'
        /\ \A t \in TaskIds \ added : status'[t] = "pending" /\ blockedBy'[t] = {}
    BY <1>0, <2>0, <2>2, <2>3, ReconcileValid DEF TypeOK
  <2>5. \A t \in TaskIds \ added : PlannedTaskValid(t)'
    BY <2>0, <2>1, <2>4 DEF PlannedTaskValid
  <2>. QED BY <1>0, <2>0, <2>4, <2>5 DEF Closed, HydratedTaskStatesValid
<1>4. ASSUME NEW stamp \in Times, NEW t \in TaskIds, NEW from \in SUBSET Underway,
             NEW target \in Underway, PerformTransition(t, from, target, stamp)
      PROVE  (Closed /\ HydratedTaskStatesValid)'
  <2>0. /\ sealed /\ sealed' /\ deps' = deps /\ added' = added /\ t \in added
        /\ outputs' = outputs /\ failure' = failure /\ blockedBy' = blockedBy
        /\ status' = [status EXCEPT ![t] = target] /\ status[t] \in Underway
    BY <1>4 DEF PerformTransition, MayTransition, topology, outcome
  <2>1. \A u \in TaskIds : u # t => status'[u] = status[u]
    BY <1>0, <2>0 DEF TypeOK
  <2>2. status'[t] = target
    BY <1>0, <2>0 DEF TypeOK
  <2>3. ASSUME NEW u \in added PROVE SealedTaskValid(u)'
    <3>0. SealedTaskValid(u) /\ deps[u] \subseteq added /\ added \subseteq TaskIds
      BY <1>0, <2>0 DEF HydratedTaskStatesValid, Closed, TypeOK
    <3>1. \A d \in deps[u] : /\ status'[d] = "succeeded" <=> status[d] = "succeeded"
                             /\ status'[d] \in Unsuccessful <=> status[d] \in Unsuccessful
      BY <2>0, <2>1, <2>2, <3>0 DEF Underway, Unsuccessful
    <3>2. CASE u = t
      <4>1. status[u] \in Underway /\ status'[u] \in Underway
        BY <2>0, <2>2, <3>2
      <4>. QED BY <2>0, <3>0, <3>1, <4>1 DEF SealedTaskValid, Underway
    <3>3. CASE u # t
      BY <2>0, <2>1, <3>0, <3>1, <3>3 DEF SealedTaskValid
    <3>. QED BY <3>2, <3>3
  <2>4. \A u \in TaskIds \ added : PlannedTaskValid(u)'
    BY <1>0, <2>0, <2>1 DEF Closed, PlannedTaskValid
  <2>. QED BY <1>0, <2>0, <2>3, <2>4 DEF Closed, HydratedTaskStatesValid
<1>5. ASSUME NEW stamp \in Times, NEW t \in TaskIds, NEW out \in SUBSET Artifacts,
             SucceedTask(t, out, stamp)
      PROVE  (Closed /\ HydratedTaskStatesValid)'
  BY <1>5, SettleValid DEF SucceedTask, MayTransition
<1>6. ASSUME NEW stamp \in Times, NEW t \in TaskIds, NEW fail \in Failures,
             FailTask(t, fail, stamp)
      PROVE  (Closed /\ HydratedTaskStatesValid)'
  BY <1>6, SettleValid, TaskGraphAssumption DEF FailTask, MayTransition, Underway
<1>7. ASSUME NEW stamp \in Times, NEW t \in TaskIds, CancelTask(t, stamp)
      PROVE  (Closed /\ HydratedTaskStatesValid)'
  BY <1>7, SettleValid DEF CancelTask, MayTransition, Underway
<1>8. ASSUME NEW stamp \in Times, CancelRemaining(stamp)
      PROVE  (Closed /\ HydratedTaskStatesValid)'
  <2>0. /\ sealed /\ sealed' /\ deps' = deps /\ added' = added
    BY <1>8 DEF CancelRemaining, topology
  <2>1. ASSUME NEW u \in added
        PROVE  IF status[u] \in Terminal
               THEN /\ status'[u] = status[u] /\ blockedBy'[u] = blockedBy[u]
                    /\ outputs'[u] = outputs[u] /\ failure'[u] = failure[u]
               ELSE /\ status'[u] = "cancelled" /\ blockedBy'[u] = {}
                    /\ outputs'[u] = {} /\ failure'[u] = NoFailure
    BY <1>0, <1>8 DEF CancelRemaining, TypeOK
  <2>2. ASSUME NEW u \in added PROVE SealedTaskValid(u)'
    <3>0. SealedTaskValid(u) /\ deps[u] \subseteq added
      BY <1>0, <2>0 DEF HydratedTaskStatesValid, Closed
    <3>1. \A d \in deps[u] : /\ status[d] = "succeeded" => status'[d] = "succeeded"
                             /\ status[d] \in Unsuccessful => status'[d] \in Unsuccessful
      BY <2>1, <3>0 DEF Terminal, Unsuccessful
    <3>2. CASE status[u] \in Terminal
      BY <2>0, <2>1, <3>0, <3>1, <3>2 DEF SealedTaskValid, Terminal, Unsuccessful
    <3>3. CASE status[u] \notin Terminal
      BY <2>0, <2>1, <3>3 DEF SealedTaskValid
    <3>. QED BY <3>2, <3>3
  <2>3. \A u \in TaskIds \ added : PlannedTaskValid(u)'
    BY <1>0, <1>8 DEF CancelRemaining, Closed, PlannedTaskValid
  <2>. QED BY <1>0, <2>0, <2>2, <2>3 DEF Closed, HydratedTaskStatesValid
<1>9. CASE Hydrate
  BY <1>0, <1>9 DEF Hydrate, outcome, Closed, HydratedTaskStatesValid,
                    PlannedTaskValid, SealedTaskValid
<1>10. CASE UNCHANGED vars
  BY <1>0, <1>10 DEF vars, topology, outcome, Closed, HydratedTaskStatesValid,
                     PlannedTaskValid, SealedTaskValid
<1>. QED
  BY <1>1, <1>2, <1>3, <1>4, <1>5, <1>6, <1>7, <1>8, <1>9, <1>10
  DEF Next, PlanningStep, TaskStep, StartTask, MarkTaskWaiting, MarkTaskNeedsResolution,
      ResumeTask, Underway

(***************************************************************************)
(* Well-foundedness: a nonempty set of tasks has one whose dependencies    *)
(* are all outside the set.                                                *)
(***************************************************************************)
LEMMA FirstTask ==
  ASSUME TypeOK, WellFormed(added, deps), \A t \in added : deps[t] \subseteq added,
         NEW S \in SUBSET added, S # {}
  PROVE  \E t \in S : \A d \in deps[t] : d \notin S
<1>1. PICK rank \in [added -> 1 .. MaxDepth] : Ranks(rank, added, deps)
  BY DEF WellFormed
<1>. DEFINE depths == {rank[t] : t \in S}
<1>2. depths \in SUBSET Nat /\ depths # {}
  BY TaskGraphAssumption
<1>3. PICK least \in depths : \A n \in depths : ~ (<<n, least>> \in OpToRel(<, Nat))
  BY <1>2, NatLessThanWellFounded, WFMin, Zenon
<1>4. PICK t \in S : rank[t] = least
  OBVIOUS
<1>5. ASSUME NEW d \in deps[t], d \in S PROVE FALSE
  <2>1. rank[d] \in depths /\ rank[d] \in Nat /\ least \in Nat
    BY <1>2, <1>5
  <2>2. rank[d] < least
    BY <1>1, <1>4 DEF Ranks
  <2>3. <<rank[d], least>> \in OpToRel(<, Nat)
    BY <2>1, <2>2 DEF OpToRel
  <2>. QED BY <1>3, <2>1, <2>3
<1>. QED BY <1>5

(***************************************************************************)
(* Every step but a restart is a commit: one clock reading at or after the *)
(* last one stamps a nonempty set T of tasks, and at most one event per    *)
(* task and one more are numbered.                                         *)
(***************************************************************************)
CommitStep ==
  \E stamp \in Times, T \in SUBSET added', n \in Nat :
    /\ stamp >= updatedAt /\ HasSequenceRoom
    /\ T # {} /\ 1 <= n /\ n <= Cardinality(added') + 1
    /\ Commit(stamp, n)
    /\ taskUpdatedAt' = [t \in TaskIds |-> IF t \in T THEN stamp ELSE taskUpdatedAt[t]]
    /\ createdAt' = createdAt
    /\ added \subseteq added' /\ Cardinality(added') <= MaxTasks
    /\ \A t \in added : taskCreatedAt'[t] = taskCreatedAt[t]
    /\ \A t \in added' \ added : t \in T /\ taskCreatedAt'[t] = stamp
    /\ sealed' => sealed \/ added # {}

ShapeInv ==
  /\ WellFormed(added, deps)
  /\ Cardinality(added) <= MaxTasks

\* A method that reconciles is such a commit when it or the walk touches a
\* task.
LEMMA ReconcileCommits ==
  ASSUME TypeOK, ShapeInv, NEW st, NEW bb, NEW touched \in SUBSET added,
         NEW stamp \in Times, ClockReads(stamp), HasSequenceRoom,
         touched # {} \/ \E t \in PendingIn(st) : deps[t] = {},
         UNCHANGED topology, sealed' => sealed \/ added # {},
         ReconcilePendingTasks(st, bb, touched, stamp, 1)
  PROVE  CommitStep
<1>. PICK B \in SUBSET PendingIn(st) :
       /\ Blocks(B, st)
       /\ taskUpdatedAt' = [t \in TaskIds |->
                              IF t \in B \cup Released(B, st) \cup touched
                              THEN stamp ELSE taskUpdatedAt[t]]
       /\ Commit(stamp, 1 + Cardinality(B \cup Released(B, st)))
  BY DEF ReconcilePendingTasks
<1>. DEFINE moved == B \cup Released(B, st)
            T == moved \cup touched
            n == 1 + Cardinality(moved)
<1>1. moved \subseteq added /\ added \subseteq TaskIds
  BY DEF PendingIn, Released, TypeOK
<1>2. Cardinality(moved) \in Nat /\ Cardinality(moved) <= Cardinality(added)
      /\ Cardinality(added) \in Nat
  BY <1>1, TaskSetSize
<1>3. T # {}
  <2>1. ASSUME NEW t \in PendingIn(st), deps[t] = {} PROVE t \in moved
    BY <2>1 DEF Blocks, BlockersOf, Released
  <2>. QED BY <2>1
<1>4. added' = added /\ taskCreatedAt' = taskCreatedAt /\ createdAt' = createdAt
  BY DEF topology
<1>5. Cardinality(added') <= MaxTasks
  BY <1>4 DEF ShapeInv
<1>6. T \in SUBSET added' /\ n \in Nat /\ 1 <= n /\ n <= Cardinality(added') + 1
  BY <1>1, <1>2, <1>4
<1>7. stamp >= updatedAt
  BY DEF ClockReads
<1>. HIDE DEF T, n, moved
<1>8. taskUpdatedAt' = [t \in TaskIds |-> IF t \in T THEN stamp ELSE taskUpdatedAt[t]]
      /\ Commit(stamp, n)
  BY DEF T, n, moved
<1>. QED BY <1>3, <1>4, <1>5, <1>6, <1>7, <1>8 DEF CommitStep

\* Every step that changes the aggregate is a commit or a restart.
LEMMA StepCommits ==
  ASSUME StateInv, ShapeInv, Next
  PROVE  CommitStep \/ Hydrate
<1>0. /\ TypeOK /\ Closed /\ HydratedTaskStatesValid /\ added \subseteq TaskIds
      /\ Cardinality(added) \in Nat /\ Cardinality(added) <= MaxTasks
  BY TaskSetSize DEF StateInv, TypeOK, ShapeInv
<1>1. ASSUME NEW stamp \in Times, NEW batch \in SUBSET (TaskIds \ added),
             NEW wanted \in [batch -> SUBSET (added \cup batch)],
             NEW position \in Arrangements(batch),
             AddTasks(batch, wanted, position, stamp)
      PROVE  CommitStep
  <2>1. /\ Cardinality(batch) \in Nat /\ IsFiniteSet(batch) /\ IsFiniteSet(added)
        /\ batch \subseteq TaskIds
    BY <1>0, TaskSetSize
  <2>2. 1 <= Cardinality(batch)
    BY <1>1, <2>1, FS_EmptySet DEF AddTasks
  <2>3. Cardinality(added \cup batch) = Cardinality(added) + Cardinality(batch)
    <3>1. added \cap batch = {}
      OBVIOUS
    <3>2. Cardinality(added \cap batch) = 0
      BY <3>1, FS_EmptySet
    <3>3. Cardinality(added \cup batch)
            = Cardinality(added) + Cardinality(batch) - Cardinality(added \cap batch)
      BY <2>1, FS_Union
    <3>. QED BY <1>0, <2>1, <3>2, <3>3
  <2>4. /\ added' = added \cup batch /\ batch # {} /\ stamp >= updatedAt
        /\ HasSequenceRoom /\ Commit(stamp, Cardinality(batch))
        /\ createdAt' = createdAt /\ ~sealed'
        /\ Cardinality(added) + Cardinality(batch) <= MaxTasks
    BY <1>1 DEF AddTasks, ClockReads
  <2>5. /\ taskUpdatedAt' = [t \in TaskIds |-> IF t \in batch THEN stamp ELSE taskUpdatedAt[t]]
        /\ taskCreatedAt' = [t \in TaskIds |-> IF t \in batch THEN stamp ELSE taskCreatedAt[t]]
    BY <1>1 DEF AddTasks
  <2>6. Cardinality(batch) <= Cardinality(added') + 1 /\ Cardinality(added') <= MaxTasks
    BY <1>0, <2>1, <2>3, <2>4
  <2>7. /\ \A t \in added : taskCreatedAt'[t] = taskCreatedAt[t]
        /\ \A t \in added' \ added : t \in batch /\ taskCreatedAt'[t] = stamp
    BY <1>0, <2>1, <2>4, <2>5
  <2>8. batch \in SUBSET added'
    BY <2>4
  <2>. QED BY <2>1, <2>2, <2>4, <2>5, <2>6, <2>7, <2>8 DEF CommitStep
<1>2. ASSUME NEW stamp \in Times, NEW t \in TaskIds, NEW d \in TaskIds,
             AddDependency(t, d, stamp)
      PROVE  CommitStep
  <2>1. /\ added' = added /\ t \in added /\ stamp >= updatedAt /\ HasSequenceRoom
        /\ Commit(stamp, 1) /\ createdAt' = createdAt /\ ~sealed'
        /\ taskCreatedAt' = taskCreatedAt
        /\ taskUpdatedAt' = [taskUpdatedAt EXCEPT ![t] = stamp]
    BY <1>2 DEF AddDependency, ClockReads
  <2>. DEFINE T == {t}
  <2>2. taskUpdatedAt' = [u \in TaskIds |-> IF u \in T THEN stamp ELSE taskUpdatedAt[u]]
    BY <1>0, <2>1 DEF TypeOK
  <2>3. T \in SUBSET added' /\ T # {}
    BY <2>1
  <2>4. 1 \in Nat /\ 1 <= 1 /\ 1 <= Cardinality(added') + 1 /\ Cardinality(added') <= MaxTasks
    BY <1>0, <2>1
  <2>. HIDE DEF T
  <2>. QED BY <2>1, <2>2, <2>3, <2>4 DEF CommitStep
<1>3. ASSUME NEW stamp \in Times, Seal(stamp)
      PROVE  CommitStep
  <2>1. PICK t \in added : \A d \in deps[t] : d \notin added
    <3>1. added # {} /\ WellFormed(added, deps)
      BY <1>3 DEF Seal, ShapeInv
    <3>. QED BY <1>0, <3>1, FirstTask DEF Closed
  <2>2. deps[t] = {} /\ t \in PendingIn(status)
    BY <1>0, <1>3, <2>1 DEF Closed, PendingIn, HydratedTaskStatesValid, PlannedTaskValid, Seal
  <2>3. /\ ClockReads(stamp) /\ HasSequenceRoom /\ UNCHANGED topology /\ added # {}
        /\ ReconcilePendingTasks(status, blockedBy, {}, stamp, 1)
    BY <1>3 DEF Seal
  <2>. QED BY <1>0, <2>2, <2>3, ReconcileCommits
<1>4. ASSUME NEW stamp \in Times, NEW t \in TaskIds, NEW from, NEW target,
             PerformTransition(t, from, target, stamp)
      PROVE  CommitStep
  <2>1. /\ added' = added /\ t \in added /\ stamp >= updatedAt /\ HasSequenceRoom
        /\ Commit(stamp, 1) /\ createdAt' = createdAt /\ added # {}
        /\ taskCreatedAt' = taskCreatedAt
        /\ taskUpdatedAt' = [taskUpdatedAt EXCEPT ![t] = stamp]
    BY <1>4 DEF PerformTransition, MayTransition, ClockReads, topology
  <2>. DEFINE T == {t}
  <2>2. taskUpdatedAt' = [u \in TaskIds |-> IF u \in T THEN stamp ELSE taskUpdatedAt[u]]
    BY <1>0, <2>1 DEF TypeOK
  <2>3. T \in SUBSET added' /\ T # {}
    BY <2>1
  <2>4. 1 \in Nat /\ 1 <= 1 /\ 1 <= Cardinality(added') + 1 /\ Cardinality(added') <= MaxTasks
    BY <1>0, <2>1
  <2>. HIDE DEF T
  <2>. QED BY <2>1, <2>2, <2>3, <2>4 DEF CommitStep
<1>5. ASSUME NEW stamp \in Times, NEW t \in added, NEW target, NEW out, NEW fail,
             HasSequenceRoom, ClockReads(stamp), Settle(t, target, out, fail, stamp)
      PROVE  CommitStep
  <2>1. /\ UNCHANGED topology
        /\ ReconcilePendingTasks([status EXCEPT ![t] = target],
                                 [blockedBy EXCEPT ![t] = {}], {t}, stamp, 1)
    BY <1>5 DEF Settle
  <2>2. added # {} /\ {t} \in SUBSET added /\ {t} # {}
    OBVIOUS
  <2>. QED BY <1>0, <1>5, <2>1, <2>2, ReconcileCommits
<1>6. ASSUME NEW stamp \in Times, CancelRemaining(stamp)
      PROVE  CommitStep
  <2>. DEFINE T == {t \in added : status[t] \notin Terminal}
  <2>1. /\ UNCHANGED topology /\ sealed /\ T # {} /\ stamp >= updatedAt /\ HasSequenceRoom
        /\ Commit(stamp, Cardinality(T))
        /\ taskUpdatedAt' = [t \in TaskIds |-> IF t \in T THEN stamp ELSE taskUpdatedAt[t]]
    BY <1>6 DEF CancelRemaining, ClockReads
  <2>2. T \in SUBSET added
    OBVIOUS
  <2>3. Cardinality(T) \in Nat /\ Cardinality(T) <= Cardinality(added) /\ 1 <= Cardinality(T)
    <3>. HIDE DEF T
    <3>. QED BY <1>0, <2>1, <2>2, TaskSetSize, FS_EmptySet
  <2>4. added' = added /\ taskCreatedAt' = taskCreatedAt /\ createdAt' = createdAt
    BY <2>1 DEF topology
  <2>. HIDE DEF T
  <2>. QED BY <1>0, <2>1, <2>2, <2>3, <2>4 DEF CommitStep
<1>. QED
  BY <1>1, <1>2, <1>3, <1>4, <1>5, <1>6
  DEF Next, PlanningStep, TaskStep, StartTask, MarkTaskWaiting, MarkTaskNeedsResolution,
      ResumeTask, SucceedTask, FailTask, CancelTask, MayTransition

(***************************************************************************)
(* The inductive invariant: valid task states, a well-formed graph, the    *)
(* counters and timestamps in their order, and positions that number the   *)
(* tasks without a gap.                                                    *)
(***************************************************************************)
CounterInv ==
  /\ SequencesStaySafe
  /\ version <= eventSequence
  /\ added = {} => version = 0 /\ eventSequence = 0 /\ ~sealed
  /\ added # {} => version # 0
  /\ sealed => version >= 2

TimeInv ==
  /\ createdAt <= updatedAt
  /\ \A t \in added : /\ createdAt <= taskCreatedAt[t]
                      /\ taskCreatedAt[t] <= taskUpdatedAt[t]
                      /\ taskUpdatedAt[t] <= updatedAt
  /\ updatedAt = createdAt \/ \E t \in added : taskUpdatedAt[t] = updatedAt

OrderInv ==
  /\ nextOrder = Cardinality(added)
  /\ \A t \in added : order[t] < nextOrder
  /\ \A s, t \in added : order[s] = order[t] => s = t

GraphInv == StateInv /\ ShapeInv /\ CounterInv /\ TimeInv /\ OrderInv

\* A step keeps the counters within the limits it checked.
LEMMA CounterStep ==
  ASSUME TypeOK, TypeOK', CounterInv, CommitStep
  PROVE  CounterInv'
<1>. PICK stamp \in Times, T \in SUBSET added', n \in Nat :
       /\ HasSequenceRoom /\ T # {} /\ 1 <= n /\ n <= Cardinality(added') + 1
       /\ Commit(stamp, n) /\ added \subseteq added' /\ Cardinality(added') <= MaxTasks
       /\ sealed' => sealed \/ added # {}
  BY DEF CommitStep
<1>0. /\ version \in Nat /\ eventSequence \in Nat /\ MaxSequence \in Nat /\ MaxTasks \in Nat
      /\ Cardinality(added') \in Nat
  BY TaskGraphAssumption, TaskSetSize DEF TypeOK
<1>1. version' = version + 1 /\ eventSequence' \in Nat
      /\ eventSequence' >= eventSequence + n /\ eventSequence' <= eventSequence + n + 1
  BY <1>0 DEF Commit
<1>2. added' # {}
  OBVIOUS
<1>3. SequencesStaySafe'
  BY <1>0, <1>1 DEF SequencesStaySafe, HasSequenceRoom
<1>4. version' <= eventSequence' /\ version' # 0
  BY <1>0, <1>1 DEF CounterInv
<1>5. sealed' => version' >= 2
  BY <1>0, <1>1 DEF CounterInv
<1>. QED BY <1>2, <1>3, <1>4, <1>5 DEF CounterInv

\* A step keeps the time stamps of every task in order.
LEMMA TimeStep ==
  ASSUME TypeOK, TypeOK', TimeInv, CommitStep
  PROVE  TimeInv'
<1>. PICK stamp \in Times, T \in SUBSET added', n \in Nat :
       /\ stamp >= updatedAt /\ T # {} /\ Commit(stamp, n)
       /\ taskUpdatedAt' = [t \in TaskIds |-> IF t \in T THEN stamp ELSE taskUpdatedAt[t]]
       /\ createdAt' = createdAt /\ added \subseteq added'
       /\ \A t \in added : taskCreatedAt'[t] = taskCreatedAt[t]
       /\ \A t \in added' \ added : t \in T /\ taskCreatedAt'[t] = stamp
  BY DEF CommitStep
<1>0. updatedAt' = stamp /\ Times \subseteq Int /\ added' \subseteq TaskIds
      /\ createdAt \in Int /\ updatedAt \in Int /\ stamp \in Int /\ createdAt <= updatedAt
  BY TaskGraphAssumption DEF Commit, Times, TypeOK, TimeInv
<1>1. ASSUME NEW t \in added'
      PROVE  /\ createdAt' <= taskCreatedAt'[t]
             /\ taskCreatedAt'[t] <= taskUpdatedAt'[t]
             /\ taskUpdatedAt'[t] <= updatedAt'
  <2>0. t \in TaskIds /\ taskUpdatedAt'[t] = IF t \in T THEN stamp ELSE taskUpdatedAt[t]
    BY <1>0
  <2>1. CASE t \in added
    <3>1. /\ createdAt <= taskCreatedAt[t] /\ taskCreatedAt[t] <= taskUpdatedAt[t]
          /\ taskUpdatedAt[t] <= updatedAt /\ taskCreatedAt'[t] = taskCreatedAt[t]
          /\ taskCreatedAt[t] \in Int /\ taskUpdatedAt[t] \in Int
      BY <1>0, <2>0, <2>1 DEF TimeInv, TypeOK
    <3>. QED BY <1>0, <2>0, <3>1
  <2>2. CASE t \notin added
    BY <1>0, <2>0, <2>2
  <2>. QED BY <2>1, <2>2
<1>2. \E t \in added' : taskUpdatedAt'[t] = updatedAt'
  BY <1>0
<1>. QED BY <1>0, <1>1, <1>2 DEF TimeInv

\* A step keeps the shape of the graph and the order of its tasks.
LEMMA ShapeOrderStep ==
  ASSUME StateInv, ShapeInv, OrderInv, TypeOK', Next
  PROVE  ShapeInv' /\ OrderInv'
<1>0. /\ TypeOK /\ added \subseteq TaskIds /\ IsFiniteSet(added) /\ nextOrder \in Nat
      /\ Cardinality(added) \in Nat
  BY TaskSetSize DEF StateInv, TypeOK
<1>1. ASSUME NEW stamp \in Times, NEW batch \in SUBSET (TaskIds \ added),
             NEW wanted \in [batch -> SUBSET (added \cup batch)],
             NEW position \in Arrangements(batch),
             AddTasks(batch, wanted, position, stamp)
      PROVE  ShapeInv' /\ OrderInv'
  <2>0. /\ added' = added \cup batch /\ WellFormed(added', deps')
        /\ nextOrder' = nextOrder + Cardinality(batch)
        /\ order' = [t \in TaskIds |-> IF t \in batch THEN nextOrder + position[t] ELSE order[t]]
        /\ Cardinality(added) + Cardinality(batch) <= MaxTasks
    BY <1>1 DEF AddTasks
  <2>1. Cardinality(batch) \in Nat /\ IsFiniteSet(batch)
    BY TaskSetSize
  <2>2. Cardinality(added') = Cardinality(added) + Cardinality(batch)
    <3>1. added \cap batch = {}
      OBVIOUS
    <3>2. Cardinality(added \cap batch) = 0
      BY <3>1, FS_EmptySet
    <3>3. Cardinality(added \cup batch)
            = Cardinality(added) + Cardinality(batch) - Cardinality(added \cap batch)
      BY <1>0, <2>1, FS_Union
    <3>. QED BY <1>0, <2>0, <2>1, <3>2, <3>3
  <2>3. /\ \A t \in batch : position[t] \in Nat /\ position[t] < Cardinality(batch)
        /\ \A s, t \in batch : position[s] = position[t] => s = t
    BY <2>1 DEF Arrangements
  <2>4. /\ \A t \in added : order'[t] = order[t] /\ order[t] \in Nat /\ order[t] < nextOrder
        /\ \A t \in batch : order'[t] = nextOrder + position[t]
    BY <1>0, <2>0 DEF OrderInv, TypeOK
  <2>5. \A t \in added' : order'[t] < nextOrder'
    BY <1>0, <2>0, <2>1, <2>3, <2>4
  <2>6. \A s, t \in added' : order'[s] = order'[t] => s = t
    BY <1>0, <2>0, <2>3, <2>4 DEF OrderInv
  <2>. QED BY <2>0, <2>2, <2>5, <2>6 DEF ShapeInv, OrderInv
<1>2. ASSUME NEW stamp \in Times, NEW t \in TaskIds, NEW d \in TaskIds,
             AddDependency(t, d, stamp)
      PROVE  ShapeInv' /\ OrderInv'
  BY <1>2 DEF AddDependency, ShapeInv, OrderInv
<1>3. CASE UNCHANGED topology
  BY <1>3 DEF topology, ShapeInv, OrderInv
<1>4. CASE Hydrate
  <2>1. UNCHANGED <<added, deps, order>>
    BY <1>4 DEF Hydrate
  <2>2. nextOrder' = nextOrder
    <3>1. CASE added = {}
      BY <1>4, <3>1, FS_EmptySet DEF Hydrate, OrderInv
    <3>2. CASE added # {}
      <4>1. PICK last \in added : /\ \A t \in added : order[t] <= order[last]
                                  /\ nextOrder' = order[last] + 1
        BY <1>4, <3>2 DEF Hydrate
      <4>2. \A m \in 0 .. Cardinality(added) - 1 : \E t \in added : order[t] = m
        BY <1>4 DEF Hydrate, SnapshotEnvelopeValid
      <4>3. Cardinality(added) >= 1
        BY <1>0, <3>2, FS_EmptySet
      <4>4. PICK top \in added : order[top] = Cardinality(added) - 1
        BY <1>0, <4>2, <4>3
      <4>5. order[last] \in Nat /\ order[last] < nextOrder /\ order[top] <= order[last]
            /\ nextOrder = Cardinality(added)
        BY <1>0, <4>1 DEF OrderInv, TypeOK
      <4>. QED BY <1>0, <4>1, <4>4, <4>5
    <3>. QED BY <3>1, <3>2
  <2>. QED BY <2>1, <2>2 DEF ShapeInv, OrderInv
<1>. QED
  BY <1>1, <1>2, <1>3, <1>4
  DEF Next, PlanningStep, TaskStep, StartTask, MarkTaskWaiting, MarkTaskNeedsResolution,
      ResumeTask, SucceedTask, FailTask, CancelTask, PerformTransition, Settle, Seal,
      CancelRemaining

\* The invariant of the aggregate holds after every method and restart.
LEMMA GraphInvariance == Spec => []GraphInv
<1>1. Init => GraphInv
  <2>. SUFFICES ASSUME Init PROVE GraphInv
    OBVIOUS
  <2>0. added = {} /\ Cardinality(added) = 0 /\ createdAt \in Nat
    BY FS_EmptySet, TaskGraphAssumption DEF Init, Times
  <2>1. TypeOK
    <3>1. 0 \in Times
      BY TaskGraphAssumption DEF Times
    <3>2. sealed \in BOOLEAN
      BY Zenon DEF Init
    <3>. QED BY <3>1, <3>2 DEF Init, TypeOK, Statuses
  <2>2. StateInv
    BY <2>1 DEF Init, StateInv, Closed, HydratedTaskStatesValid, PlannedTaskValid
  <2>3. ShapeInv
    <3>1. Edges(added, deps) = {}
      BY <2>0 DEF Edges
    <3>2. Cardinality(Edges(added, deps)) <= MaxEdges
      BY <3>1, FS_EmptySet, TaskGraphAssumption
    <3>3. \E rank \in [added -> 1 .. MaxDepth] : Ranks(rank, added, deps)
      <4>. DEFINE none == [t \in added |-> 1]
      <4>1. none \in [added -> 1 .. MaxDepth] /\ Ranks(none, added, deps)
        BY <2>0 DEF Ranks
      <4>. HIDE DEF none
      <4>. QED BY <4>1, Zenon
    <3>4. WellFormed(added, deps)
      BY <3>2, <3>3, Zenon DEF WellFormed
    <3>5. Cardinality(added) <= MaxTasks
      BY <2>0, TaskGraphAssumption
    <3>. QED BY <3>4, <3>5 DEF ShapeInv
  <2>4. CounterInv
    BY <2>0, TaskGraphAssumption DEF Init, CounterInv, SequencesStaySafe
  <2>5. TimeInv /\ OrderInv
    BY <2>0 DEF Init, TimeInv, OrderInv
  <2>. QED BY <2>2, <2>3, <2>4, <2>5 DEF GraphInv
<1>2. GraphInv /\ TypeOK' /\ [Next]_vars => GraphInv'
  <2>. SUFFICES ASSUME GraphInv, TypeOK', [Next]_vars PROVE GraphInv'
    OBVIOUS
  <2>1. StateInv' /\ StateInv /\ TypeOK
    BY StateInvStep DEF GraphInv, StateInv
  <2>2. CASE CommitStep /\ Next
    BY <2>1, <2>2, CounterStep, TimeStep, ShapeOrderStep DEF GraphInv
  <2>3. CASE Hydrate
    <3>1. ShapeInv' /\ OrderInv'
      BY <2>1, <2>3, ShapeOrderStep DEF GraphInv, Next
    <3>2. CounterInv' /\ TimeInv'
      BY <2>3 DEF Hydrate, counters, GraphInv, CounterInv, TimeInv, SequencesStaySafe
    <3>. QED BY <2>1, <3>1, <3>2 DEF GraphInv
  <2>4. CASE UNCHANGED vars
    BY <2>1, <2>4 DEF vars, topology, counters, GraphInv, ShapeInv, CounterInv, TimeInv,
                      OrderInv, SequencesStaySafe
  <2>. QED BY <2>1, <2>2, <2>3, <2>4, StepCommits DEF GraphInv
<1>. QED BY <1>1, <1>2, TypeCorrect, PTL DEF Spec

\* parseSnapshot and validateHydratedTaskStates accept the snapshot of every
\* state the methods can reach, for every number of tasks and every limit:
\* a restart never finds its own snapshot corrupt.
THEOREM SnapshotsRoundTrip == Spec => []SnapshotRoundTrips
<1>1. GraphInv => SnapshotRoundTrips
  <2>. SUFFICES ASSUME GraphInv PROVE SnapshotRoundTrips
    OBVIOUS
  <2>0. /\ TypeOK /\ Closed /\ HydratedTaskStatesValid /\ added \subseteq TaskIds
        /\ IsFiniteSet(added) /\ Cardinality(added) \in Nat
        /\ ShapeInv /\ CounterInv /\ TimeInv /\ OrderInv
    BY TaskSetSize DEF GraphInv, StateInv, TypeOK
  <2>1. version \in 0 .. MaxSequence /\ eventSequence \in 0 .. MaxSequence
    BY <2>0, TaskGraphAssumption DEF TypeOK, CounterInv, SequencesStaySafe
  <2>2. \A n \in 0 .. Cardinality(added) - 1 : \E t \in added : order[t] = n
    <3>. DEFINE slots == 0 .. Cardinality(added) - 1
                place == [t \in added |-> order[t]]
    <3>1. place \in Injection(added, slots)
      <4>1. \A t \in added : order[t] \in slots
        BY <2>0 DEF OrderInv, TypeOK
      <4>. QED BY <2>0, <4>1 DEF OrderInv, Injection, IsInjective
    <3>2. IsFiniteSet(slots) /\ Cardinality(slots) = Cardinality(added)
      <4>1. /\ IsFiniteSet(slots)
            /\ Cardinality(slots) = IF 0 > Cardinality(added) - 1 THEN 0
                                    ELSE Cardinality(added) - 1 - 0 + 1
        BY <2>0, FS_Interval
      <4>. QED BY <2>0, <4>1
    <3>3. place \in Surjection(added, slots)
      <4>. HIDE DEF place, slots
      <4>. QED BY <3>1, <3>2, FS_Injection
    <3>4. \A n \in slots : \E t \in added : place[t] = n
      BY <3>3 DEF Surjection
    <3>. QED BY <3>4
  <2>. QED
    BY <2>0, <2>1, <2>2
    DEF SnapshotRoundTrips, SnapshotEnvelopeValid, TimeInv, OrderInv, CounterInv, Closed, ShapeInv
<1>. QED BY <1>1, GraphInvariance, PTL

\* #assertExpectedVersion reserves enough numbers: no version or event
\* sequence ever passes the largest safe integer.
THEOREM SequencesSafe == Spec => []SequencesStaySafe
<1>1. GraphInv => SequencesStaySafe
  BY DEF GraphInv, CounterInv
<1>. QED BY <1>1, GraphInvariance, PTL

\* A sealed graph with a pending task has a task that is ready or under way:
\* the first pending task in dependency order has a dependency that is
\* neither settled nor pending.
THEOREM PendingNeverStuck == Spec => []PendingIsNeverStuck
<1>1. GraphInv => PendingIsNeverStuck
  <2>. SUFFICES ASSUME GraphInv, sealed, \E t \in added : status[t] = "pending"
                PROVE  \E t \in added : status[t] \in Underway
    BY DEF PendingIsNeverStuck, Underway
  <2>0. TypeOK /\ Closed /\ HydratedTaskStatesValid /\ WellFormed(added, deps)
    BY DEF GraphInv, StateInv, ShapeInv
  <2>. DEFINE S == {t \in added : status[t] = "pending"}
  <2>1. PICK t \in S : \A d \in deps[t] : d \notin S
    <3>1. S \in SUBSET added /\ S # {} /\ \A t \in added : deps[t] \subseteq added
      BY <2>0 DEF Closed
    <3>. HIDE DEF S
    <3>. QED BY <2>0, <3>1, FirstTask
  <2>2. PICK d \in deps[t] : status[d] # "succeeded" /\ status[d] \notin Unsuccessful
    BY <2>0, <2>1 DEF HydratedTaskStatesValid, SealedTaskValid
  <2>3. d \in added /\ status[d] # "pending" /\ status[d] \in Statuses
    BY <2>0, <2>1, <2>2 DEF Closed, TypeOK
  <2>. QED BY <2>2, <2>3 DEF Statuses, Unsuccessful, Underway
<1>. QED BY <1>1, GraphInvariance, PTL

\* A terminal status, its outputs, failure and blockers never change again:
\* transitions refuse a terminal task, reconciliation only touches pending
\* ones and cancelRemaining skips the settled.
THEOREM SettledTasksStay == Spec => SettledForGood
<1>. DEFINE Kept == \A t \in added : status[t] \in Terminal =>
                      /\ status'[t] = status[t] /\ outputs'[t] = outputs[t]
                      /\ failure'[t] = failure[t] /\ blockedBy'[t] = blockedBy[t]
<1>1. TypeOK /\ [Next]_vars => [Kept]_vars
  <2>. SUFFICES ASSUME TypeOK, Next, NEW u \in added, status[u] \in Terminal
                PROVE  /\ status'[u] = status[u] /\ outputs'[u] = outputs[u]
                       /\ failure'[u] = failure[u] /\ blockedBy'[u] = blockedBy[u]
    OBVIOUS
  <2>. DEFINE Same == /\ status'[u] = status[u] /\ outputs'[u] = outputs[u]
                      /\ failure'[u] = failure[u] /\ blockedBy'[u] = blockedBy[u]
  <2>0. u \in TaskIds
    BY DEF TypeOK
  <2>1. ASSUME NEW st, NEW bb, NEW touched, NEW stamp, NEW n,
               ReconcilePendingTasks(st, bb, touched, stamp, n), st[u] \in Terminal
        PROVE  status'[u] = st[u] /\ blockedBy'[u] = bb[u]
    <3>1. st[u] # "pending"
      BY <2>1 DEF Terminal, Unsuccessful
    <3>. QED BY <2>0, <2>1, <3>1 DEF ReconcilePendingTasks, PendingIn, Released
  <2>2. ASSUME NEW stamp, Seal(stamp) PROVE Same
    BY <2>1, <2>2 DEF Seal, outcome
  <2>3. ASSUME NEW stamp, NEW t \in TaskIds, NEW from \in SUBSET Underway, NEW target,
               PerformTransition(t, from, target, stamp)
        PROVE  Same
    <3>1. t # u
      BY <2>3 DEF PerformTransition, MayTransition, Underway, Terminal, Unsuccessful
    <3>. QED BY <2>0, <2>3, <3>1 DEF PerformTransition, outcome, TypeOK
  <2>4. ASSUME NEW stamp, NEW t \in TaskIds, NEW from \in SUBSET (Underway \cup {"pending"}),
               NEW target, NEW out, NEW fail,
               MayTransition(t, from, stamp), Settle(t, target, out, fail, stamp)
        PROVE  Same
    <3>1. t # u
      BY <2>4 DEF MayTransition, Underway, Terminal, Unsuccessful
    <3>2. /\ [status EXCEPT ![t] = target][u] = status[u]
          /\ [blockedBy EXCEPT ![t] = {}][u] = blockedBy[u]
      BY <2>0, <3>1 DEF TypeOK
    <3>3. outputs'[u] = outputs[u] /\ failure'[u] = failure[u]
      BY <2>0, <2>4, <3>1 DEF Settle, TypeOK
    <3>4. ReconcilePendingTasks([status EXCEPT ![t] = target],
                                [blockedBy EXCEPT ![t] = {}], {t}, stamp, 1)
      BY <2>4 DEF Settle
    <3>5. status'[u] = status[u] /\ blockedBy'[u] = blockedBy[u]
      BY <2>1, <3>2, <3>4
    <3>. QED BY <3>3, <3>5
  <2>5. ASSUME NEW stamp, CancelRemaining(stamp) PROVE Same
    BY <2>0, <2>5 DEF CancelRemaining
  <2>6. ASSUME NEW stamp, NEW batch, NEW wanted, NEW position,
               AddTasks(batch, wanted, position, stamp)
        PROVE  Same
    BY <2>6 DEF AddTasks, outcome
  <2>7. ASSUME NEW stamp, NEW t, NEW d, AddDependency(t, d, stamp) PROVE Same
    BY <2>7 DEF AddDependency, outcome
  <2>8. ASSUME Hydrate PROVE Same
    BY <2>8 DEF Hydrate, outcome
  <2>. QED
    BY <2>2, <2>3, <2>4, <2>5, <2>6, <2>7, <2>8
    DEF Next, PlanningStep, TaskStep, StartTask, MarkTaskWaiting, MarkTaskNeedsResolution,
        ResumeTask, SucceedTask, FailTask, CancelTask, Underway
<1>. QED BY <1>1, TypeCorrect, PTL DEF Spec, SettledForGood

\* The tasks that Blocks speaks of exist: a task is blocked if every set that
\* is closed under blocking has it.
LEMMA BlockedTasksExist ==
  ASSUME NEW st
  PROVE  \E B \in SUBSET PendingIn(st) : Blocks(B, st)
<1>. DEFINE Kept(S) == \A t \in PendingIn(st) : BlockersOf(t, st, S) # {} => t \in S
<1>1. PICK B : B = {t \in PendingIn(st) : \A S \in SUBSET PendingIn(st) : Kept(S) => t \in S}
  OBVIOUS
<1>2. \A S, R : S \subseteq R =>
        \A t : BlockersOf(t, st, S) # {} => BlockersOf(t, st, R) # {}
  BY DEF BlockersOf
<1>3. Kept(B)
  BY <1>1, <1>2
<1>4. ASSUME NEW t \in B, BlockersOf(t, st, B) = {}
      PROVE  FALSE
  <2>1. B \ {t} \in SUBSET PendingIn(st)
    BY <1>1
  <2>2. Kept(B \ {t})
    BY <1>2, <1>3, <1>4
  <2>. QED BY <1>1, <2>1, <2>2
<1>. QED BY <1>1, <1>3, <1>4 DEF Blocks

\* They are determined: of the tasks on which two answers differ, one has no
\* dependency among them, and would have the same blockers by both.
LEMMA BlockedTasksAreUnique ==
  ASSUME TypeOK, WellFormed(added, deps), Closed, NEW st,
         NEW B \in SUBSET PendingIn(st), NEW C \in SUBSET PendingIn(st),
         Blocks(B, st), Blocks(C, st)
  PROVE  B = C
<1>. DEFINE S == (B \ C) \cup (C \ B)
<1>1. SUFFICES ASSUME S # {} PROVE FALSE
  OBVIOUS
<1>2. S \in SUBSET added
  BY DEF PendingIn
<1>3. PICK t \in S : \A d \in deps[t] : d \notin S
  <2>1. \A u \in added : deps[u] \subseteq added
    BY DEF Closed
  <2>. HIDE DEF S
  <2>. QED BY <1>1, <1>2, <2>1, FirstTask
<1>4. BlockersOf(t, st, B) = BlockersOf(t, st, C)
  BY <1>3 DEF BlockersOf
<1>. QED BY <1>4 DEF Blocks

\* What a commit has to do with the pending tasks is always possible, and
\* leaves no choice: the one walk of #reconcilePendingTasks computes all of it.
ReconciliationIsDetermined ==
  \A st \in [TaskIds -> Statuses] :
    \E B \in SUBSET PendingIn(st) :
      /\ Blocks(B, st)
      /\ \A C \in SUBSET PendingIn(st) : Blocks(C, st) => C = B

\* Reconciliation never refuses a mutation and never has two outcomes, in any
\* graph that can be built and whatever the statuses are.
THEOREM ReconciliationDetermined == Spec => []ReconciliationIsDetermined
<1>1. GraphInv => ReconciliationIsDetermined
  <2>. SUFFICES ASSUME GraphInv, NEW st \in [TaskIds -> Statuses]
                PROVE  \E B \in SUBSET PendingIn(st) :
                         /\ Blocks(B, st)
                         /\ \A C \in SUBSET PendingIn(st) : Blocks(C, st) => C = B
    BY DEF ReconciliationIsDetermined
  <2>1. TypeOK /\ Closed /\ WellFormed(added, deps)
    BY DEF GraphInv, StateInv, ShapeInv
  <2>2. PICK B \in SUBSET PendingIn(st) : Blocks(B, st)
    BY BlockedTasksExist
  <2>3. \A C \in SUBSET PendingIn(st) : Blocks(C, st) => C = B
    BY <2>1, <2>2, BlockedTasksAreUnique
  <2>. QED BY <2>2, <2>3
<1>. QED BY <1>1, GraphInvariance, PTL

(***************************************************************************)
(* The loops of a commit: the heap, the sort, and the walk over its order. *)
(* CommitInv is the inductive invariant of WalkSpec.                       *)
(***************************************************************************)

\* The members of a list, in any order.
Elements(s) == {s[i] : i \in 1 .. Len(s)}

\* The heap, with what a loop is about to put into its slot.
Filled == IF sift = "none" THEN heap ELSE [heap EXCEPT ![hole] = held]

Child(j, i) == j = 2 * i \/ j = 2 * i + 1

\* The tasks that wait to be taken.
Queued == {t \in Tasks : indegree[t] = 0 /\ t \notin todo /\ t \notin Elements(ordered)}

\* The dependencies that a task still has to be told of.
Unmet(u) ==
  {d \in dependencies[u] : d \notin Elements(ordered) \/ (u \in todo /\ d = ordered[Len(ordered)])}

QueueTypeOK ==
  /\ heap \in Seq(Tasks) /\ sift \in {"none", "up", "down"}
  /\ hole \in Nat /\ held \in Nat
  /\ sift # "none" => hole \in 1 .. Len(heap) /\ held \in Tasks

SortTypeOK ==
  /\ dependencies \in [Tasks -> SUBSET Tasks]
  /\ indegree \in [Tasks -> Nat] /\ depth \in [Tasks -> Nat]
  /\ ordered \in Seq(Tasks) /\ todo \in SUBSET Tasks
  /\ verdict \in {"seeding", "sorting", "too deep", "cycle", "walking", "done"}

StatusTypeOK ==
  /\ before \in [Tasks -> Statuses] /\ taskStatus \in [Tasks -> Statuses]
  /\ blockers \in [Tasks -> SUBSET Tasks] /\ visited \in 0 .. Len(ordered)

\* F, of length n, is a heap: no task is twice in it, and every one is above
\* its children.  While a loop moves a task up or down, the slot h it is in
\* answers for itself, and those around it are in order.
Sifted(F, n, s, h) ==
  /\ \A i, j \in 1 .. n : i # j => F[i] # F[j]
  /\ \A i, j \in 1 .. n :
       Child(j, i) /\ ~ (s = "up" /\ j = h) /\ ~ (s = "down" /\ i = h) => F[i] <= F[j]
  /\ s # "none" => \A i, j \in 1 .. n : Child(h, i) /\ Child(j, h) => F[i] <= F[j]

HeapInv == Sifted(Filled, Len(heap), sift, hole)

\* The heap holds the tasks that wait.
QueueInv == Elements(Filled) = Queued

\* A task is ordered once, and after its dependencies.
ArrangedInv ==
  /\ \A i, j \in 1 .. Len(ordered) : i # j => ordered[i] # ordered[j]
  /\ IsFiniteSet(Elements(ordered)) /\ Cardinality(Elements(ordered)) = Len(ordered)
  /\ \A i \in 1 .. Len(ordered) : \A d \in dependencies[ordered[i]] :
       \E j \in 1 .. i - 1 : ordered[j] = d

\* A waiting task overtaken by a higher one had a dependency in between.
LeastInv ==
  /\ LeastFirst
  /\ \A t \in Queued : \A i \in 1 .. Len(ordered) :
       t < ordered[i] => \E k \in i .. Len(ordered) : ordered[k] \in dependencies[t]

\* While the sort runs: the degrees count what is unmet, and the depths are
\* the least ones that what was met allows.
DegreeInv ==
  /\ \A u \in Tasks : indegree[u] = Cardinality(Unmet(u))
  /\ verdict = "seeding" => ordered = <<>> /\ \A t \in todo : indegree[t] = 0
  /\ verdict = "sorting" /\ todo # {} =>
       ordered # <<>> /\ todo \subseteq Dependents(ordered[Len(ordered)])
  /\ todo \cap Elements(ordered) = {}

DepthInv ==
  /\ \A u \in Tasks : depth[u] \in 1 .. DepthLimit
  /\ \A u \in Tasks : \A d \in dependencies[u] \ Unmet(u) : depth[d] < depth[u]
  /\ \A rank \in [Tasks -> 1 .. DepthLimit] :
       Reference!Ranks(rank, Tasks, dependencies) => \A u \in Tasks : depth[u] <= rank[u]

SortInv == verdict \in {"seeding", "sorting"} => DegreeInv /\ DepthInv

Seen(t) == \E i \in 1 .. visited : ordered[i] = t

\* What the walk makes of a pending task, once it was there.
Decided(t) ==
  IF UnsuccessfulDependencies(t) # {}
    THEN taskStatus[t] = "blocked" /\ blockers[t] = UnsuccessfulDependencies(t)
  ELSE IF \A d \in dependencies[t] : taskStatus[d] = "succeeded" THEN taskStatus[t] = "ready"
  ELSE taskStatus[t] = "pending"

WalkInv ==
  IF verdict \in {"walking", "done"}
    THEN /\ Elements(ordered) = Tasks
         /\ \A t \in Tasks : IF Seen(t) /\ before[t] = "pending" THEN Decided(t)
                             ELSE taskStatus[t] = before[t]
         /\ verdict = "done" => visited = Len(ordered)
    ELSE visited = 0

CommitInv ==
  /\ QueueTypeOK /\ SortTypeOK /\ StatusTypeOK
  /\ HeapInv /\ QueueInv /\ ArrangedInv /\ LeastInv
  /\ SortInv /\ VerdictIsRight /\ WalkInv

-----------------------------------------------------------------------------
(* The heap                                                                 *)

\* A nonempty set of numbers has a least one.
LEMMA LeastOf ==
  ASSUME NEW S \in SUBSET Nat, S # {}
  PROVE  \E n \in S : \A m \in S : n <= m
<1>1. PICK n \in S : \A m \in S : ~ (<<m, n>> \in OpToRel(<, Nat))
  BY NatLessThanWellFounded, WFMin, Zenon
<1>2. ASSUME NEW m \in S PROVE n <= m
  <2>1. m \in Nat /\ n \in Nat OBVIOUS
  <2>2. ASSUME m < n PROVE FALSE
    <3>1. <<m, n>> \in OpToRel(<, Nat) BY <2>1, <2>2 DEF OpToRel
    <3> QED BY <1>1, <3>1
  <2> QED BY <2>1, <2>2
<1> QED BY <1>2

\* The parent of an index.
LEMMA ParentIndex ==
  ASSUME NEW i \in Nat, i > 1
  PROVE  i \div 2 \in Nat /\ 1 <= i \div 2 /\ i \div 2 < i /\ Child(i, i \div 2)
BY SMT DEF Child

\* The first task of the heap is the least one.
LEMMA RootIsLeast ==
  ASSUME QueueTypeOK, HeapInv, sift = "none", NEW i \in 1 .. Len(heap)
  PROVE  heap[1] <= heap[i]
<1> DEFINE smaller == {j \in 1 .. Len(heap) : heap[j] < heap[1]}
<1>1. Len(heap) \in Nat /\ \A j \in 1 .. Len(heap) : heap[j] \in Nat
  BY WalkAssumption DEF QueueTypeOK, Tasks, WalkAssumption
<1>2. SUFFICES ASSUME smaller # {} PROVE FALSE
  BY <1>1
<1>3. PICK j \in smaller : \A k \in smaller : j <= k
  <2>1. smaller \in SUBSET Nat OBVIOUS
  <2> HIDE DEF smaller
  <2> QED BY <1>2, <2>1, LeastOf
<1>4. j \in Nat /\ j > 1 BY <1>1
<1>5. PICK p \in Nat : p = j \div 2 BY <1>4, ParentIndex
<1>6. p \in 1 .. Len(heap) /\ p < j /\ Child(j, p)
  BY <1>1, <1>4, <1>5, ParentIndex
<1>7. heap[p] <= heap[j]
  BY <1>6 DEF HeapInv, Sifted, Filled
<1>8. heap[p] < heap[1] BY <1>1, <1>6, <1>7
<1> QED BY <1>3, <1>4, <1>6, <1>8

\* Two tasks of a list change places.
LEMMA SwapKeepsMembers ==
  ASSUME NEW F \in Seq(Tasks), NEW G \in Seq(Tasks), Len(G) = Len(F),
         NEW h \in 1 .. Len(F), NEW p \in 1 .. Len(F),
         G[h] = F[p], G[p] = F[h], \A i \in 1 .. Len(F) : i \notin {h, p} => G[i] = F[i]
  PROVE  Elements(G) = Elements(F)
<1>1. ASSUME NEW i \in 1 .. Len(F) PROVE \E j \in 1 .. Len(F) : F[i] = G[j]
  BY <1>1
<1>2. ASSUME NEW i \in 1 .. Len(F) PROVE \E j \in 1 .. Len(F) : G[i] = F[j]
  BY <1>2
<1>3. Elements(G) \subseteq Elements(F) BY <1>2 DEF Elements
<1>4. Elements(F) \subseteq Elements(G) BY <1>1 DEF Elements
<1> QED BY <1>3, <1>4

\* A task rises to the slot of its parent.
LEMMA RisingKeepsOrder ==
  ASSUME NEW n \in Nat, NEW F, NEW G, NEW h \in 1 .. n, NEW p \in 1 .. n, Child(h, p),
         \A i \in 1 .. n : F[i] \in Nat, Sifted(F, n, "up", h), F[h] < F[p],
         G[h] = F[p], G[p] = F[h], \A i \in 1 .. n : i \notin {h, p} => G[i] = F[i]
  PROVE  Sifted(G, n, "up", p)
<1>1. h # p BY DEF Child
<1>2. \A i, j \in 1 .. n : i # j => G[i] # G[j] BY <1>1 DEF Sifted
<1>3. ASSUME NEW i \in 1 .. n, NEW j \in 1 .. n, Child(j, i), j # p PROVE G[i] <= G[j]
  <2>0. j # i BY <1>3 DEF Child
  <2>1. CASE j = h
    <3>1. i = p BY <1>3, <2>1 DEF Child
    <3> QED BY <2>1, <3>1
  <2>2. CASE j # h /\ i = p
    <3>1. F[p] <= F[j] BY <1>3, <2>2 DEF Sifted
    <3> QED BY <1>3, <2>2, <3>1
  <2>3. CASE j # h /\ i = h
    <3>1. F[p] <= F[j] BY <1>3, <2>3 DEF Sifted
    <3> QED BY <1>3, <2>3, <3>1
  <2>4. CASE j # h /\ i # p /\ i # h
    <3>1. F[i] <= F[j] BY <1>3, <2>4 DEF Sifted
    <3> QED BY <1>3, <2>4, <3>1
  <2> QED BY <2>1, <2>2, <2>3, <2>4
<1>4. ASSUME NEW i \in 1 .. n, NEW j \in 1 .. n, Child(p, i), Child(j, p) PROVE G[i] <= G[j]
  <2>1. i # p /\ i # h /\ j # p BY <1>4 DEF Child
  <2>2. F[i] <= F[p] BY <1>1, <1>4 DEF Sifted
  <2>3. CASE j = h BY <2>1, <2>2, <2>3
  <2>4. CASE j # h
    <3>1. F[p] <= F[j] BY <1>4, <2>4 DEF Sifted
    <3> QED BY <2>1, <2>2, <2>4, <3>1
  <2> QED BY <2>3, <2>4
<1> QED BY <1>2, <1>3, <1>4 DEF Sifted

\* A task sinks to the slot of its smaller child.
LEMMA SinkingKeepsOrder ==
  ASSUME NEW n \in Nat, NEW F, NEW G, NEW h \in 1 .. n, NEW c \in 1 .. n, Child(c, h),
         \A i \in 1 .. n : F[i] \in Nat, Sifted(F, n, "down", h), F[c] < F[h],
         \A j \in 1 .. n : Child(j, h) => F[c] <= F[j],
         G[h] = F[c], G[c] = F[h], \A i \in 1 .. n : i \notin {h, c} => G[i] = F[i]
  PROVE  Sifted(G, n, "down", c)
<1>1. h # c BY DEF Child
<1>2. \A i, j \in 1 .. n : i # j => G[i] # G[j] BY <1>1 DEF Sifted
<1>3. ASSUME NEW i \in 1 .. n, NEW j \in 1 .. n, Child(j, i), i # c PROVE G[i] <= G[j]
  <2>0. j # i BY <1>3 DEF Child
  <2>1. CASE j = c
    <3>1. i = h BY <1>3, <2>1 DEF Child
    <3> QED BY <2>1, <3>1
  <2>2. CASE j # c /\ i = h
    BY <1>3, <2>0, <2>2
  <2>3. CASE j = h
    <3>1. F[i] <= F[c] BY <1>3, <2>3 DEF Sifted
    <3> QED BY <1>3, <2>0, <2>3, <3>1
  <2>4. CASE j # c /\ i # h /\ j # h
    <3>1. F[i] <= F[j] BY <1>3, <2>4 DEF Sifted
    <3> QED BY <1>3, <2>4, <3>1
  <2> QED BY <2>1, <2>2, <2>3, <2>4
<1>4. ASSUME NEW i \in 1 .. n, NEW j \in 1 .. n, Child(c, i), Child(j, c) PROVE G[i] <= G[j]
  <2>1. i = h /\ j # c /\ j # h BY <1>4 DEF Child
  <2>2. F[c] <= F[j] BY <1>1, <1>4 DEF Sifted
  <2> QED BY <2>1, <2>2
<1> QED BY <1>2, <1>3, <1>4 DEF Sifted

\* A turn of a sifting loop keeps the heap in order and its tasks.
LEMMA SiftKeepsHeap ==
  ASSUME QueueTypeOK, HeapInv, SiftUp \/ SiftDown
  PROVE  QueueTypeOK' /\ HeapInv' /\ Elements(Filled)' = Elements(Filled)
<1> DEFINE n == Len(heap)
<1>1. /\ n \in Nat /\ heap \in Seq(Tasks) /\ hole \in 1 .. n /\ held \in Tasks
      /\ sift \in {"up", "down"}
  BY DEF QueueTypeOK, SiftUp, SiftDown
<1>2. PICK F : F = Filled
  OBVIOUS
<1>3. /\ F = [heap EXCEPT ![hole] = held]
      /\ F \in Seq(Tasks) /\ Len(F) = n /\ F[hole] = held
      /\ \A i \in 1 .. n : i # hole => F[i] = heap[i]
      /\ \A i \in 1 .. n : F[i] \in Nat
      /\ Sifted(F, n, sift, hole)
  <2>1. F = [heap EXCEPT ![hole] = held] BY <1>1, <1>2 DEF Filled
  <2>2. F \in Seq(Tasks) /\ Len(F) = n /\ F[hole] = held
    BY <1>1, <2>1
  <2>3. \A i \in 1 .. n : i # hole => F[i] = heap[i]
    BY <1>1, <2>1
  <2>4. \A i \in 1 .. n : F[i] \in Nat
    BY <1>1, <2>2, WalkAssumption DEF Tasks, WalkAssumption
  <2>5. Sifted(F, n, sift, hole) BY <1>2 DEF HeapInv
  <2> QED BY <2>1, <2>2, <2>3, <2>4, <2>5
<1>4. CASE Place
  <2>1. heap' = F /\ sift' = "none" /\ hole' = 0 /\ held' = 0 BY <1>3, <1>4 DEF Place
  <2>2. Filled' = F BY <2>1 DEF Filled
  <2>3. ASSUME sift = "up" => ~ (hole > 1 /\ heap[hole \div 2] > held),
               sift = "down" => \A j \in 1 .. n : Child(j, hole) => held <= heap[j]
        PROVE  QueueTypeOK' /\ HeapInv' /\ Elements(Filled)' = Elements(Filled)
    <3>1. ASSUME NEW i \in 1 .. n, NEW j \in 1 .. n, Child(j, i) PROVE F[i] <= F[j]
      <4>1. i # j BY <3>1 DEF Child
      <4>2. CASE sift = "up" /\ j = hole
        <5>1. hole > 1 /\ i = hole \div 2 BY <3>1, <4>2 DEF Child
        <5>2. ~ (heap[i] > held) BY <2>3, <4>2, <5>1
        <5> QED BY <1>3, <4>1, <4>2, <5>2
      <4>3. CASE sift = "down" /\ i = hole
        <5>1. held <= heap[j] BY <2>3, <3>1, <4>3
        <5> QED BY <1>3, <4>1, <4>3, <5>1
      <4>4. CASE ~ (sift = "up" /\ j = hole) /\ ~ (sift = "down" /\ i = hole)
        BY <1>3, <3>1, <4>4 DEF Sifted
      <4> QED BY <4>2, <4>3, <4>4
    <3>2. Sifted(F, n, "none", 0) BY <1>3, <3>1 DEF Sifted
    <3>3. HeapInv' BY <1>3, <2>1, <2>2, <3>2 DEF HeapInv
    <3>4. QueueTypeOK' BY <1>3, <2>1 DEF QueueTypeOK
    <3>5. Elements(Filled)' = Elements(Filled)
      <4>1. Elements(Filled)' = Elements(Filled') BY DEF Elements
      <4> QED BY <1>2, <2>2, <4>1
    <3> QED BY <3>3, <3>4, <3>5
  <2>4. CASE SiftUp
    <3>1. sift = "up" /\ (hole > 1 /\ heap[hole \div 2] > held => MoveFrom(hole \div 2))
      BY <2>4 DEF SiftUp
    <3>2. ~ (hole > 1 /\ heap[hole \div 2] > held) \/ MoveFrom(hole \div 2)
      BY <3>1
    <3>3. ASSUME MoveFrom(hole \div 2) PROVE sift' # "none"
      BY <3>1, <3>3 DEF MoveFrom
    <3> QED BY <2>1, <2>3, <3>1, <3>2, <3>3
  <2>5. CASE SiftDown
    <3>1. sift = "down" /\ ~ (2 * hole <= n /\ heap[SmallerChild] < held)
      <4>1. ASSUME MoveFrom(SmallerChild), sift = "down" PROVE sift' # "none"
        BY <4>1 DEF MoveFrom
      <4> QED BY <2>1, <2>5, <4>1 DEF SiftDown
    <3>2. ASSUME NEW j \in 1 .. n, Child(j, hole) PROVE held <= heap[j]
      <4>1. 2 * hole \in 1 .. n /\ heap[2 * hole] \in Nat /\ heap[j] \in Nat /\ held \in Nat
        BY <1>1, <3>2, WalkAssumption DEF Child, Tasks, WalkAssumption
      <4>2. ~ (heap[SmallerChild] < held) BY <3>1, <4>1
      <4>3. heap[SmallerChild] <= heap[j] /\ heap[SmallerChild] \in Nat
        <5>1. \A i \in 1 .. n : heap[i] \in Nat BY <1>1, WalkAssumption DEF Tasks, WalkAssumption
        <5>2. SmallerChild \in 1 .. n BY <1>1, <4>1 DEF SmallerChild
        <5> QED BY <1>1, <3>2, <4>1, <5>1, <5>2 DEF SmallerChild, Child
      <4> QED BY <4>1, <4>2, <4>3
    <3> QED BY <2>3, <3>1, <3>2
  <2> QED BY <2>4, <2>5
<1>5. ASSUME NEW i \in 1 .. n, MoveFrom(i), i # hole,
             \A G : G[hole] = F[i] /\ G[i] = F[hole]
                     /\ (\A j \in 1 .. n : j \notin {hole, i} => G[j] = F[j])
                     => Sifted(G, n, sift, i)
      PROVE  QueueTypeOK' /\ HeapInv' /\ Elements(Filled)' = Elements(Filled)
  <2>1. heap' = [heap EXCEPT ![hole] = heap[i]] /\ hole' = i /\ sift' = sift /\ held' = held
    BY <1>5 DEF MoveFrom
  <2>2. heap' \in Seq(Tasks) /\ Len(heap') = n /\ heap[i] \in Tasks BY <1>1, <2>1
  <2>3. PICK G : G = Filled'
    OBVIOUS
  <2>4. G = [heap' EXCEPT ![i] = held] BY <1>1, <2>1, <2>3 DEF Filled
  <2>5. G \in Seq(Tasks) /\ Len(G) = n /\ G[i] = held BY <1>1, <2>2, <2>4
  <2>6. G[hole] = heap[i] /\ \A j \in 1 .. n : j \notin {hole, i} => G[j] = heap[j]
    BY <1>1, <1>5, <2>1, <2>2, <2>4
  <2>7. G[hole] = F[i] /\ G[i] = F[hole] /\ \A j \in 1 .. n : j \notin {hole, i} => G[j] = F[j]
    BY <1>3, <1>5, <2>5, <2>6
  <2>8. HeapInv' BY <1>5, <2>1, <2>2, <2>3, <2>7 DEF HeapInv
  <2>9. QueueTypeOK' BY <1>1, <2>1, <2>2 DEF QueueTypeOK
  <2>10. Elements(G) = Elements(F)
    <3>1. F \in Seq(Tasks) /\ Len(G) = Len(F) /\ hole \in 1 .. Len(F) /\ i \in 1 .. Len(F)
          /\ \A j \in 1 .. Len(F) : j \notin {hole, i} => G[j] = F[j]
      BY <1>1, <1>3, <2>5, <2>7
    <3> QED BY <2>5, <2>7, <3>1, SwapKeepsMembers
  <2>11. Elements(Filled)' = Elements(G) BY <2>3 DEF Elements
  <2> QED BY <1>2, <2>8, <2>9, <2>10, <2>11
<1>6. CASE SiftUp /\ MoveFrom(hole \div 2) /\ hole > 1 /\ heap[hole \div 2] > held
  <2>1. sift = "up" BY <1>6 DEF SiftUp
  <2>2. PICK p \in Nat : p = hole \div 2 BY <1>1, <1>6, ParentIndex
  <2>3. p \in 1 .. n /\ p # hole /\ Child(hole, p) BY <1>1, <1>6, <2>2, ParentIndex
  <2>4. F[hole] < F[p] BY <1>1, <1>3, <1>6, <2>2, <2>3
  <2>5. \A G : G[hole] = F[p] /\ G[p] = F[hole]
                /\ (\A j \in 1 .. n : j \notin {hole, p} => G[j] = F[j])
                => Sifted(G, n, sift, p)
    BY <1>1, <1>3, <2>1, <2>3, <2>4, RisingKeepsOrder
  <2> QED BY <1>5, <1>6, <2>2, <2>3, <2>5
<1>7. CASE SiftDown /\ MoveFrom(SmallerChild) /\ 2 * hole <= n /\ heap[SmallerChild] < held
  <2>1. sift = "down" BY <1>7 DEF SiftDown
  <2>2. SmallerChild \in 1 .. n /\ Child(SmallerChild, hole) /\ SmallerChild # hole
    BY <1>1, <1>7 DEF SmallerChild, Child
  <2>3. PICK c \in 1 .. n : c = SmallerChild BY <2>2
  <2>4. \A j \in 1 .. n : Child(j, hole) => heap[c] <= heap[j]
    <3>1. \A j \in 1 .. n : heap[j] \in Nat BY <1>1, WalkAssumption DEF Tasks, WalkAssumption
    <3> QED BY <1>1, <1>7, <2>3, <3>1 DEF SmallerChild, Child
  <2>5. \A j \in 1 .. n : Child(j, hole) => F[c] <= F[j]
    <3>1. \A j \in 1 .. n : Child(j, hole) => j # hole BY <1>1 DEF Child
    <3> QED BY <1>3, <2>2, <2>3, <2>4, <3>1
  <2>6. F[c] < F[hole] BY <1>1, <1>3, <1>7, <2>2, <2>3
  <2>7. \A G : G[hole] = F[c] /\ G[c] = F[hole]
                /\ (\A j \in 1 .. n : j \notin {hole, c} => G[j] = F[j])
                => Sifted(G, n, sift, c)
    BY <1>1, <1>3, <2>1, <2>2, <2>3, <2>5, <2>6, SinkingKeepsOrder
  <2> QED BY <1>5, <1>7, <2>2, <2>3, <2>7
<1> QED BY <1>4, <1>6, <1>7 DEF SiftUp, SiftDown

\* A task that is pushed starts at the end of the heap.
LEMMA PushKeepsHeap ==
  ASSUME QueueTypeOK, HeapInv, sift = "none", NEW t \in Tasks, t \notin Elements(Filled), Push(t)
  PROVE  QueueTypeOK' /\ HeapInv' /\ Elements(Filled)' = Elements(Filled) \cup {t}
<1> DEFINE n == Len(heap)
<1>1. n \in Nat /\ heap \in Seq(Tasks) /\ Filled = heap /\ Sifted(heap, n, "none", hole)
  BY DEF QueueTypeOK, Filled, HeapInv
<1>2. PICK G : G = Append(heap, t)
  OBVIOUS
<1>3. /\ G \in Seq(Tasks) /\ Len(G) = n + 1 /\ G[n + 1] = t
      /\ \A i \in 1 .. n : G[i] = heap[i]
  BY <1>1, <1>2
<1>4. heap' = G /\ sift' = "up" /\ hole' = n + 1 /\ held' = t BY <1>2 DEF Push
<1>5. Filled' = G
  <2>1. [G EXCEPT ![n + 1] = t] = G BY <1>1, <1>3
  <2> QED BY <1>4, <2>1 DEF Filled
<1>6. \A i \in 1 .. n : heap[i] # t BY <1>1 DEF Elements
<1>7. Sifted(G, n + 1, "up", n + 1)
  <2>1. ASSUME NEW i \in 1 .. n + 1, NEW j \in 1 .. n + 1, i # j PROVE G[i] # G[j]
    <3>1. CASE i = n + 1 BY <1>1, <1>3, <1>6, <2>1, <3>1
    <3>2. CASE j = n + 1 BY <1>1, <1>3, <1>6, <2>1, <3>2
    <3>3. CASE i \in 1 .. n /\ j \in 1 .. n BY <1>1, <1>3, <2>1, <3>3 DEF Sifted
    <3> QED BY <1>1, <3>1, <3>2, <3>3
  <2>2. ASSUME NEW i \in 1 .. n + 1, NEW j \in 1 .. n + 1, Child(j, i), j # n + 1
        PROVE  G[i] <= G[j]
    <3>1. i \in 1 .. n /\ j \in 1 .. n BY <1>1, <2>2 DEF Child
    <3> QED BY <1>1, <1>3, <2>2, <3>1 DEF Sifted
  <2>3. \A j \in 1 .. n + 1 : ~ Child(j, n + 1) BY <1>1 DEF Child
  <2> QED BY <2>1, <2>2, <2>3 DEF Sifted
<1>8. HeapInv' BY <1>3, <1>4, <1>5, <1>7 DEF HeapInv
<1>9. QueueTypeOK' BY <1>1, <1>3, <1>4, WalkAssumption DEF QueueTypeOK, Tasks, WalkAssumption
<1>10. Elements(Filled)' = Elements(Filled) \cup {t}
  <2>1. Elements(Filled)' = Elements(G) BY <1>5 DEF Elements
  <2>2. ASSUME NEW x PROVE x \in Elements(G) <=> x \in Elements(heap) \cup {t}
    <3>1. x \in Elements(G) <=> \E i \in 1 .. n + 1 : x = G[i] BY <1>3 DEF Elements
    <3>2. x \in Elements(heap) <=> \E i \in 1 .. n : x = heap[i] BY DEF Elements
    <3>3. (\E i \in 1 .. n + 1 : x = G[i]) <=> (\E i \in 1 .. n : x = G[i]) \/ x = G[n + 1]
      BY <1>1
    <3> QED BY <1>3, <3>1, <3>2, <3>3
  <2> QED BY <1>1, <2>1, <2>2
<1> QED BY <1>8, <1>9, <1>10

\* The first task leaves the heap, and the last one is to sink from its slot.
LEMMA PopKeepsHeap ==
  ASSUME QueueTypeOK, HeapInv, Pop
  PROVE  /\ QueueTypeOK' /\ HeapInv'
         /\ Elements(Filled)' = Elements(Filled) \ {Head(heap)}
<1> DEFINE n == Len(heap)
<1>1. /\ n \in Nat /\ n >= 1 /\ heap \in Seq(Tasks) /\ Filled = heap /\ sift = "none"
      /\ Sifted(heap, n, "none", hole) /\ Head(heap) = heap[1]
      /\ heap' = SubSeq(heap, 1, n - 1)
  BY DEF QueueTypeOK, Filled, HeapInv, Pop
<1>2. n - 1 \in Nat /\ \A i \in 1 .. n : heap[i] \in Tasks BY <1>1
<1>3. PICK m \in Nat : m = n - 1 BY <1>2
<1>4. n = m + 1 BY <1>1, <1>3
<1>5. heap' \in Seq(Tasks) /\ Len(heap') = m /\ \A i \in 1 .. m : heap'[i] = heap[i]
  BY <1>1, <1>2, <1>3, <1>4
<1>6. CASE n = 1
  <2>1. m = 0 /\ sift' = "none" /\ hole' = hole /\ held' = held BY <1>3, <1>1, <1>6 DEF Pop
  <2>2. Filled' = heap' BY <2>1 DEF Filled
  <2>3. QueueTypeOK' BY <1>1, <1>5, <2>1 DEF QueueTypeOK
  <2>4. HeapInv' BY <1>5, <2>1, <2>2 DEF HeapInv, Sifted
  <2>5. Elements(Filled)' = {} BY <1>5, <2>1, <2>2 DEF Elements
  <2>6. Elements(Filled) = {heap[1]} BY <1>1, <1>6 DEF Elements
  <2> QED BY <1>1, <2>3, <2>4, <2>5, <2>6
<1>7. CASE n # 1
  <2>1. m \in Nat \ {0} /\ 1 \in 1 .. m /\ n \in 1 .. n /\ n \notin 1 .. m
    BY <1>1, <1>4, <1>7
  <2>2. sift' = "down" /\ hole' = 1 /\ held' = heap[n] BY <1>7 DEF Pop
  <2>3. PICK G : G = Filled'
    OBVIOUS
  <2>4. G = [heap' EXCEPT ![1] = heap[n]] BY <2>2, <2>3 DEF Filled
  <2>5. G \in Seq(Tasks) /\ Len(G) = m /\ G[1] = heap[n]
    BY <1>2, <1>5, <2>1, <2>4
  <2>6. \A i \in 1 .. m : i # 1 => G[i] = heap[i] BY <1>5, <2>1, <2>4
  <2>7. Sifted(G, m, "down", 1)
    <3>1. ASSUME NEW i \in 1 .. m, NEW j \in 1 .. m, i # j PROVE G[i] # G[j]
      <4>1. i \in 1 .. n /\ j \in 1 .. n /\ i # n /\ j # n /\ n \in 1 .. n BY <1>4
      <4> QED BY <1>1, <2>5, <2>6, <3>1, <4>1 DEF Sifted
    <3>2. ASSUME NEW i \in 1 .. m, NEW j \in 1 .. m, Child(j, i), i # 1
          PROVE  G[i] <= G[j]
      <4>1. i \in 1 .. n /\ j \in 1 .. n /\ j # 1 BY <1>4, <3>2 DEF Child
      <4> QED BY <1>1, <2>6, <3>2, <4>1 DEF Sifted
    <3>3. \A i \in 1 .. m : ~ Child(1, i) BY <1>4 DEF Child
    <3> QED BY <3>1, <3>2, <3>3 DEF Sifted
  <2>8. HeapInv' BY <1>5, <2>2, <2>3, <2>7 DEF HeapInv
  <2>9. QueueTypeOK'
    BY <1>2, <1>5, <2>1, <2>2, WalkAssumption DEF QueueTypeOK, Tasks, WalkAssumption
  <2>10. ASSUME NEW x PROVE x \in Elements(G) <=> x \in Elements(heap) \ {heap[1]}
    <3>1. x \in Elements(G) <=> \E i \in 1 .. m : x = G[i] BY <2>5 DEF Elements
    <3>2. x \in Elements(heap) <=> \E i \in 1 .. n : x = heap[i] BY DEF Elements
    <3>3. ASSUME NEW i \in 1 .. m, x = G[i]
          PROVE  (\E j \in 1 .. n : x = heap[j]) /\ x # heap[1]
      <4>1. CASE i = 1
        <5>1. x = heap[n] /\ heap[n] # heap[1] BY <1>1, <1>7, <2>1, <2>5, <3>3, <4>1 DEF Sifted
        <5> QED BY <2>1, <5>1
      <4>2. CASE i # 1
        <5>1. i \in 1 .. n /\ 1 \in 1 .. n /\ x = heap[i] BY <1>4, <2>6, <3>3, <4>2
        <5>2. heap[i] # heap[1] BY <1>1, <4>2, <5>1 DEF Sifted
        <5> QED BY <5>1, <5>2
      <4> QED BY <4>1, <4>2
    <3>4. ASSUME NEW i \in 1 .. n, x = heap[i], x # heap[1] PROVE \E j \in 1 .. m : x = G[j]
      <4>1. CASE i = n BY <2>1, <2>5, <3>4, <4>1
      <4>2. CASE i # n
        <5>1. i \in 1 .. m /\ i # 1 BY <1>4, <3>4, <4>2
        <5> QED BY <2>6, <3>4, <5>1
      <4> QED BY <4>1, <4>2
    <3> QED BY <3>1, <3>2, <3>3, <3>4
  <2>11. Elements(Filled)' = Elements(G) BY <2>3 DEF Elements
  <2>12. Elements(G) = Elements(Filled) \ {Head(heap)} BY <1>1, <2>10
  <2> QED BY <2>8, <2>9, <2>11, <2>12
<1> QED BY <1>6, <1>7

-----------------------------------------------------------------------------
(* The sort                                                                 *)

\* What is ordered so far stays so.
LEMMA ArrangementUntouched ==
  ASSUME ArrangedInv, dependencies' = dependencies, ordered' = ordered
  PROVE  ArrangedInv'
<1>1. Elements(ordered)' = Elements(ordered) /\ Len(ordered') = Len(ordered)
  BY DEF Elements
<1>2. IsFiniteSet(Elements(ordered))' /\ Cardinality(Elements(ordered))' = Len(ordered)
  BY <1>1 DEF ArrangedInv
<1>3. \A i, j \in 1 .. Len(ordered) : i # j => ordered'[i] # ordered'[j]
  BY DEF ArrangedInv
<1>4. \A i \in 1 .. Len(ordered) : \A d \in dependencies'[ordered'[i]] :
        \E j \in 1 .. i - 1 : ordered'[j] = d
  BY DEF ArrangedInv
<1> QED BY <1>1, <1>2, <1>3, <1>4 DEF ArrangedInv

\* Steps that only reorder the heap, and stuttering.
LEMMA SiftKeepsInv ==
  ASSUME CommitInv, SiftUp \/ SiftDown \/ UNCHANGED walkVars
  PROVE  CommitInv'
<1>1. /\ dependencies' = dependencies /\ indegree' = indegree /\ depth' = depth
      /\ ordered' = ordered /\ todo' = todo /\ verdict' = verdict /\ before' = before
      /\ taskStatus' = taskStatus /\ blockers' = blockers /\ visited' = visited
  BY DEF SiftUp, SiftDown, walkVars, sorting, walk
<1>2. QueueTypeOK' /\ HeapInv' /\ Elements(Filled)' = Elements(Filled)
  <2>1. CASE SiftUp \/ SiftDown BY <2>1, SiftKeepsHeap DEF CommitInv
  <2>2. CASE UNCHANGED walkVars
    BY <2>2 DEF walkVars, queue, CommitInv, QueueTypeOK, HeapInv, Filled, Sifted, Elements
  <2> QED BY <2>1, <2>2
<1>3. QueueInv'
  <2>1. Queued' = Queued BY <1>1 DEF Queued, Elements
  <2> QED BY <1>2, <2>1 DEF CommitInv, QueueInv
<1>4. SortTypeOK' /\ StatusTypeOK' BY <1>1 DEF CommitInv, SortTypeOK, StatusTypeOK
<1>5. ArrangedInv' BY <1>1, ArrangementUntouched DEF CommitInv
<1>6. LeastInv' BY <1>1 DEF CommitInv, LeastInv, LeastFirst, Queued, Elements
<1>7. SortInv'
  BY <1>1 DEF CommitInv, SortInv, DegreeInv, DepthInv, Unmet, Dependents, Elements, Reference!Ranks
<1>8. VerdictIsRight' BY <1>1 DEF CommitInv, VerdictIsRight, Reference!Ranks
<1>9. WalkInv'
  BY <1>1 DEF CommitInv, WalkInv, Seen, Decided, UnsuccessfulDependencies, Elements,
              Reference!Unsuccessful
<1> QED BY <1>2, <1>3, <1>4, <1>5, <1>6, <1>7, <1>8, <1>9 DEF CommitInv

\* What is unmet of a task is finite, so its size tells whether there is any.
LEMMA UnmetIsFinite ==
  ASSUME SortTypeOK, NEW u \in Tasks
  PROVE  /\ IsFiniteSet(Unmet(u)) /\ Cardinality(Unmet(u)) \in Nat
         /\ Cardinality(Unmet(u)) = 0 <=> Unmet(u) = {}
<1>1. IsFiniteSet(Tasks) BY WalkAssumption, FS_Interval DEF Tasks, WalkAssumption
<1>2. Unmet(u) \subseteq Tasks BY DEF Unmet, SortTypeOK
<1> QED BY <1>1, <1>2, FS_Subset, FS_CardinalityType, FS_EmptySet

\* A task in the queue has had all its dependencies ordered.
LEMMA QueuedIsMet ==
  ASSUME SortTypeOK, DegreeInv, NEW u \in Queued
  PROVE  dependencies[u] \subseteq Elements(ordered) /\ u \in Tasks /\ u \notin Elements(ordered)
<1>1. u \in Tasks /\ indegree[u] = 0 /\ u \notin todo /\ u \notin Elements(ordered) BY DEF Queued
<1>2. Unmet(u) = {} BY <1>1, UnmetIsFinite DEF DegreeInv
<1> QED BY <1>1, <1>2 DEF Unmet

\* Seeding the queue.
LEMMA SeedKeepsInv ==
  ASSUME CommitInv, Seed
  PROVE  CommitInv'
<1>1. PICK t \in todo : Push(t) /\ todo' = todo \ {t} BY DEF Seed
<1>2. /\ dependencies' = dependencies /\ indegree' = indegree /\ depth' = depth
      /\ ordered' = ordered /\ verdict' = verdict /\ before' = before
      /\ taskStatus' = taskStatus /\ blockers' = blockers /\ visited' = visited
      /\ verdict = "seeding" /\ sift = "none"
  BY DEF Seed, walk
<1>3. DegreeInv /\ DepthInv BY <1>2 DEF CommitInv, SortInv
<1>4. ordered = <<>> /\ indegree[t] = 0 /\ t \in Tasks
  BY <1>2, <1>3 DEF DegreeInv, CommitInv, SortTypeOK
<1>5. Elements(ordered) = {} BY <1>4 DEF Elements
<1>6. QueueTypeOK' /\ HeapInv' /\ Elements(Filled)' = Elements(Filled) \cup {t}
  <2>1. t \notin Elements(Filled) BY <1>1 DEF CommitInv, QueueInv, Queued
  <2> QED BY <1>1, <1>2, <1>4, <2>1, PushKeepsHeap DEF CommitInv
<1>7. Queued' = Queued \cup {t}
  <2>1. Elements(ordered)' = {} BY <1>2, <1>5 DEF Elements
  <2>2. Queued' = {u \in Tasks : indegree[u] = 0 /\ u \notin todo \ {t}}
    BY <1>1, <1>2, <2>1 DEF Queued
  <2> QED BY <1>4, <1>5, <2>2 DEF Queued
<1>8. QueueInv' BY <1>6, <1>7 DEF CommitInv, QueueInv
<1>9. SortTypeOK' /\ StatusTypeOK' BY <1>1, <1>2 DEF CommitInv, SortTypeOK, StatusTypeOK
<1>10. ArrangedInv' BY <1>2, ArrangementUntouched DEF CommitInv
<1>11. LeastInv'
  <2>1. Len(ordered') = 0 BY <1>2, <1>4
  <2> QED BY <2>1 DEF LeastInv, LeastFirst
<1>12. \A u \in Tasks : Unmet(u)' = Unmet(u)
  <2>1. Elements(ordered)' = {} BY <1>2, <1>5 DEF Elements
  <2> QED BY <1>2, <1>5, <2>1 DEF Unmet
<1>13. SortInv'
  <2>1. DegreeInv'
    BY <1>1, <1>2, <1>3, <1>4, <1>5, <1>12 DEF DegreeInv, Elements
  <2>2. DepthInv' BY <1>2, <1>3, <1>12 DEF DepthInv, Reference!Ranks
  <2> QED BY <2>1, <2>2 DEF SortInv
<1>14. VerdictIsRight' BY <1>2 DEF VerdictIsRight
<1>15. WalkInv' BY <1>2 DEF CommitInv, WalkInv
<1> QED BY <1>6, <1>8, <1>9, <1>10, <1>11, <1>13, <1>14, <1>15 DEF CommitInv

\* All of the queue's first tasks are there.
LEMMA SeededKeepsInv ==
  ASSUME CommitInv, Seeded
  PROVE  CommitInv'
<1>1. /\ dependencies' = dependencies /\ indegree' = indegree /\ depth' = depth
      /\ ordered' = ordered /\ todo' = todo /\ before' = before
      /\ taskStatus' = taskStatus /\ blockers' = blockers /\ visited' = visited
      /\ heap' = heap /\ sift' = sift /\ hole' = hole /\ held' = held
      /\ verdict = "seeding" /\ verdict' = "sorting" /\ todo = {}
  BY DEF Seeded, queue, sorting, walk
<1>2. QueueTypeOK' /\ HeapInv' /\ QueueInv'
  BY <1>1 DEF CommitInv, QueueTypeOK, HeapInv, QueueInv, Filled, Sifted, Elements, Queued
<1>3. SortTypeOK' /\ StatusTypeOK' BY <1>1 DEF CommitInv, SortTypeOK, StatusTypeOK
<1>4. ArrangedInv' /\ LeastInv'
  BY <1>1, ArrangementUntouched DEF CommitInv, LeastInv, LeastFirst, Queued, Elements
<1>5. SortInv'
  BY <1>1 DEF CommitInv, SortInv, DegreeInv, DepthInv, Unmet, Dependents, Elements, Reference!Ranks
<1>6. VerdictIsRight' /\ WalkInv' BY <1>1 DEF CommitInv, VerdictIsRight, WalkInv
<1> QED BY <1>2, <1>3, <1>4, <1>5, <1>6 DEF CommitInv

\* The first task of the queue becomes the next one of the order.
LEMMA PopKeepsInv ==
  ASSUME CommitInv, Pop
  PROVE  CommitInv'
<1> DEFINE n == Len(ordered)
<1>1. /\ dependencies' = dependencies /\ indegree' = indegree /\ depth' = depth
      /\ verdict' = verdict /\ before' = before
      /\ taskStatus' = taskStatus /\ blockers' = blockers /\ visited' = visited
      /\ verdict = "sorting" /\ sift = "none" /\ todo = {} /\ heap # <<>>
      /\ heap \in Seq(Tasks) /\ ordered \in Seq(Tasks) /\ n \in Nat
  BY DEF Pop, walk, CommitInv, QueueTypeOK, SortTypeOK
<1>2. DegreeInv /\ DepthInv BY <1>1 DEF CommitInv, SortInv
<1>3. PICK t \in Tasks : t = Head(heap) /\ t = heap[1] BY <1>1
<1>4. PICK o : o = Append(ordered, t)
  OBVIOUS
<1>5. /\ o \in Seq(Tasks) /\ Len(o) = n + 1 /\ o[n + 1] = t
      /\ \A i \in 1 .. n : o[i] = ordered[i]
  BY <1>1, <1>3, <1>4
<1>6. ordered' = o /\ todo' = Dependents(t) BY <1>3, <1>4 DEF Pop
<1>7. t \in Queued
  <2>1. 1 \in 1 .. Len(heap) /\ Filled = heap BY <1>1 DEF Filled
  <2>2. t \in Elements(Filled) BY <1>3, <2>1 DEF Elements
  <2> QED BY <2>2 DEF CommitInv, QueueInv
<1>8. dependencies[t] \subseteq Elements(ordered) /\ t \notin Elements(ordered)
  BY <1>2, <1>7, QueuedIsMet DEF CommitInv
<1>9. Elements(ordered)' = Elements(ordered) \cup {t}
  <2>1. Elements(ordered)' = Elements(o) BY <1>6 DEF Elements
  <2>2. ASSUME NEW x PROVE x \in Elements(o) <=> x \in Elements(ordered) \cup {t}
    <3>1. x \in Elements(o) <=> \E i \in 1 .. n + 1 : x = o[i] BY <1>5 DEF Elements
    <3>2. x \in Elements(ordered) <=> \E i \in 1 .. n : x = ordered[i] BY DEF Elements
    <3>3. (\E i \in 1 .. n + 1 : x = o[i]) <=> (\E i \in 1 .. n : x = o[i]) \/ x = o[n + 1]
      BY <1>1
    <3> QED BY <1>5, <3>1, <3>2, <3>3
  <2> QED BY <2>1, <2>2
<1>10. \A u \in Queued : u \notin Dependents(t)
  <2>1. ASSUME NEW u \in Queued PROVE t \notin dependencies[u]
    BY <1>2, <1>8, QueuedIsMet DEF CommitInv
  <2> QED BY <2>1 DEF Dependents
<1>11. Queued' = Queued \ {t}
  <2>1. Queued' = {u \in Tasks : indegree[u] = 0 /\ u \notin Dependents(t)
                                   /\ u \notin Elements(ordered) \cup {t}}
    BY <1>1, <1>6, <1>9 DEF Queued
  <2> QED BY <1>1, <1>10, <2>1 DEF Queued
<1>12. QueueTypeOK' /\ HeapInv' /\ QueueInv'
  <2>1. QueueTypeOK' /\ HeapInv' /\ Elements(Filled)' = Elements(Filled) \ {t}
    BY <1>3, PopKeepsHeap DEF CommitInv
  <2> QED BY <1>11, <2>1 DEF CommitInv, QueueInv
<1>13. SortTypeOK' /\ StatusTypeOK'
  <2>1. visited \in 0 .. n + 1 BY <1>1 DEF CommitInv, StatusTypeOK
  <2> QED BY <1>1, <1>5, <1>6, <2>1 DEF CommitInv, SortTypeOK, StatusTypeOK, Dependents
<1>14. ArrangedInv'
  <2>1. \A i \in 1 .. n : ordered[i] # t BY <1>8 DEF Elements
  <2>2. ASSUME NEW i \in 1 .. n + 1, NEW j \in 1 .. n + 1, i # j PROVE o[i] # o[j]
    <3>1. CASE i = n + 1 BY <1>1, <1>5, <2>1, <2>2, <3>1
    <3>2. CASE j = n + 1 BY <1>1, <1>5, <2>1, <2>2, <3>2
    <3>3. CASE i \in 1 .. n /\ j \in 1 .. n
      BY <1>5, <2>2, <3>3 DEF CommitInv, ArrangedInv
    <3> QED BY <1>1, <3>1, <3>2, <3>3
  <2>3. IsFiniteSet(Elements(ordered) \cup {t}) /\ Cardinality(Elements(ordered) \cup {t}) = n + 1
    BY <1>8, FS_AddElement DEF CommitInv, ArrangedInv
  <2>4. ASSUME NEW i \in 1 .. n + 1, NEW d \in dependencies[o[i]]
        PROVE  \E j \in 1 .. i - 1 : o[j] = d
    <3>1. CASE i = n + 1
      <4>1. d \in Elements(ordered) BY <1>5, <1>8, <2>4, <3>1
      <4>2. PICK j \in 1 .. n : ordered[j] = d BY <4>1 DEF Elements
      <4>3. j \in 1 .. i - 1 /\ o[j] = d BY <1>1, <1>5, <3>1, <4>2
      <4> QED BY <4>3
    <3>2. CASE i \in 1 .. n
      <4>1. PICK j \in 1 .. i - 1 : ordered[j] = d
        BY <1>5, <2>4, <3>2 DEF CommitInv, ArrangedInv
      <4>2. j \in 1 .. n BY <1>1, <3>2, <4>1
      <4> QED BY <1>5, <4>1, <4>2
    <3> QED BY <1>1, <3>1, <3>2
  <2> QED BY <1>1, <1>5, <1>6, <1>9, <2>2, <2>3, <2>4 DEF ArrangedInv
<1>15. LeastInv'
  <2>1. LeastInv BY DEF CommitInv
  <2>2. ASSUME NEW i \in 1 .. n + 1, NEW j \in 1 .. n + 1, i < j, o[j] < o[i]
        PROVE  \E k \in i .. j - 1 : o[k] \in dependencies[o[j]]
    <3>1. i \in 1 .. n /\ o[i] = ordered[i] BY <1>1, <1>5, <2>2
    <3>2. CASE j = n + 1
      <4>1. t < ordered[i] BY <1>5, <2>2, <3>1, <3>2
      <4>2. PICK k \in i .. n : ordered[k] \in dependencies[t]
        BY <1>7, <2>1, <3>1, <4>1 DEF LeastInv
      <4>3. k \in 1 .. n /\ k \in i .. j - 1 BY <1>1, <3>1, <3>2, <4>2
      <4> QED BY <1>5, <3>2, <4>2, <4>3
    <3>3. CASE j \in 1 .. n
      <4>1. PICK k \in i .. j - 1 : ordered[k] \in dependencies[ordered[j]]
        BY <1>5, <2>1, <2>2, <3>1, <3>3 DEF LeastInv, LeastFirst
      <4>2. k \in 1 .. n BY <1>1, <3>1, <3>3, <4>1
      <4> QED BY <1>5, <3>3, <4>1, <4>2
    <3> QED BY <1>1, <3>2, <3>3
  <2>3. ASSUME NEW u \in Queued \ {t}, NEW i \in 1 .. n + 1, u < o[i]
        PROVE  \E k \in i .. n + 1 : o[k] \in dependencies[u]
    <3>1. t <= u
      <4>1. Filled = heap BY <1>1 DEF Filled
      <4>2. u \in Elements(heap) BY <4>1 DEF CommitInv, QueueInv
      <4>3. PICK j \in 1 .. Len(heap) : u = heap[j] BY <4>2 DEF Elements
      <4> QED BY <1>1, <1>3, <4>3, RootIsLeast DEF CommitInv
    <3>2. u \in Tasks /\ u \in Nat /\ t \in Nat
      BY <1>3, WalkAssumption DEF Queued, Tasks, WalkAssumption
    <3>3. i # n + 1 BY <1>5, <2>3, <3>1, <3>2
    <3>4. i \in 1 .. n /\ o[i] = ordered[i] BY <1>1, <1>5, <3>3
    <3>5. PICK k \in i .. n : ordered[k] \in dependencies[u]
      BY <2>1, <2>3, <3>4 DEF LeastInv
    <3>6. k \in 1 .. n /\ k \in i .. n + 1 BY <1>1, <3>4, <3>5
    <3> QED BY <1>5, <3>5, <3>6
  <2>4. LeastFirst' BY <1>1, <1>5, <1>6, <2>2 DEF LeastFirst
  <2> QED BY <1>1, <1>5, <1>6, <1>11, <2>3, <2>4 DEF LeastInv
<1>16. \A u \in Tasks : Unmet(u)' = Unmet(u)
  <2>1. ASSUME NEW u \in Tasks PROVE Unmet(u)' = Unmet(u)
    <3>1. Unmet(u)' = {d \in dependencies[u] :
                         d \notin Elements(ordered) \cup {t} \/ (u \in Dependents(t) /\ d = t)}
      BY <1>1, <1>5, <1>6, <1>9 DEF Unmet
    <3>2. \A d \in dependencies[u] : d = t => u \in Dependents(t) BY DEF Dependents
    <3>3. Unmet(u) = {d \in dependencies[u] : d \notin Elements(ordered)} BY <1>1 DEF Unmet
    <3> QED BY <1>8, <3>1, <3>2, <3>3
  <2> QED BY <2>1
<1>17. SortInv'
  <2>1. ASSUME NEW u \in Dependents(t) PROVE u \notin Elements(ordered) \cup {t}
    <3>1. u \in Tasks /\ t \in dependencies[u] BY DEF Dependents
    <3>2. ASSUME u \in Elements(ordered) PROVE FALSE
      <4>1. PICK i \in 1 .. n : ordered[i] = u BY <3>2 DEF Elements
      <4>2. PICK j \in 1 .. i - 1 : ordered[j] = t BY <3>1, <4>1 DEF CommitInv, ArrangedInv
      <4>3. j \in 1 .. n BY <1>1, <4>1, <4>2
      <4> QED BY <1>8, <4>2, <4>3 DEF Elements
    <3> QED BY <1>8, <3>1, <3>2
  <2>2. /\ \A u \in Tasks : indegree'[u] = Cardinality(Unmet(u))'
        /\ o # <<>> /\ Dependents(t) \subseteq Dependents(o[Len(o)])
        /\ Dependents(t) \cap (Elements(ordered) \cup {t}) = {}
    BY <1>1, <1>2, <1>5, <1>16, <2>1 DEF DegreeInv
  <2>3. Dependents(o[Len(o)])' = Dependents(o[Len(o)]) BY <1>1 DEF Dependents
  <2>4. DegreeInv' BY <1>1, <1>6, <1>9, <2>2, <2>3 DEF DegreeInv, Dependents
  <2>5. DepthInv' BY <1>1, <1>2, <1>16 DEF DepthInv, Reference!Ranks
  <2> QED BY <2>4, <2>5 DEF SortInv
<1>18. VerdictIsRight' /\ WalkInv' BY <1>1 DEF CommitInv, VerdictIsRight, WalkInv
<1> QED BY <1>12, <1>13, <1>14, <1>15, <1>17, <1>18 DEF CommitInv

\* One dependent learns that the task is ordered.
LEMMA VisitKeepsInv ==
  ASSUME CommitInv, Visit
  PROVE  CommitInv'
<1> DEFINE n == Len(ordered)
           t == ordered[n]
<1>1. /\ dependencies' = dependencies /\ ordered' = ordered /\ before' = before
      /\ taskStatus' = taskStatus /\ blockers' = blockers /\ visited' = visited
      /\ verdict = "sorting" /\ sift = "none" /\ ordered \in Seq(Tasks) /\ n \in Nat
  <2>1. verdict = "sorting" /\ sift = "none" /\ UNCHANGED <<dependencies, ordered, walk>>
    BY DEF Visit
  <2> QED BY <2>1 DEF walk, CommitInv, SortTypeOK
<1>2. PICK u \in todo :
        /\ depth' = [depth EXCEPT ![u] = Deepened(t, u)]
        /\ IF depth[t] + 1 > DepthLimit
             THEN verdict' = "too deep" /\ UNCHANGED <<queue, indegree, todo>>
             ELSE /\ indegree' = [indegree EXCEPT ![u] = @ - 1]
                  /\ todo' = todo \ {u}
                  /\ IF indegree[u] = 1 THEN Push(u) ELSE UNCHANGED queue
                  /\ UNCHANGED verdict
  BY DEF Visit
<1>3. DegreeInv /\ DepthInv /\ SortTypeOK BY <1>1 DEF CommitInv, SortInv
<1>4. /\ u \in Tasks /\ ordered # <<>> /\ u \in Dependents(t) /\ u \notin Elements(ordered)
  BY <1>1, <1>2, <1>3 DEF DegreeInv, SortTypeOK
<1>5. n \in 1 .. n /\ t \in Tasks /\ t \in Elements(ordered) /\ t \in dependencies[u] /\ t # u
  <2>1. n \in 1 .. n BY <1>1, <1>4
  <2> QED BY <1>1, <1>4, <2>1 DEF Elements, Dependents
<1>6. /\ depth[t] \in Nat /\ depth[u] \in Nat /\ DepthLimit \in Nat
      /\ depth[t] >= 1 /\ depth[t] <= DepthLimit
      /\ depth[u] >= 1 /\ depth[u] <= DepthLimit
  BY <1>3, <1>4, <1>5, WalkAssumption DEF DepthInv, WalkAssumption
<1>7. PICK deeper \in Nat : deeper = Deepened(t, u)
  <2>1. Deepened(t, u) \in Nat BY <1>6 DEF Deepened
  <2> QED BY <2>1
<1>8. depth[t] < deeper /\ depth[u] <= deeper /\ (deeper = depth[u] \/ deeper = depth[t] + 1)
  BY <1>6, <1>7 DEF Deepened
<1>9. /\ depth' \in [Tasks -> Nat] /\ depth'[u] = deeper
      /\ \A v \in Tasks : v # u => depth'[v] = depth[v]
  BY <1>2, <1>3, <1>4, <1>7 DEF SortTypeOK
<1>10. ArrangedInv' BY <1>1, ArrangementUntouched DEF CommitInv
<1>11. StatusTypeOK' BY <1>1 DEF CommitInv, StatusTypeOK
<1>12. Elements(ordered)' = Elements(ordered) BY <1>1 DEF Elements
<1>13. \A rank \in [Tasks -> 1 .. DepthLimit] :
         Reference!Ranks(rank, Tasks, dependencies) => depth[t] + 1 <= rank[u]
  <2> SUFFICES ASSUME NEW rank \in [Tasks -> 1 .. DepthLimit],
                      Reference!Ranks(rank, Tasks, dependencies)
               PROVE  depth[t] + 1 <= rank[u]
    OBVIOUS
  <2>1. rank[t] < rank[u] BY <1>4, <1>5 DEF Reference!Ranks
  <2>2. depth[t] <= rank[t] BY <1>3, <1>5 DEF DepthInv
  <2>3. rank[t] \in Nat /\ rank[u] \in Nat BY <1>4, <1>5, <1>6
  <2> QED BY <1>6, <2>1, <2>2, <2>3
<1>14. CASE depth[t] + 1 > DepthLimit
  <2>1. /\ verdict' = "too deep" /\ heap' = heap /\ sift' = sift /\ hole' = hole /\ held' = held
        /\ indegree' = indegree /\ todo' = todo
    BY <1>2, <1>14 DEF queue
  <2>2. QueueTypeOK' /\ HeapInv' /\ QueueInv'
    <3>1. Queued' = Queued BY <1>1, <1>12, <2>1 DEF Queued
    <3>2. Elements(Filled)' = Elements(Filled) BY <2>1 DEF Elements, Filled
    <3>3. QueueTypeOK' /\ HeapInv'
      BY <2>1 DEF CommitInv, QueueTypeOK, HeapInv, Filled, Sifted
    <3> QED BY <3>1, <3>2, <3>3 DEF CommitInv, QueueInv
  <2>3. SortTypeOK' BY <1>1, <1>3, <1>9, <2>1 DEF SortTypeOK
  <2>4. LeastInv' BY <1>1, <2>1 DEF CommitInv, LeastInv, LeastFirst, Queued, Elements
  <2>5. SortInv' /\ WalkInv' BY <1>1, <2>1 DEF CommitInv, SortInv, WalkInv
  <2>6. VerdictIsRight'
    <3>1. ASSUME NEW rank \in [Tasks -> 1 .. DepthLimit],
                 Reference!Ranks(rank, Tasks, dependencies)
          PROVE  FALSE
      <4>1. depth[t] + 1 <= rank[u] BY <1>13, <3>1
      <4>2. rank[u] \in Nat /\ rank[u] <= DepthLimit BY <1>4, <1>6
      <4> QED BY <1>6, <1>14, <4>1, <4>2
    <3> QED BY <1>1, <2>1, <3>1 DEF VerdictIsRight, Reference!Ranks
  <2> QED BY <1>10, <1>11, <2>2, <2>3, <2>4, <2>5, <2>6 DEF CommitInv
<1>15. CASE ~ (depth[t] + 1 > DepthLimit)
  <2>1. /\ indegree' = [indegree EXCEPT ![u] = @ - 1] /\ todo' = todo \ {u}
        /\ verdict' = verdict
        /\ IF indegree[u] = 1 THEN Push(u) ELSE UNCHANGED queue
    BY <1>2, <1>15
  <2>2. Unmet(u)' = Unmet(u) \ {t} /\ t \in Unmet(u)
    <3>1. Unmet(u)' = {d \in dependencies[u] : d \notin Elements(ordered)}
      BY <1>1, <1>12, <2>1 DEF Unmet
    <3> QED BY <1>2, <1>5, <3>1 DEF Unmet
  <2>3. \A v \in Tasks : v # u => Unmet(v)' = Unmet(v)
    BY <1>1, <1>12, <2>1 DEF Unmet
  <2>4. /\ indegree[u] = Cardinality(Unmet(u)) /\ IsFiniteSet(Unmet(u))
        /\ indegree[u] \in Nat /\ indegree[u] # 0
        /\ Cardinality(Unmet(u) \ {t}) = indegree[u] - 1
    <3>1. indegree[u] = Cardinality(Unmet(u)) /\ indegree[u] \in Nat
      BY <1>3, <1>4 DEF DegreeInv, SortTypeOK
    <3>2. IsFiniteSet(Unmet(u)) /\ (Cardinality(Unmet(u)) = 0 <=> Unmet(u) = {})
      BY <1>3, <1>4, UnmetIsFinite
    <3>3. Cardinality(Unmet(u) \ {t}) = Cardinality(Unmet(u)) - 1
      BY <2>2, <3>2, FS_RemoveElement
    <3> QED BY <2>2, <3>1, <3>2, <3>3
  <2>5. PICK left \in Nat : left = indegree[u] - 1 BY <2>4
  <2>6. /\ indegree' \in [Tasks -> Nat] /\ indegree'[u] = left
        /\ \A v \in Tasks : v # u => indegree'[v] = indegree[v]
    BY <1>3, <1>4, <2>1, <2>5 DEF SortTypeOK
  <2>7. indegree[u] = 1 <=> left = 0 BY <2>4, <2>5
  <2>8. Queued' = IF indegree[u] = 1 THEN Queued \cup {u} ELSE Queued
    <3>1. Queued' = {v \in Tasks : /\ indegree'[v] = 0 /\ v \notin todo \ {u}
                                   /\ v \notin Elements(ordered)}
      BY <1>12, <2>1 DEF Queued
    <3>2. u \notin Queued BY <1>2 DEF Queued
    <3>3. ASSUME NEW v \in Tasks, v # u PROVE v \in Queued' <=> v \in Queued
      BY <2>6, <3>1, <3>3 DEF Queued
    <3>4. u \in Queued' <=> indegree[u] = 1 BY <1>4, <2>6, <2>7, <3>1
    <3>5. Queued' \subseteq Tasks /\ Queued \subseteq Tasks BY <3>1 DEF Queued
    <3>6. CASE indegree[u] = 1
      <4>1. Queued' = Queued \cup {u} BY <1>4, <3>3, <3>4, <3>5, <3>6
      <4> QED BY <3>6, <4>1
    <3>7. CASE indegree[u] # 1
      <4>1. Queued' = Queued BY <3>2, <3>3, <3>4, <3>5, <3>7
      <4> QED BY <3>7, <4>1
    <3> QED BY <3>6, <3>7
  <2>9. QueueTypeOK' /\ HeapInv' /\ QueueInv'
    <3>1. CASE indegree[u] = 1
      <4>1. u \notin Elements(Filled) BY <1>2 DEF CommitInv, QueueInv, Queued
      <4>2. QueueTypeOK' /\ HeapInv' /\ Elements(Filled)' = Elements(Filled) \cup {u}
        BY <1>1, <1>4, <2>1, <3>1, <4>1, PushKeepsHeap DEF CommitInv
      <4> QED BY <2>8, <3>1, <4>2 DEF CommitInv, QueueInv
    <3>2. CASE indegree[u] # 1
      <4>1. heap' = heap /\ sift' = sift /\ hole' = hole /\ held' = held
        BY <2>1, <3>2 DEF queue
      <4>2. Elements(Filled)' = Elements(Filled) BY <4>1 DEF Elements, Filled
      <4>3. QueueTypeOK' /\ HeapInv'
        BY <4>1 DEF CommitInv, QueueTypeOK, HeapInv, Filled, Sifted
      <4> QED BY <2>8, <3>2, <4>2, <4>3 DEF CommitInv, QueueInv
    <3> QED BY <3>1, <3>2
  <2>10. SortTypeOK' BY <1>1, <1>3, <1>9, <2>1, <2>6 DEF SortTypeOK
  <2>11. LeastInv'
    <3>1. ASSUME NEW v \in Queued', NEW i \in 1 .. n, v < ordered[i]
          PROVE  \E k \in i .. n : ordered[k] \in dependencies[v]
      <4>1. CASE v = u
        <5>1. n \in i .. n BY <1>5
        <5> QED BY <1>5, <4>1, <5>1
      <4>2. CASE v # u
        <5>1. v \in Queued BY <2>8, <3>1, <4>2
        <5> QED BY <3>1, <5>1 DEF CommitInv, LeastInv
      <4> QED BY <4>1, <4>2
    <3>2. LeastFirst' BY <1>1 DEF CommitInv, LeastInv, LeastFirst
    <3> QED BY <1>1, <3>1, <3>2 DEF LeastInv
  <2>12. DegreeInv'
    <3>1. ASSUME NEW v \in Tasks PROVE indegree'[v] = Cardinality(Unmet(v))'
      <4>1. CASE v = u BY <2>2, <2>4, <2>5, <2>6, <4>1
      <4>2. CASE v # u BY <1>3, <2>3, <2>6, <4>2 DEF DegreeInv
      <4> QED BY <4>1, <4>2
    <3>2. \A v \in todo \ {u} : v \in Dependents(t) BY <1>1, <1>3 DEF DegreeInv
    <3>3. Dependents(ordered[Len(ordered)])' = Dependents(t) BY <1>1 DEF Dependents
    <3>4. (todo \ {u}) \cap Elements(ordered) = {} BY <1>3 DEF DegreeInv
    <3> QED BY <1>1, <1>4, <1>12, <2>1, <3>1, <3>2, <3>3, <3>4 DEF DegreeInv
  <2>13. DepthInv'
    <3>1. \A v \in Tasks : depth'[v] \in 1 .. DepthLimit
      <4>1. deeper \in 1 .. DepthLimit BY <1>6, <1>8, <1>15
      <4> QED BY <1>3, <1>9, <4>1 DEF DepthInv
    <3>2. ASSUME NEW v \in Tasks, NEW d \in dependencies[v] \ Unmet(v)'
          PROVE  depth'[d] < depth'[v]
      <4>1. d \in Elements(ordered)
        <5>1. Unmet(v)' = {e \in dependencies[v] :
                 e \notin Elements(ordered) \/ (v \in todo' /\ e = t)}
          BY <1>1, <1>12 DEF Unmet
        <5> QED BY <3>2, <5>1
      <4>2. d \in Tasks /\ d # u /\ depth'[d] = depth[d]
        BY <1>3, <1>4, <1>9, <4>1 DEF SortTypeOK
      <4>3. CASE v # u
        <5>1. d \in dependencies[v] \ Unmet(v) BY <2>3, <3>2, <4>3
        <5> QED BY <1>3, <1>9, <4>2, <4>3, <5>1 DEF DepthInv
      <4>4. CASE v = u /\ d = t BY <1>8, <1>9, <4>2, <4>4
      <4>5. CASE v = u /\ d # t
        <5>1. d \in dependencies[u] \ Unmet(u) BY <2>2, <3>2, <4>5
        <5>2. depth[d] < depth[u] BY <1>3, <1>4, <5>1 DEF DepthInv
        <5>3. depth[d] \in Nat BY <1>3, <4>2 DEF SortTypeOK
        <5> QED BY <1>6, <1>8, <1>9, <4>2, <4>5, <5>2, <5>3
      <4> QED BY <4>3, <4>4, <4>5
    <3>3. ASSUME NEW rank \in [Tasks -> 1 .. DepthLimit],
                 Reference!Ranks(rank, Tasks, dependencies), NEW v \in Tasks
          PROVE  depth'[v] <= rank[v]
      <4>1. depth[v] <= rank[v] BY <1>3, <3>3 DEF DepthInv
      <4>2. CASE v = u BY <1>8, <1>9, <1>13, <3>3, <4>1, <4>2
      <4>3. CASE v # u BY <1>9, <4>1, <4>3
      <4> QED BY <4>2, <4>3
    <3> QED BY <1>1, <3>1, <3>2, <3>3 DEF DepthInv, Reference!Ranks
  <2>14. SortInv' /\ VerdictIsRight' /\ WalkInv'
    BY <1>1, <2>1, <2>12, <2>13 DEF CommitInv, SortInv, VerdictIsRight, WalkInv
  <2> QED BY <1>10, <1>11, <2>9, <2>10, <2>11, <2>14 DEF CommitInv
<1> QED BY <1>14, <1>15

\* The queue is empty: what is left has a cycle, or the walk begins.
LEMMA SortedKeepsInv ==
  ASSUME CommitInv, Sorted
  PROVE  CommitInv'
<1>1. /\ dependencies' = dependencies /\ indegree' = indegree /\ depth' = depth
      /\ ordered' = ordered /\ todo' = todo /\ blockers' = blockers /\ visited' = visited
      /\ heap' = heap /\ sift' = sift /\ hole' = hole /\ held' = held
      /\ verdict = "sorting" /\ sift = "none" /\ todo = {} /\ heap = <<>>
  BY DEF Sorted, queue, sorting
<1>2. verdict' \in {"cycle", "walking"} /\ before' \in [Tasks -> Statuses]
      /\ taskStatus' \in [Tasks -> Statuses]
  BY WalkAssumption DEF Sorted, CommitInv, StatusTypeOK, WalkAssumption, Statuses
<1>3. DegreeInv /\ DepthInv /\ SortTypeOK BY <1>1 DEF CommitInv, SortInv
<1>4. QueueTypeOK' /\ HeapInv' /\ QueueInv'
  BY <1>1 DEF CommitInv, QueueTypeOK, HeapInv, QueueInv, Filled, Sifted, Elements, Queued
<1>5. SortTypeOK' /\ StatusTypeOK' BY <1>1, <1>2 DEF CommitInv, SortTypeOK, StatusTypeOK
<1>6. ArrangedInv' /\ LeastInv'
  BY <1>1, ArrangementUntouched DEF CommitInv, LeastInv, LeastFirst, Queued, Elements
<1>7. SortInv' BY <1>2 DEF SortInv
<1>8. Elements(ordered) \subseteq Tasks
  <2>1. ordered \in Seq(Tasks) BY <1>3 DEF SortTypeOK
  <2>2. \A i \in 1 .. Len(ordered) : ordered[i] \in Tasks BY <2>1
  <2> QED BY <2>2 DEF Elements
<1>9. IsFiniteSet(Tasks) /\ Cardinality(Tasks) = N
  <2>1. 0 \in Int /\ N - 1 \in Int BY WalkAssumption DEF WalkAssumption
  <2>2. IsFiniteSet(0 .. N - 1) /\ Cardinality(0 .. N - 1) = IF 0 > N - 1 THEN 0 ELSE N - 1 - 0 + 1
    BY <2>1, FS_Interval
  <2> QED BY <2>2, WalkAssumption DEF Tasks, WalkAssumption
<1>10. CASE Len(ordered) # N
  <2>1. verdict' = "cycle" BY <1>10 DEF Sorted
  <2>2. PICK C \in SUBSET Tasks : C = Tasks \ Elements(ordered)
    OBVIOUS
  <2>3. C # {}
    <3>1. SUFFICES ASSUME C = {} PROVE FALSE
      OBVIOUS
    <3>2. Elements(ordered) = Tasks BY <1>8, <2>2, <3>1
    <3> QED BY <1>9, <1>10, <3>2 DEF CommitInv, ArrangedInv
  <2>4. ASSUME NEW t \in C PROVE dependencies[t] \cap C # {}
    <3>1. Elements(heap) = {} /\ Filled = heap BY <1>1 DEF Elements, Filled
    <3>2. t \in Tasks /\ t \notin Elements(ordered) BY <2>2
    <3>3. indegree[t] # 0 BY <1>1, <3>1, <3>2 DEF CommitInv, QueueInv, Queued
    <3>4. Unmet(t) # {}
      BY <1>3, <3>2, <3>3, UnmetIsFinite DEF DegreeInv
    <3>5. PICK d \in Unmet(t) : TRUE BY <3>4
    <3>6. d \in dependencies[t] /\ d \notin Elements(ordered) BY <1>1, <3>5 DEF Unmet
    <3>7. d \in C BY <1>3, <2>2, <3>2, <3>6 DEF SortTypeOK
    <3> QED BY <3>6, <3>7
  <2>5. ASSUME NEW rank \in [Tasks -> 1 .. DepthLimit],
               Reference!Ranks(rank, Tasks, dependencies)
        PROVE  FALSE
    <3> DEFINE levels == {rank[t] : t \in C}
    <3>1. levels \in SUBSET Nat /\ levels # {} BY <2>3
    <3>2. PICK l \in levels : \A m \in levels : l <= m
      <4> HIDE DEF levels
      <4> QED BY <3>1, LeastOf
    <3>3. PICK t \in C : rank[t] = l OBVIOUS
    <3>4. PICK d \in dependencies[t] : d \in C BY <2>4
    <3>5. rank[d] < rank[t] BY <2>5, <3>4 DEF Reference!Ranks
    <3>6. rank[t] <= rank[d] BY <3>2, <3>3, <3>4
    <3>7. rank[t] \in Nat /\ rank[d] \in Nat BY <3>4, WalkAssumption DEF WalkAssumption
    <3> QED BY <3>5, <3>6, <3>7
  <2>6. VerdictIsRight'
    <3>1. \E S \in SUBSET Tasks : S # {} /\ \A t \in S : dependencies[t] \cap S # {}
      BY <2>3, <2>4
    <3> QED BY <1>1, <2>1, <2>5, <3>1 DEF VerdictIsRight, Reference!Ranks
  <2>7. WalkInv' BY <1>1, <2>1 DEF CommitInv, WalkInv
  <2> QED BY <1>4, <1>5, <1>6, <1>7, <2>6, <2>7 DEF CommitInv
<1>11. CASE Len(ordered) = N
  <2>1. verdict' = "walking" /\ taskStatus' = before' BY <1>11 DEF Sorted
  <2>2. Elements(ordered) = Tasks
    BY <1>8, <1>9, <1>11, FS_Subset DEF CommitInv, ArrangedInv
  <2>3. depth \in [Tasks -> 1 .. DepthLimit]
    BY <1>3 DEF DepthInv, SortTypeOK
  <2>4. \A u \in Tasks : \A d \in dependencies[u] : depth[d] < depth[u]
    <3>1. ASSUME NEW u \in Tasks, NEW d \in dependencies[u] PROVE d \notin Unmet(u)
      BY <1>1, <1>3, <2>2, <3>1 DEF Unmet, SortTypeOK
    <3> QED BY <1>3, <3>1 DEF DepthInv
  <2>5. Reference!Ranks(depth, Tasks, dependencies) BY <2>3, <2>4 DEF Reference!Ranks
  <2>6. VerdictIsRight' BY <1>1, <2>1, <2>3, <2>5 DEF VerdictIsRight, Reference!Ranks
  <2>7. WalkInv'
    <3>1. visited = 0 BY <1>1 DEF CommitInv, WalkInv
    <3>2. Elements(ordered)' = Tasks BY <1>1, <2>2 DEF Elements
    <3>3. \A t \in Tasks : ~ Seen(t)' BY <1>1, <3>1 DEF Seen
    <3> QED BY <2>1, <3>2, <3>3 DEF WalkInv
  <2> QED BY <1>4, <1>5, <1>6, <1>7, <2>6, <2>7 DEF CommitInv
<1> QED BY <1>10, <1>11

-----------------------------------------------------------------------------
(* The walk, and the theorem                                                *)

\* One task is reconciled.  Those the walk has seen keep what it decided:
\* their dependencies were seen before them.
LEMMA ReconcileKeepsInv ==
  ASSUME CommitInv, Reconcile
  PROVE  CommitInv'
<1> DEFINE n == Len(ordered)
<1>1. /\ dependencies' = dependencies /\ indegree' = indegree /\ depth' = depth
      /\ ordered' = ordered /\ todo' = todo /\ before' = before
      /\ heap' = heap /\ sift' = sift /\ hole' = hole /\ held' = held
      /\ verdict = "walking" /\ verdict' = verdict /\ visited < n /\ visited' = visited + 1
  <2>1. /\ verdict = "walking" /\ visited < n /\ visited' = visited + 1
        /\ UNCHANGED <<dependencies, queue, sorting, verdict, before>>
    BY DEF Reconcile
  <2> QED BY <2>1 DEF queue, sorting
<1>2. /\ n \in Nat /\ visited \in Nat /\ visited + 1 \in 1 .. n
      /\ ordered \in Seq(Tasks) /\ dependencies \in [Tasks -> SUBSET Tasks]
      /\ taskStatus \in [Tasks -> Statuses] /\ blockers \in [Tasks -> SUBSET Tasks]
  <2>1. ordered \in Seq(Tasks) BY DEF CommitInv, SortTypeOK
  <2>2. n \in Nat BY <2>1
  <2>3. visited \in 0 .. n BY DEF CommitInv, StatusTypeOK
  <2>4. visited \in Nat /\ visited + 1 \in 1 .. n BY <1>1, <2>2, <2>3
  <2> QED BY <2>1, <2>2, <2>4 DEF CommitInv, SortTypeOK, StatusTypeOK
<1> PICK t \in Tasks : t = ordered[visited + 1]
  BY <1>2
<1>3. QueueTypeOK' /\ HeapInv' /\ QueueInv'
  BY <1>1 DEF CommitInv, QueueTypeOK, HeapInv, QueueInv, Filled, Sifted, Elements, Queued
<1>4. ArrangedInv' /\ LeastInv'
  BY <1>1, ArrangementUntouched DEF CommitInv, LeastInv, LeastFirst, Queued, Elements
<1>5. SortInv' /\ SortTypeOK' /\ VerdictIsRight'
  BY <1>1 DEF CommitInv, SortInv, SortTypeOK, VerdictIsRight, Reference!Ranks
<1>6. Elements(ordered) = Tasks
      /\ \A u \in Tasks : IF Seen(u) /\ before[u] = "pending" THEN Decided(u)
                          ELSE taskStatus[u] = before[u]
  BY <1>1 DEF CommitInv, WalkInv
<1>7. ~ Seen(t) /\ taskStatus[t] = before[t]
  <2>1. \A i \in 1 .. visited : ordered[i] # t
    BY <1>2 DEF CommitInv, ArrangedInv
  <2> QED BY <1>2, <1>6, <2>1 DEF Seen
<1>8. \A u \in Tasks : Seen(u)' <=> Seen(u) \/ u = t
  <2>1. \A i \in 1 .. visited + 1 : i \in 1 .. visited \/ i = visited + 1 BY <1>2
  <2>2. \A i \in 1 .. visited : i \in 1 .. visited + 1 BY <1>2
  <2>3. visited + 1 \in 1 .. visited + 1 BY <1>2
  <2> QED BY <1>1, <2>1, <2>2, <2>3 DEF Seen
<1>9. \A u \in Tasks : Seen(u) \/ u = t => \A d \in dependencies[u] : d # t /\ Seen(d)
  <2>1. ASSUME NEW i \in 1 .. visited + 1, NEW d \in dependencies[ordered[i]]
        PROVE  d # t /\ Seen(d)
    <3>1. i \in 1 .. n BY <1>2
    <3>2. PICK j \in 1 .. i - 1 : ordered[j] = d BY <3>1 DEF CommitInv, ArrangedInv
    <3>3. j \in 1 .. visited BY <1>2, <3>2
    <3>4. Seen(d) BY <3>2, <3>3 DEF Seen
    <3> QED BY <1>7, <3>4
  <2>2. visited + 1 \in 1 .. visited + 1 /\ \A i \in 1 .. visited : i \in 1 .. visited + 1
    BY <1>2
  <2> QED BY <2>1, <2>2 DEF Seen
<1>10. /\ taskStatus' \in [Tasks -> Statuses] /\ blockers' \in [Tasks -> SUBSET Tasks]
       /\ \A u \in Tasks : u # t => taskStatus'[u] = taskStatus[u] /\ blockers'[u] = blockers[u]
  <2>1. UnsuccessfulDependencies(t) \in SUBSET Tasks BY <1>2 DEF UnsuccessfulDependencies
  <2>2. CASE /\ taskStatus' = [taskStatus EXCEPT ![t] = "blocked"]
             /\ blockers' = [blockers EXCEPT ![t] = UnsuccessfulDependencies(t)]
    BY <1>2, <2>1, <2>2 DEF Statuses
  <2>3. CASE /\ taskStatus' = [taskStatus EXCEPT ![t] = "ready"]
             /\ blockers' = [blockers EXCEPT ![t] = {}]
    BY <1>2, <2>3 DEF Statuses
  <2>4. CASE taskStatus' = taskStatus /\ blockers' = blockers
    BY <1>2, <2>4
  <2> QED BY <2>2, <2>3, <2>4 DEF Reconcile
<1>11. \A u \in Tasks : Seen(u) \/ u = t =>
         /\ UnsuccessfulDependencies(u)' = UnsuccessfulDependencies(u)
         /\ \A d \in dependencies[u] : taskStatus'[d] = taskStatus[d]
  <2>1. ASSUME NEW u \in Tasks, Seen(u) \/ u = t
        PROVE  \A d \in dependencies[u] : taskStatus'[d] = taskStatus[d]
    BY <1>2, <1>9, <1>10, <2>1
  <2> QED BY <1>1, <2>1 DEF UnsuccessfulDependencies, Reference!Unsuccessful
<1>12. StatusTypeOK'
  <2>1. visited + 1 \in 0 .. n BY <1>2
  <2>2. before \in [Tasks -> Statuses] BY DEF CommitInv, StatusTypeOK
  <2> QED BY <1>1, <1>10, <2>1, <2>2 DEF StatusTypeOK
<1>13. before[t] = "pending" => Decided(t)'
  <2> SUFFICES ASSUME taskStatus[t] = "pending" PROVE Decided(t)'
    BY <1>7
  <2>1. PICK U : U = UnsuccessfulDependencies(t)
    OBVIOUS
  <2>2. UnsuccessfulDependencies(t)' = U BY <1>11, <2>1
  <2>3. Decided(t)' <=>
          IF U # {} THEN taskStatus'[t] = "blocked" /\ blockers'[t] = U
          ELSE IF \A d \in dependencies[t] : taskStatus[d] = "succeeded"
            THEN taskStatus'[t] = "ready"
          ELSE taskStatus'[t] = "pending"
    <3>1. \A d \in dependencies[t] : taskStatus'[d] = taskStatus[d] BY <1>11
    <3> QED BY <1>1, <2>2, <3>1 DEF Decided
  <2>4. CASE U # {}
    <3>1. PICK d \in dependencies[t] : taskStatus[d] \in {"failed", "cancelled", "blocked"}
      BY <2>1, <2>4 DEF UnsuccessfulDependencies, Reference!Unsuccessful
    <3>2. /\ taskStatus' = [taskStatus EXCEPT ![t] = "blocked"]
          /\ blockers' = [blockers EXCEPT ![t] = U]
      BY <2>1, <2>4, <3>1 DEF Reconcile
    <3> QED BY <1>2, <2>3, <2>4, <3>2
  <2>5. CASE U = {} /\ \A d \in dependencies[t] : taskStatus[d] = "succeeded"
    <3>1. taskStatus' = [taskStatus EXCEPT ![t] = "ready"] BY <2>1, <2>5 DEF Reconcile
    <3> QED BY <1>2, <2>3, <2>5, <3>1
  <2>6. CASE U = {} /\ ~ \A d \in dependencies[t] : taskStatus[d] = "succeeded"
    <3>1. taskStatus' = taskStatus BY <2>1, <2>6 DEF Reconcile
    <3> QED BY <2>3, <2>6, <3>1
  <2> QED BY <2>4, <2>5, <2>6
<1>14. before[t] # "pending" => taskStatus'[t] = before[t]
  BY <1>7 DEF Reconcile
<1>15. WalkInv'
  <2>1. Elements(ordered)' = Tasks BY <1>1, <1>6 DEF Elements
  <2>2. ASSUME NEW u \in Tasks
        PROVE  IF Seen(u)' /\ before[u] = "pending" THEN Decided(u)'
               ELSE taskStatus'[u] = before[u]
    <3>1. CASE u = t BY <1>8, <1>13, <1>14, <3>1
    <3>2. CASE u # t /\ ~ Seen(u) BY <1>6, <1>8, <1>10, <3>2
    <3>3. CASE u # t /\ Seen(u)
      <4>1. taskStatus'[u] = taskStatus[u] /\ blockers'[u] = blockers[u] BY <1>10, <3>3
      <4>2. Decided(u)' <=> Decided(u) BY <1>1, <1>11, <3>3, <4>1 DEF Decided
      <4> QED BY <1>6, <1>8, <3>3, <4>1, <4>2
    <3> QED BY <3>1, <3>2, <3>3
  <2> QED BY <1>1, <2>1, <2>2 DEF WalkInv
<1> QED BY <1>3, <1>4, <1>5, <1>12, <1>15 DEF CommitInv

\* The walk has seen every task.
LEMMA ReconciledKeepsInv ==
  ASSUME CommitInv, Reconciled
  PROVE  CommitInv'
<1>1. /\ dependencies' = dependencies /\ indegree' = indegree /\ depth' = depth
      /\ ordered' = ordered /\ todo' = todo /\ before' = before
      /\ heap' = heap /\ sift' = sift /\ hole' = hole /\ held' = held
      /\ taskStatus' = taskStatus /\ blockers' = blockers /\ visited' = visited
      /\ verdict = "walking" /\ verdict' = "done" /\ visited = Len(ordered)
  BY DEF Reconciled, queue, sorting, walk
<1>2. QueueTypeOK' /\ HeapInv' /\ QueueInv'
  BY <1>1 DEF CommitInv, QueueTypeOK, HeapInv, QueueInv, Filled, Sifted, Elements, Queued
<1>3. ArrangedInv' /\ LeastInv'
  BY <1>1, ArrangementUntouched DEF CommitInv, LeastInv, LeastFirst, Queued, Elements
<1>4. SortInv' /\ SortTypeOK' /\ StatusTypeOK' /\ VerdictIsRight'
  BY <1>1 DEF CommitInv, SortInv, SortTypeOK, StatusTypeOK, VerdictIsRight, Reference!Ranks
<1>5. WalkInv'
  <2>1. Elements(ordered)' = Tasks BY <1>1 DEF CommitInv, WalkInv, Elements
  <2>2. \A u \in Tasks : /\ Seen(u)' <=> Seen(u)
                         /\ Decided(u)' <=> Decided(u)
    BY <1>1 DEF Seen, Decided, UnsuccessfulDependencies, Reference!Unsuccessful
  <2>3. \A u \in Tasks : IF Seen(u) /\ before[u] = "pending" THEN Decided(u)
                         ELSE taskStatus[u] = before[u]
    BY <1>1 DEF CommitInv, WalkInv
  <2> QED BY <1>1, <2>1, <2>2, <2>3 DEF WalkInv
<1> QED BY <1>2, <1>3, <1>4, <1>5 DEF CommitInv

\* Nothing is ordered yet, and every task waits for all its dependencies.
LEMMA WalkInitInv ==
  ASSUME WalkInit
  PROVE  CommitInv
<1>1. /\ dependencies \in [Tasks -> SUBSET Tasks]
      /\ indegree = [u \in Tasks |-> Cardinality(dependencies[u])]
      /\ depth = [u \in Tasks |-> 1] /\ heap = <<>> /\ sift = "none" /\ hole = 0 /\ held = 0
      /\ ordered = <<>> /\ todo = {u \in Tasks : indegree[u] = 0} /\ verdict = "seeding"
      /\ before = [u \in Tasks |-> "pending"] /\ taskStatus = before
      /\ blockers = [u \in Tasks |-> {}] /\ visited = 0
  BY DEF WalkInit
<1>2. /\ Len(ordered) = 0 /\ Len(heap) = 0 /\ 1 .. 0 = {}
      /\ heap \in Seq(Tasks) /\ ordered \in Seq(Tasks)
  BY <1>1
<1>3. Elements(ordered) = {} /\ Filled = heap /\ Elements(heap) = {}
  BY <1>1, <1>2 DEF Elements, Filled
<1>4. \A u \in Tasks : Cardinality(dependencies[u]) \in Nat
  <2>1. IsFiniteSet(Tasks) BY WalkAssumption, FS_Interval DEF Tasks, WalkAssumption
  <2> QED BY <1>1, <2>1, FS_Subset, FS_CardinalityType
<1>5. QueueTypeOK BY <1>1, <1>2 DEF QueueTypeOK
<1>6. SortTypeOK BY <1>1, <1>2, <1>4 DEF SortTypeOK
<1>7. StatusTypeOK BY <1>1, <1>2 DEF StatusTypeOK, Statuses
<1>8. HeapInv BY <1>1, <1>2 DEF HeapInv, Sifted
<1>9. QueueInv
  <2>1. Queued = {} BY <1>1 DEF Queued
  <2> QED BY <1>3, <2>1 DEF QueueInv
<1>10. ArrangedInv BY <1>2, <1>3, FS_EmptySet DEF ArrangedInv
<1>11. LeastInv BY <1>2 DEF LeastInv, LeastFirst
<1>12. DegreeInv
  <2>1. \A u \in Tasks : Unmet(u) = dependencies[u] BY <1>3 DEF Unmet
  <2> QED BY <1>1, <1>3, <2>1 DEF DegreeInv
<1>13. DepthInv
  <2>1. \A u \in Tasks : Unmet(u) = dependencies[u] BY <1>3 DEF Unmet
  <2>2. \A u \in Tasks : depth[u] = 1 BY <1>1
  <2>3. 1 \in 1 .. DepthLimit BY WalkAssumption DEF WalkAssumption
  <2>4. \A rank \in [Tasks -> 1 .. DepthLimit] : \A u \in Tasks : 1 <= rank[u]
    BY WalkAssumption DEF WalkAssumption
  <2> QED BY <2>1, <2>2, <2>3, <2>4 DEF DepthInv
<1>14. VerdictIsRight /\ WalkInv BY <1>1 DEF VerdictIsRight, WalkInv
<1> QED BY <1>5, <1>6, <1>7, <1>8, <1>9, <1>10, <1>11, <1>12, <1>13, <1>14 DEF CommitInv, SortInv

\* When the walk is done, what it decided of each task is what the reference
\* says of all of them together.
LEMMA DecisionsAreRight ==
  ASSUME CommitInv
  PROVE  CommitIsRight
<1>1. SUFFICES ASSUME verdict = "done" PROVE WalkIsRight
  BY DEF CommitInv, CommitIsRight, LeastInv, WalkIsRight
<1> DEFINE pending == {u \in Tasks : before[u] = "pending"}
           B == {u \in pending : taskStatus[u] = "blocked"}
<1>2. /\ dependencies \in [Tasks -> SUBSET Tasks] /\ visited = Len(ordered)
      /\ Elements(ordered) = Tasks
      /\ \A u \in Tasks : IF Seen(u) /\ before[u] = "pending" THEN Decided(u)
                          ELSE taskStatus[u] = before[u]
  BY <1>1 DEF CommitInv, WalkInv, SortTypeOK
<1>3. \A u \in Tasks : Seen(u) BY <1>2 DEF Seen, Elements
<1>4. \A u \in Tasks : IF u \in pending THEN Decided(u) ELSE taskStatus[u] = before[u]
  BY <1>2, <1>3
<1>5. \A d \in Tasks :
        /\ taskStatus[d] \in {"failed", "cancelled", "blocked"} <=>
             before[d] \in {"failed", "cancelled", "blocked"} \/ d \in B
        /\ taskStatus[d] = "succeeded" <=> before[d] = "succeeded"
  <2>1. ASSUME NEW d \in pending PROVE taskStatus[d] \in {"blocked", "ready", "pending"}
    BY <1>4, <2>1 DEF Decided
  <2> QED BY <1>4, <2>1
<1>6. \A u \in Tasks : UnsuccessfulDependencies(u) = Reference!BlockersOf(u, before, B)
  BY <1>2, <1>5 DEF UnsuccessfulDependencies, Reference!BlockersOf, Reference!Unsuccessful
<1>7. Reference!Blocks(B, before)
  <2>1. \A u \in pending : u \in B <=> UnsuccessfulDependencies(u) # {}
    BY <1>4 DEF Decided
  <2>2. Reference!PendingIn(before) = pending BY DEF Reference!PendingIn
  <2>3. B \subseteq pending /\ pending \subseteq Tasks OBVIOUS
  <2>4. \A u \in pending : u \in B <=> Reference!BlockersOf(u, before, B) # {}
    BY <1>6, <2>1, <2>3
  <2> HIDE DEF pending, B
  <2> QED BY <2>2, <2>3, <2>4 DEF Reference!Blocks
<1>8. {u \in pending : taskStatus[u] = "ready"} = Reference!Released(B, before)
  <2>1. \A u \in pending : taskStatus[u] = "ready" <=>
          u \notin B /\ \A d \in dependencies[u] : before[d] = "succeeded"
    <3>1. ASSUME NEW u \in pending
          PROVE  taskStatus[u] = "ready" <=>
                   u \notin B /\ \A d \in dependencies[u] : before[d] = "succeeded"
      <4>1. u \in Tasks /\ Decided(u) BY <1>4
      <4>2. \A d \in dependencies[u] : taskStatus[d] = "succeeded" <=> before[d] = "succeeded"
        BY <1>2, <1>5, <4>1
      <4> QED BY <4>1, <4>2 DEF Decided
    <3> QED BY <3>1
  <2> QED BY <2>1 DEF Reference!Released, Reference!PendingIn
<1>9. \A u \in B : blockers[u] = Reference!BlockersOf(u, before, B)
  BY <1>4, <1>6 DEF Decided
<1> QED BY <1>7, <1>8, <1>9 DEF WalkIsRight

\* For any number of tasks and any limits, topologicalTaskIds accepts exactly
\* the graphs without a cycle that are not too deep, in an order that does not
\* depend on how the graph was built, and #reconcilePendingTasks decides in
\* one pass over that order what the reference says of all the tasks at once.
THEOREM CommitsAreRight == WalkSpec => []CommitIsRight
<1>1. WalkInit => CommitInv BY WalkInitInv
<1>2. CommitInv /\ [WalkNext]_walkVars => CommitInv'
  <2> SUFFICES ASSUME CommitInv, [WalkNext]_walkVars PROVE CommitInv'
    OBVIOUS
  <2>1. CASE SiftUp \/ SiftDown \/ UNCHANGED walkVars BY <2>1, SiftKeepsInv
  <2>2. CASE Seed BY <2>2, SeedKeepsInv
  <2>3. CASE Seeded BY <2>3, SeededKeepsInv
  <2>4. CASE Pop BY <2>4, PopKeepsInv
  <2>5. CASE Visit BY <2>5, VisitKeepsInv
  <2>6. CASE Sorted BY <2>6, SortedKeepsInv
  <2>7. CASE Reconcile BY <2>7, ReconcileKeepsInv
  <2>8. CASE Reconciled BY <2>8, ReconciledKeepsInv
  <2> QED BY <2>1, <2>2, <2>3, <2>4, <2>5, <2>6, <2>7, <2>8 DEF WalkNext
<1>3. CommitInv => CommitIsRight BY DecisionsAreRight
<1> QED BY <1>1, <1>2, <1>3, PTL DEF WalkSpec
=============================================================================
