-------------------------- MODULE TopologicalWalk --------------------------
(***************************************************************************)
(* The algorithms behind TaskGraph: topologicalTaskIds with its heap       *)
(* TaskOrderMinHeap, and the walk of #reconcilePendingTasks over the       *)
(* order it returns.  Module TaskGraph states what they compute (Ranks,    *)
(* Blocks, Released); here they run, one turn of a loop per step, and are  *)
(* compared with it.                                                       *)
(*                                                                         *)
(* A task is named by its order.  topologicalTaskIds is asked about any    *)
(* graph a caller proposes, cycles included, and meets tasks and dependents*)
(* in the order they were added in, which may be any; the walk begins only *)
(* if the graph passed, in a state a transition may have left behind.      *)
(***************************************************************************)
EXTENDS Integers, Sequences, FiniteSets

CONSTANTS
  N,                \* number of tasks
  DependencyLimit,  \* TASK_GRAPH_LIMITS.maxDependenciesPerTask
  DepthLimit,       \* TASK_GRAPH_LIMITS.maxDepth
  Given             \* the statuses a task may have before the walk

ASSUME WalkAssumption ==
  /\ N \in Nat \ {0} /\ DependencyLimit \in Nat /\ DepthLimit \in Nat \ {0}
  /\ Given \subseteq {"pending", "ready", "running", "waiting", "needs_resolution",
                      "succeeded", "failed", "cancelled", "blocked"}

VARIABLES
  dependencies,  \* task.dependencies
  indegree,      \* indegree
  depth,         \* depths
  heap,          \* TaskOrderMinHeap.#items; #items[0] is heap[1]
  sift,          \* the loop that orders the heap: none, up (push) or down (pop)
  hole,          \* index, the slot that loop is to fill
  held,          \* task or last, what it is to fill it with
  ordered,       \* ordered
  todo,          \* what the loop over the tasks or over the dependents has left
  verdict,       \* what the loops have come to
  before,        \* task.status when the walk begins
  taskStatus,    \* task.status
  blockers,      \* task.blockedBy
  visited        \* how many tasks the walk has visited

queue    == <<heap, sift, hole, held>>
sorting  == <<indegree, depth, ordered, todo>>
walk     == <<before, taskStatus, blockers, visited>>
walkVars == <<dependencies, queue, sorting, verdict, walk>>

Tasks == 0 .. N - 1

Reference == INSTANCE TaskGraph WITH
  TaskIds <- Tasks, added <- Tasks, Artifacts <- {}, Failures <- {}, NoFailure <- 0,
  MaxTasks <- N, MaxEdges <- N * N, MaxOutputArtifacts <- 0, MaxSequence <- 0, MaxTime <- 0,
  MaxDependenciesPerTask <- DependencyLimit, MaxDepth <- DepthLimit,
  deps <- dependencies, status <- taskStatus, blockedBy <- blockers,
  outputs <- <<>>, failure <- <<>>, order <- [t \in Tasks |-> t], nextOrder <- N,
  taskCreatedAt <- <<>>, taskUpdatedAt <- <<>>, version <- 0, eventSequence <- 0,
  sealed <- TRUE, createdAt <- 0, updatedAt <- 0

WalkInit ==
  /\ dependencies \in [Tasks -> {D \in SUBSET Tasks : Cardinality(D) <= DependencyLimit}]
  /\ \A t \in Tasks : t \notin dependencies[t]
  /\ indegree = [t \in Tasks |-> Cardinality(dependencies[t])]
  /\ depth = [t \in Tasks |-> 1]
  /\ heap = <<>> /\ sift = "none" /\ hole = 0 /\ held = 0
  /\ ordered = <<>>
  /\ todo = {t \in Tasks : indegree[t] = 0}
  /\ verdict = "seeding"
  /\ before = [t \in Tasks |-> "pending"] /\ taskStatus = before
  /\ blockers = [t \in Tasks |-> {}] /\ visited = 0

-----------------------------------------------------------------------------
(* TaskOrderMinHeap                                                         *)

Push(t) ==
  /\ heap' = Append(heap, t)
  /\ sift' = "up" /\ hole' = Len(heap) + 1 /\ held' = t

\* The loop has found the slot.
Place ==
  /\ heap' = [heap EXCEPT ![hole] = held]
  /\ sift' = "none" /\ hole' = 0 /\ held' = 0

\* What is at i moves to the slot, and leaves its own to be filled.
MoveFrom(i) ==
  /\ heap' = [heap EXCEPT ![hole] = heap[i]]
  /\ hole' = i
  /\ UNCHANGED <<sift, held>>

SiftUp ==
  LET parent == hole \div 2
      rises  == hole > 1 /\ heap[parent] > held
  IN /\ sift = "up"
     /\ IF rises THEN MoveFrom(parent) ELSE Place
     /\ UNCHANGED <<dependencies, sorting, verdict, walk>>

SmallerChild ==
  IF 2 * hole + 1 <= Len(heap) /\ heap[2 * hole + 1] < heap[2 * hole]
    THEN 2 * hole + 1 ELSE 2 * hole

SiftDown ==
  LET sinks == 2 * hole <= Len(heap) /\ heap[SmallerChild] < held
  IN /\ sift = "down"
     /\ IF sinks THEN MoveFrom(SmallerChild) ELSE Place
     /\ UNCHANGED <<dependencies, sorting, verdict, walk>>

-----------------------------------------------------------------------------
(* topologicalTaskIds                                                       *)

\* A task without dependencies is queued.
Seed ==
  /\ verdict = "seeding" /\ sift = "none"
  /\ \E t \in todo : Push(t) /\ todo' = todo \ {t}
  /\ UNCHANGED <<dependencies, indegree, depth, ordered, verdict, walk>>

Seeded ==
  /\ verdict = "seeding" /\ sift = "none" /\ todo = {}
  /\ verdict' = "sorting"
  /\ UNCHANGED <<dependencies, queue, sorting, walk>>

Dependents(t) == {u \in Tasks : t \in dependencies[u]}

\* The first task leaves the queue, and the last one is to take its place.
Pop ==
  /\ verdict = "sorting" /\ sift = "none" /\ todo = {} /\ heap # <<>>
  /\ ordered' = Append(ordered, Head(heap))
  /\ todo' = Dependents(Head(heap))
  /\ heap' = SubSeq(heap, 1, Len(heap) - 1)
  /\ IF Len(heap) = 1 THEN UNCHANGED <<sift, hole, held>>
     ELSE sift' = "down" /\ hole' = 1 /\ held' = heap[Len(heap)]
  /\ UNCHANGED <<dependencies, indegree, depth, verdict, walk>>

\* Mutated form of Deepened: a task is as deep as its deepest dependency.
DepthOfDependency(t, u) == IF depth[t] > depth[u] THEN depth[t] ELSE depth[u]

Deepened(t, u) == IF depth[t] + 1 > depth[u] THEN depth[t] + 1 ELSE depth[u]

\* One dependent of the task that left the queue.
Visit ==
  /\ verdict = "sorting" /\ sift = "none"
  /\ \E u \in todo :
       LET t == ordered[Len(ordered)]
       IN /\ depth' = [depth EXCEPT ![u] = Deepened(t, u)]
          /\ IF depth[t] + 1 > DepthLimit
               THEN verdict' = "too deep" /\ UNCHANGED <<queue, indegree, todo>>
               ELSE /\ indegree' = [indegree EXCEPT ![u] = @ - 1]
                    /\ todo' = todo \ {u}
                    /\ IF indegree[u] = 1 THEN Push(u) ELSE UNCHANGED queue
                    /\ UNCHANGED verdict
  /\ UNCHANGED <<dependencies, ordered, walk>>

\* A task is pending until its dependencies have settled, unless it is
\* cancelled while it waits.
MayPrecedeWalk(st) ==
  \A t \in Tasks : st[t] \notin {"pending", "cancelled", "blocked"} =>
    \A d \in dependencies[t] : st[d] = "succeeded"

\* The queue is empty: the graph has a cycle, or the walk begins.
Sorted ==
  /\ verdict = "sorting" /\ sift = "none" /\ todo = {} /\ heap = <<>>
  /\ IF Len(ordered) # N THEN verdict' = "cycle" /\ UNCHANGED <<before, taskStatus>>
     ELSE /\ verdict' = "walking"
          /\ before' \in {st \in [Tasks -> Given] : MayPrecedeWalk(st)}
          /\ taskStatus' = before'
  /\ UNCHANGED <<dependencies, queue, sorting, blockers, visited>>

-----------------------------------------------------------------------------
(* #reconcilePendingTasks                                                   *)

UnsuccessfulDependencies(t) ==
  {d \in dependencies[t] : taskStatus[d] \in Reference!Unsuccessful}

Reconcile ==
  LET t == ordered[visited + 1] IN
  /\ verdict = "walking" /\ visited < Len(ordered)
  /\ visited' = visited + 1
  /\ \/ /\ taskStatus[t] = "pending" /\ UnsuccessfulDependencies(t) # {}
        /\ taskStatus' = [taskStatus EXCEPT ![t] = "blocked"]
        /\ blockers' = [blockers EXCEPT ![t] = UnsuccessfulDependencies(t)]
     \/ /\ taskStatus[t] = "pending"
        /\ \A d \in dependencies[t] : taskStatus[d] = "succeeded"
        /\ taskStatus' = [taskStatus EXCEPT ![t] = "ready"]
        /\ blockers' = [blockers EXCEPT ![t] = {}]
     \/ /\ taskStatus[t] = "pending" =>
             /\ UnsuccessfulDependencies(t) = {}
             /\ \E d \in dependencies[t] : taskStatus[d] # "succeeded"
        /\ UNCHANGED <<taskStatus, blockers>>
  /\ UNCHANGED <<dependencies, queue, sorting, verdict, before>>

Reconciled ==
  /\ verdict = "walking" /\ visited = Len(ordered)
  /\ verdict' = "done"
  /\ UNCHANGED <<dependencies, queue, sorting, walk>>

WalkNext ==
  \/ SiftUp \/ SiftDown
  \/ Seed \/ Seeded \/ Pop \/ Visit \/ Sorted
  \/ Reconcile \/ Reconciled

WalkSpec == WalkInit /\ [][WalkNext]_walkVars

-----------------------------------------------------------------------------
\* topologicalTaskIds accepts exactly the graphs that have a depth for every
\* task (Ranks of TaskGraph), and says "cycle" only of a graph with a cycle.
VerdictIsRight ==
  /\ verdict \in {"walking", "done"} =>
       \E rank \in [Tasks -> 1 .. DepthLimit] : Reference!Ranks(rank, Tasks, dependencies)
  /\ verdict \in {"too deep", "cycle"} =>
       ~ \E rank \in [Tasks -> 1 .. DepthLimit] : Reference!Ranks(rank, Tasks, dependencies)
  /\ verdict = "cycle" =>
       \E C \in SUBSET Tasks : C # {} /\ \A t \in C : dependencies[t] \cap C # {}

\* The order does not depend on how the graph was built: a task comes before
\* one with a lower number only if that one still had a dependency to wait for.
LeastFirst ==
  \A i, j \in 1 .. Len(ordered) :
    i < j /\ ordered[j] < ordered[i] =>
      \E k \in i .. j - 1 : ordered[k] \in dependencies[ordered[j]]

\* The walk of #reconcilePendingTasks blocks, in one pass, exactly the tasks
\* that Blocks of TaskGraph describes, for the same reasons, and frees exactly
\* the ones in Released.
WalkIsRight ==
  verdict = "done" =>
    LET pending == {t \in Tasks : before[t] = "pending"}
        B == {t \in pending : taskStatus[t] = "blocked"}
    IN /\ Reference!Blocks(B, before)
       /\ {t \in pending : taskStatus[t] = "ready"} = Reference!Released(B, before)
       /\ \A t \in B : blockers[t] = Reference!BlockersOf(t, before, B)

\* The loops of a commit: the heap, the sort, and the walk over its order.
CommitIsRight == VerdictIsRight /\ LeastFirst /\ WalkIsRight
=============================================================================
