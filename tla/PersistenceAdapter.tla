------------------------- MODULE PersistenceAdapter -------------------------
(***************************************************************************)
(* The adapters' transact, migrationStatus and close: a FIFO mutex around  *)
(* callbacks that write to the store in place, a snapshot to roll back to, *)
(* a gate that ends each transaction context, a guard against nested       *)
(* calls, and closure.  The memory adapter copies its maps; the SQLite     *)
(* adapter leaves the copy to BEGIN IMMEDIATE, COMMIT and ROLLBACK, which  *)
(* may fail, and survives the death of its process.                        *)
(*                                                                         *)
(* A client is one asynchronous caller.  Its callback runs while it is     *)
(* "inside"; it may keep the context it was given and go on calling it     *)
(* after the transaction is over.                                          *)
(***************************************************************************)
EXTENDS Sequences, FiniteSets

CONSTANTS
  Clients,       \* asynchronous callers of one adapter
  NoClient,      \* nobody holds the mutex
  Ops,           \* operations of a transaction context
  Effect(_, _),  \* what an operation does to the store
  InitialDb,     \* the store a new adapter opens
  Backend,       \* "memory" or "sqlite"
  CloseInside    \* whether a callback may wait for close or migrationStatus

ASSUME AdapterAssumption ==
  /\ NoClient \notin Clients
  /\ Backend \in {"memory", "sqlite"}
  /\ CloseInside \in BOOLEAN

VARIABLES
  state,     \* the store as the running callback sees it
  snapshot,  \* what a rollback returns to
  running,   \* the client whose callback holds the mutex
  queue,     \* requests waiting for the mutex, oldest first
  gate,      \* txGate.active of the last context of each client
  closed,    \* not closedGate.active
  pc,        \* what each client is waiting for
  answer     \* whether its last transact resolved or rejected

vars == <<state, snapshot, running, queue, gate, closed, pc, answer>>

\* A caller's place in the queue of the mutex.
Request(c, kind) == [client |-> c, kind |-> kind]

Init ==
  /\ state = InitialDb
  /\ snapshot = InitialDb
  /\ running = NoClient
  /\ queue = <<>>
  /\ gate = [c \in Clients |-> FALSE]
  /\ closed = FALSE
  /\ pc = [c \in Clients |-> "idle"]
  /\ answer = [c \in Clients |-> "none"]

-----------------------------------------------------------------------------
\* Mutated form of NotNested: nothing is asserted.
NestedAllowed(c) == TRUE

\* TransactionGuard.assertNotNested
NotNested(c) == pc[c] = "idle"

\* transact, up to the wait for the mutex.  Inside a callback it throws.
Transact(c) ==
  /\ pc[c] \in {"idle", "inside"}
  /\ NotNested(c)
  /\ queue' = Append(queue, Request(c, "transact"))
  /\ pc' = [pc EXCEPT ![c] = IF @ = "idle" THEN "queued" ELSE "stuck"]
  /\ UNCHANGED <<state, snapshot, running, gate, closed, answer>>

\* close and, in the SQLite adapter, migrationStatus: no guard keeps a
\* callback from waiting for them.
Ask(c, kind) ==
  /\ kind = "close" \/ Backend = "sqlite"
  /\ pc[c] = "idle" \/ (CloseInside /\ pc[c] = "inside")
  /\ queue' = Append(queue, Request(c, kind))
  /\ pc' = [pc EXCEPT ![c] = IF @ = "idle" THEN "queued" ELSE "stuck"]
  /\ UNCHANGED <<state, snapshot, running, gate, closed, answer>>

\* The mutex is free and `kind' is the oldest request.
Granted(c, kind) ==
  /\ running = NoClient
  /\ queue # <<>>
  /\ Head(queue) = Request(c, kind)
  /\ queue' = Tail(queue)

\* Mutated form of Begin: closedGate is not asserted.
BeginUnlessRunning(c) ==
  /\ Granted(c, "transact")
  /\ running' = c
  /\ snapshot' = state
  /\ gate' = [gate EXCEPT ![c] = TRUE]
  /\ pc' = [pc EXCEPT ![c] = "inside"]
  /\ answer' = [answer EXCEPT ![c] = "none"]
  /\ UNCHANGED <<state, closed>>

\* transact: the work starts on a snapshot.
Begin(c) ==
  /\ Granted(c, "transact")
  /\ ~ closed
  /\ running' = c
  /\ snapshot' = state
  /\ gate' = [gate EXCEPT ![c] = TRUE]
  /\ pc' = [pc EXCEPT ![c] = "inside"]
  /\ answer' = [answer EXCEPT ![c] = "none"]
  /\ UNCHANGED <<state, closed>>

\* transact: ADAPTER_CLOSED, or BEGIN IMMEDIATE fails.
BeginFails(c) ==
  /\ Granted(c, "transact")
  /\ closed \/ Backend = "sqlite"
  /\ pc' = [pc EXCEPT ![c] = "idle"]
  /\ answer' = [answer EXCEPT ![c] = "failed"]
  /\ UNCHANGED <<state, snapshot, running, gate, closed>>

\* close, once it has the mutex.
Close(c) ==
  /\ Granted(c, "close")
  /\ closed' = TRUE
  /\ pc' = [pc EXCEPT ![c] = "idle"]
  /\ UNCHANGED <<state, snapshot, running, gate, answer>>

\* migrationStatus, once it has the mutex.
MigrationStatus(c) ==
  /\ Granted(c, "status")
  /\ pc' = [pc EXCEPT ![c] = "idle"]
  /\ UNCHANGED <<state, snapshot, running, gate, closed, answer>>

\* An operation of a transaction context.  txGate.assertActive refuses a
\* context whose transaction is over.
Operate(c, op) ==
  /\ gate[c]
  /\ state' = Effect(op, state)
  /\ UNCHANGED <<snapshot, running, queue, gate, closed, pc, answer>>

\* transact: the gate of the context closes and the mutex is released.
Finish(c, result) ==
  /\ running = c /\ pc[c] = "inside"
  /\ running' = NoClient
  /\ gate' = [gate EXCEPT ![c] = FALSE]
  /\ pc' = [pc EXCEPT ![c] = "idle"]
  /\ answer' = [answer EXCEPT ![c] = result]
  /\ UNCHANGED <<queue, closed>>

\* transact: the callback resolves and the transaction commits.
Commit(c) == Finish(c, "committed") /\ UNCHANGED <<state, snapshot>>

\* Mutated form of RollBack: the caller sees the error, the writes stay.
ForgetSnapshot(c) == Finish(c, "failed") /\ UNCHANGED <<state, snapshot>>

\* transact: the callback rejects, or COMMIT fails.
RollBack(c) == Finish(c, "failed") /\ state' = snapshot /\ UNCHANGED snapshot

\* The process dies and the database is opened again.
Crash ==
  /\ Backend = "sqlite"
  /\ state' = IF running = NoClient THEN state ELSE snapshot
  /\ snapshot' = state'
  /\ running' = NoClient
  /\ queue' = <<>>
  /\ gate' = [c \in Clients |-> FALSE]
  /\ closed' = FALSE
  /\ pc' = [c \in Clients |-> "idle"]
  /\ answer' = [c \in Clients |-> "none"]

Ends(c) == Commit(c) \/ RollBack(c)

Serve == \E c \in Clients : Begin(c) \/ BeginFails(c) \/ Close(c) \/ MigrationStatus(c)

Next ==
  \/ \E c \in Clients :
       \/ Transact(c)
       \/ \E kind \in {"close", "status"} : Ask(c, kind)
       \/ Begin(c) \/ BeginFails(c) \/ Close(c) \/ MigrationStatus(c)
       \/ \E op \in Ops : Operate(c, op)
       \/ Commit(c) \/ RollBack(c)
  \/ Crash

Spec == Init /\ [][Next]_vars

\* The event loop runs the next holder of the mutex, and callbacks settle.
Fairness == WF_vars(Serve) /\ \A c \in Clients : WF_vars(Ends(c))

LiveSpec == Spec /\ Fairness

-----------------------------------------------------------------------------
\* The type of the adapter, and who holds what: an active context belongs to
\* the holder of the mutex, and every caller waits for one request at most.
TypeOK ==
  /\ running \in Clients \cup {NoClient}
  /\ gate \in [Clients -> BOOLEAN]
  /\ closed \in BOOLEAN
  /\ pc \in [Clients -> {"idle", "queued", "inside", "stuck"}]
  /\ answer \in [Clients -> {"none", "committed", "failed"}]
  /\ queue \in Seq([client : Clients, kind : {"transact", "close", "status"}])
  /\ \A c \in Clients : gate[c] => running = c
  /\ \A i, j \in DOMAIN queue : queue[i].client = queue[j].client => i = j

\* Every transaction is atomic and isolated, whatever contexts outlive their
\* callbacks, whichever call fails and whenever the process dies.
Atomic == INSTANCE AtomicStore WITH
  db <- IF running = NoClient THEN state ELSE snapshot,
  tx <- [c \in Clients |-> IF running = c THEN <<snapshot, state>> ELSE <<>>]
ImplementsAtomicStore == Atomic!Spec

\* close waits for the work in flight, and a closed store never changes.
ClosedIsQuiet == [][closed => state' = state /\ running' = NoClient]_vars

\* Every call that waits for the mutex is answered: no order of requests
\* leaves everyone waiting for everyone.
EveryCallReturns ==
  \A c \in Clients : pc[c] \in {"queued", "stuck"} ~> pc[c] \in {"idle", "inside"}
=============================================================================
