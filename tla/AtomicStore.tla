---------------------------- MODULE AtomicStore ----------------------------
(***************************************************************************)
(* What a persistence adapter promises (packages/persistence/src/ports.ts, *)
(* TransactionContext and PersistenceAdapter): every transaction works on  *)
(* the store as it was when the transaction began, and takes effect as a   *)
(* whole or not at all, on a store nobody else has changed meanwhile.      *)
(***************************************************************************)
CONSTANTS
  Clients,           \* callers of transact
  Ops,               \* operations of a transaction context
  Effect(_, _),      \* what an operation does to the store
  InitialDb          \* the store a new adapter opens

VARIABLES
  db,     \* the committed store
  tx,     \* each client's open transaction <<base, view>>, or <<>>
  answer  \* what the last call of transact told each client

vars == <<db, tx, answer>>

Init ==
  /\ db = InitialDb
  /\ tx = [c \in Clients |-> <<>>]
  /\ answer = [c \in Clients |-> "none"]

Begin(c) ==
  /\ tx[c] = <<>>
  /\ tx' = [tx EXCEPT ![c] = <<db, db>>]
  /\ answer' = [answer EXCEPT ![c] = "none"]
  /\ UNCHANGED db

Operate(c, op) ==
  /\ tx[c] # <<>>
  /\ tx' = [tx EXCEPT ![c] = <<tx[c][1], Effect(op, tx[c][2])>>]
  /\ UNCHANGED <<db, answer>>

Commit(c) ==
  /\ tx[c] # <<>>
  /\ tx[c][1] = db
  /\ db' = tx[c][2]
  /\ tx' = [tx EXCEPT ![c] = <<>>]
  /\ answer' = [answer EXCEPT ![c] = "committed"]

\* A transaction is given up, or refused before it begins.
Abort(c) ==
  /\ tx' = [tx EXCEPT ![c] = <<>>]
  /\ answer' = [answer EXCEPT ![c] = "failed"]
  /\ UNCHANGED db

\* The process dies with its open transactions and its callers.
Crash ==
  /\ tx' = [c \in Clients |-> <<>>]
  /\ answer' = [c \in Clients |-> "none"]
  /\ UNCHANGED db

Next ==
  \/ \E c \in Clients : Begin(c) \/ Commit(c) \/ Abort(c)
  \/ \E c \in Clients, op \in Ops : Operate(c, op)
  \/ Crash

Spec == Init /\ [][Next]_vars
=============================================================================
