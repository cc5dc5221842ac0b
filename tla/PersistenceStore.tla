-------------------------- MODULE PersistenceStore --------------------------
(***************************************************************************)
(* The adapters with the operations of their transaction contexts:         *)
(* PersistenceAdapter over StoreOps.                                       *)
(***************************************************************************)
EXTENDS PersistenceAdapter, StoreOps

\* No event is stored twice and no idempotency key is used twice, however
\* often a transaction is retried with the same identifiers and whichever of
\* its calls the callback lets fail.
JournalHasNoDuplicates ==
  /\ \A i, j \in DOMAIN state.events : state.events[i] = state.events[j] => i = j
  /\ \A i, j \in DOMAIN state.outbox :
       KeyOfMessage[state.outbox[i]] = KeyOfMessage[state.outbox[j]] => i = j
=============================================================================
