------------------------------ MODULE StoreOps ------------------------------
(***************************************************************************)
(* What one operation of a transaction context does to the store:          *)
(* aggregates with a version each, the event journal, the outbox and the   *)
(* artifact metadata.  Apply(op, db) is the store after `op' was called on *)
(* `db', whether the call returned or threw: most calls that throw leave   *)
(* the store alone, but a claim that meets a damaged message has leased    *)
(* the ones before it, and a callback may catch the error and commit.      *)
(* This is the SQLite adapter; the memory adapter differs only in writing  *)
(* a claimed or acknowledged message before it verifies the checksum.      *)
(*                                                                         *)
(* Payloads and timestamps are left out.  A damaged message is one whose   *)
(* stored text no longer matches its checksum.  Leases and their time are  *)
(* the subject of module Outbox; here a message is pending, leased to the  *)
(* one worker there is, or acknowledged.                                   *)
(***************************************************************************)
EXTENDS Integers, Sequences, FiniteSets

CONSTANTS
  Aggregates,  \* identifiers of aggregates
  Events,      \* event identifiers
  MessageIds,    \* outbox message identifiers
  KeyOfMessage,       \* the idempotency key of each message
  Damaged,     \* messages whose stored text is damaged after they are enqueued
  Artifacts,   \* artifact and manifest identifiers
  MaxVersion,  \* bound: the last version an update may expect
  ClaimLimit   \* the limit a claim is called with

ASSUME StoreOpsAssumption ==
  /\ Damaged \subseteq MessageIds
  /\ DOMAIN KeyOfMessage = MessageIds
  /\ MaxVersion \in Nat /\ ClaimLimit \in Nat \ {0}

\* A new adapter on an empty store.
EmptyDb ==
  [version   |-> [a \in Aggregates |-> 0],
   events    |-> <<>>,
   outbox    |-> <<>>,
   status    |-> [m \in MessageIds |-> "absent"],
   artifacts |-> {}]

StoreCalls ==
  [kind : {"create"}, id : Aggregates]
    \cup [kind : {"update"}, id : Aggregates, expected : 1 .. MaxVersion]
    \cup [kind : {"append"}, id : Events]
    \cup [kind : {"enqueue"}, id : MessageIds]
    \cup [kind : {"claim"}]
    \cup [kind : {"acknowledge"}, id : MessageIds]
    \cup [kind : {"put"}, id : Artifacts]

\* aggregates.create
Create(a, db) ==
  IF db.version[a] = 0 THEN [db EXCEPT !.version[a] = 1] ELSE db

\* aggregates.update
Update(a, expected, db) ==
  IF db.version[a] = expected THEN [db EXCEPT !.version[a] = expected + 1] ELSE db

\* Mutated form of AppendEvent: the identifier is not looked up.
AppendAgain(e, db) == [db EXCEPT !.events = Append(@, e)]

\* events.append: globalSequence is the position in the journal.
AppendEvent(e, db) ==
  IF \E i \in DOMAIN db.events : db.events[i] = e THEN db
  ELSE [db EXCEPT !.events = Append(@, e)]

\* outbox.enqueue
EnqueueMessage(m, db) ==
  IF \E i \in DOMAIN db.outbox : db.outbox[i] = m \/ KeyOfMessage[db.outbox[i]] = KeyOfMessage[m]
    THEN db
    ELSE [db EXCEPT !.outbox = Append(@, m), !.status[m] = "pending"]

\* The first pending messages in enqueue order, at most `limit'.
Claimable(limit, db) ==
  {db.outbox[i] : i \in {j \in DOMAIN db.outbox :
     /\ db.status[db.outbox[j]] = "pending"
     /\ Cardinality({k \in 1 .. j - 1 : db.status[db.outbox[k]] = "pending"}) < limit}}

Position(m, db) == CHOOSE i \in DOMAIN db.outbox : db.outbox[i] = m

\* outbox.claim stops with an error at the first damaged message: the
\* messages before it are leased by then.
ClaimMessages(db) ==
  LET claimable  == Claimable(ClaimLimit, db)
      reached(m) == \A d \in claimable \cap Damaged : Position(m, db) < Position(d, db)
  IN  [db EXCEPT !.status = [m \in MessageIds |->
        IF m \in claimable /\ reached(m) THEN "leased" ELSE @[m]]]

\* outbox.acknowledge: the checksum is verified first.
AcknowledgeMessage(m, db) ==
  IF db.status[m] = "leased" /\ m \notin Damaged
    THEN [db EXCEPT !.status[m] = "acknowledged"]
    ELSE db

\* artifacts.putDescriptor and artifacts.putManifest: create-only.
PutArtifact(x, db) == [db EXCEPT !.artifacts = @ \cup {x}]

Apply(op, db) ==
  CASE op.kind = "create"      -> Create(op.id, db)
    [] op.kind = "update"      -> Update(op.id, op.expected, db)
    [] op.kind = "append"      -> AppendEvent(op.id, db)
    [] op.kind = "enqueue"     -> EnqueueMessage(op.id, db)
    [] op.kind = "claim"       -> ClaimMessages(db)
    [] op.kind = "acknowledge" -> AcknowledgeMessage(op.id, db)
    [] op.kind = "put"         -> PutArtifact(op.id, db)
=============================================================================
