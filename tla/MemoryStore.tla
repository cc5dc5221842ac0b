------------------------------ MODULE MemoryStore ------------------------------
(* The memory store of packages/memory/src/store.ts over the durable port    *)
(* of port.ts, as in-memory-port.ts defines it.  A call is a process whose   *)
(* pc names the port operation it waits for: the operation takes effect in   *)
(* one step together with the code up to the next one.  In between, other    *)
(* calls run.                                                                *)
(*                                                                           *)
(* One scope and one subject.  A record is its identifier, its variant, the  *)
(* record it replaces or buries, and whether its body is still there; its    *)
(* fingerprint is all of that but the body.  Record building, scopes, labels *)
(* and authorization are choices: at any step a call may be refused.         *)
EXTENDS Integers, Sequences, FiniteSets

CONSTANTS Ids,        \* record identifiers, ordered as text is
          Callers,    \* calls under way at the same time
          Keys,       \* idempotency keys
          Requests,   \* the requests that may be made
          MaxCalls,   \* bound on the number of calls
          MaxRecords, \* limits.maxRecordsPerScope
          MaxDepth    \* limits.maxSupersessionChainDepth

None == 0
Variants == {"explicit", "candidate", "fact", "tombstone"}
Ops == {"append", "read", "query", "decide", "supersede", "tombstone"}

ASSUME MemoryAssumption ==
  /\ Ids \subseteq Nat \ {None}
  /\ None \notin Keys
  /\ MaxCalls \in Nat /\ MaxRecords \in Nat /\ MaxDepth \in Nat
  /\ Requests \subseteq [op : Ops, id : Ids, variant : Variants \ {"tombstone"}, supersedes : Ids \cup {None},
                         key : Keys \cup {None}, resurrect : BOOLEAN, with : Ids \cup {None}]
  /\ \A q \in Requests : /\ q.id \notin {q.supersedes, q.with}
                         /\ q.op \in {"supersede", "tombstone"} => q.with # None

VARIABLES
  entries, \* the scope's bucket: the entry of each identifier
  byKey,   \* the idempotency index
  journal, \* the audit events, in sequence
  call,    \* the calls
  calls,   \* how many were made
  closed   \* the store's and its port's flag

vars == <<entries, byKey, journal, call, calls, closed>>

-----------------------------------------------------------------------------
\* A request.  with: the identifier of the marker, or of the replacement.
Request(op, id) == [op |-> op, id |-> id, variant |-> "fact", supersedes |-> None,
                    key |-> None, resurrect |-> FALSE, with |-> None]

Record(id, variant, supersedes, tombstoneOf) ==
  [id |-> id, variant |-> variant, supersedes |-> supersedes, tombstoneOf |-> tombstoneOf,
   body |-> IF variant = "tombstone" THEN "withheld" ELSE "text"]

Fingerprint(record) == [record EXCEPT !.body = "any"]

NoEntry == [record |-> Record(None, "fact", None, None), version |-> 0, confirmation |-> "none",
            supersededBy |-> None, deleted |-> FALSE, key |-> None]

\* An entry as append and tombstone first write it.
NewEntry(record, version, key) ==
  [record |-> record, version |-> version, supersededBy |-> None, deleted |-> FALSE, key |-> key,
   confirmation |-> IF record.variant = "candidate" THEN "unconfirmed" ELSE "not-applicable"]

Superseded(e, by) == [e EXCEPT !.version = @ + 1, !.supersededBy = by]
Decided(e, how)   == [e EXCEPT !.version = @ + 1, !.confirmation = how]

\* Mutated form of Buried: the version stays.
BuriedInPlace(e) == [e EXCEPT !.deleted = TRUE, !.record.body = "withheld"]

Buried(e) == [e EXCEPT !.version = @ + 1, !.deleted = TRUE, !.record.body = "withheld"]

Present == {r \in Ids : entries[r] # NoEntry}
Gone == {r \in Ids : entries[r].deleted}

\* seen: the entry the call has loaded.  expected: the version its caller read
\* before, then the one append found.  at, depth: the walk along a chain.
\* deleted: what was deleted when the call began.  answer: what it returned.
Idle == [pc |-> "idle", req |-> Request("read", None), expected |-> 0, seen |-> NoEntry,
         at |-> None, depth |-> 0, deleted |-> {}, result |-> "none", answer |-> {}]

-----------------------------------------------------------------------------
Init ==
  /\ entries = [r \in Ids |-> NoEntry]
  /\ byKey = [k \in Keys |-> None]
  /\ journal = <<>>
  /\ call = [c \in Callers |-> Idle]
  /\ calls = 0
  /\ closed = FALSE

\* A call is over, with its result and the entries it answers with.
Return(c, result, answer) ==
  call' = [call EXCEPT ![c] = [Idle EXCEPT !.req = call[c].req, !.result = result, !.answer = answer,
                                           !.deleted = call[c].deleted]]

Goes(c, pc) == call' = [call EXCEPT ![c].pc = pc]

Unchanged == UNCHANGED <<entries, byKey, journal, calls, closed>>

\* Where append goes once it is authorized.
AfterKey(q) == IF q.key = None THEN "prior" ELSE "key"

\* A caller that has read the current version makes a call; its guard, the
\* scope gate and, for append and query, the authorization pass.
Start(c, q) ==
  /\ call[c].pc = "idle" /\ ~closed /\ calls < MaxCalls
  /\ call' = [call EXCEPT ![c] = [Idle EXCEPT !.req = q, !.expected = entries[q.id].version,
                                    !.deleted = IF q.op \in {"read", "query"}
                                                THEN {<<r, entries[r].version>> : r \in Gone} ELSE {},
                                    !.pc = CASE q.op = "append" -> AfterKey(q)
                                             [] q.op = "query"  -> "list"
                                             [] OTHER           -> "load"]]
  /\ calls' = calls + 1
  /\ UNCHANGED <<entries, byKey, journal, closed>>

\* Authorization, the audit observer, the port, expiry or a closed port
\* refuses: the call fails at the await it stands at.  The walk along a chain
\* takes a failing port for the end of the chain instead.
Refuse(c) ==
  /\ call[c].pc \notin {"idle", "depth"}
  /\ Return(c, "failed", {})
  /\ Unchanged

-----------------------------------------------------------------------------
\* port.apply(): the entry and its event together, if the version still is the
\* expected one; 0 stands for null, the record must be absent.
Fits(id, expected) == entries[id].version = expected

Apply(e, expected, kind, of) ==
  /\ ~closed
  /\ Fits(e.record.id, expected)
  /\ entries' = [entries EXCEPT ![e.record.id] = e]
  /\ byKey' = IF e.key = None THEN byKey ELSE [byKey EXCEPT ![e.key] = e.record.id]
  /\ journal' = Append(journal, [id |-> e.record.id, kind |-> kind, version |-> e.version, of |-> of])
  /\ UNCHANGED <<calls, closed>>

\* Another writer was faster, the record exists already, or the port is closed.
Lose(c, id, expected) ==
  /\ ~Fits(id, expected) /\ ~closed
  /\ Return(c, "failed", {})
  /\ Unchanged

-----------------------------------------------------------------------------
(* append *)

Wanted(q) == Record(q.id, q.variant, q.supersedes, None)

FindKey(c) ==
  LET q == call[c].req
      found == byKey[q.key]
      existing == entries[found]
  IN /\ call[c].pc = "key" /\ ~closed
     /\ IF found = None THEN Goes(c, "prior")
        ELSE IF Fingerprint(existing.record) = Fingerprint(Wanted(q))
             THEN Return(c, "replayed", {existing})
             ELSE Return(c, "failed", {})
     /\ Unchanged

\* Only a deleted record may be there, and only if its return was decided.
GetPrior(c) ==
  LET q == call[c].req
      prior == entries[q.id]
  IN /\ call[c].pc = "prior" /\ ~closed
     /\ IF prior = NoEntry \/ (prior.deleted /\ q.resurrect)
        THEN call' = [call EXCEPT ![c].expected = prior.version,
                        ![c].pc = IF q.supersedes = None THEN "capacity" ELSE "precedence"]
        ELSE Return(c, "failed", {})
     /\ Unchanged

\* Mutated form of MayReplace: the variants are not compared.
MayReplaceAny(variant, target) == target # NoEntry /\ target.supersededBy = None

\* checkPrecedence(): an inferred candidate may not replace what a user stated.
MayReplace(variant, target) ==
  /\ target # NoEntry
  /\ target.supersededBy = None
  /\ ~(variant = "candidate" /\ target.record.variant = "explicit")

CheckPrecedence(c) ==
  LET q == call[c].req
  IN /\ call[c].pc = "precedence" /\ ~closed
     /\ IF MayReplace(q.variant, entries[q.supersedes])
        THEN Goes(c, "capacity") ELSE Return(c, "failed", {})
     /\ Unchanged

CheckCapacity(c) ==
  /\ call[c].pc = "capacity" /\ ~closed
  /\ IF Cardinality(Present) < MaxRecords THEN Goes(c, "apply") ELSE Return(c, "failed", {})
  /\ Unchanged

ApplyAppend(c) ==
  LET q == call[c].req
      e == NewEntry(Wanted(q), call[c].expected + 1, q.key)
  IN /\ call[c].pc = "apply"
     /\ \/ /\ Apply(e, call[c].expected, "appended", q.supersedes)
           /\ IF q.supersedes = None
              THEN Return(c, "ok", {e})
              ELSE call' = [call EXCEPT ![c].pc = "markLoad", ![c].answer = {e}]
        \/ Lose(c, q.id, call[c].expected)

\* Mutated form of Markable: relies on checkPrecedence having looked.
MarkableIfPresent(target) == target # NoEntry

\* markSuperseded() loads the record again, and marks what it finds.
Markable(target) == target # NoEntry /\ target.supersededBy = None

MarkLoad(c) ==
  LET target == entries[call[c].req.supersedes]
  IN /\ call[c].pc = "markLoad" /\ ~closed
     /\ IF Markable(target)
        THEN call' = [call EXCEPT ![c].pc = "mark", ![c].seen = target]
        ELSE Return(c, "failed", {})
     /\ Unchanged

Mark(c) ==
  LET q == call[c].req
      target == call[c].seen
  IN /\ call[c].pc = "mark"
     /\ \/ /\ Apply(Superseded(target, q.id), target.version, "superseded", q.id)
           /\ Return(c, "ok", call[c].answer)
        \/ Lose(c, q.supersedes, target.version)

-----------------------------------------------------------------------------
(* read, decideCandidate, supersede and tombstone load their record first;   *)
(* what follows the load and the second authorization needs no other await.  *)

Loads(c, op) == call[c].pc = "load" /\ call[c].req.op = op /\ ~closed

Loaded(c) == entries[call[c].req.id]

\* The version its caller read is still the current one.
IsCurrent(c) == Loaded(c) # NoEntry /\ Loaded(c).version = call[c].expected

\* The call continues with what it loaded, or fails.
TakeIf(c, fine, pc) ==
  /\ IF fine THEN call' = [call EXCEPT ![c].pc = pc, ![c].seen = Loaded(c), ![c].at = call[c].req.id]
     ELSE Return(c, "failed", {})
  /\ Unchanged

Read(c) ==
  /\ Loads(c, "read")
  /\ IF Loaded(c) # NoEntry /\ ~Loaded(c).deleted
     THEN Return(c, "ok", {Loaded(c)}) ELSE Return(c, "failed", {})
  /\ Unchanged

LoadCandidate(c) ==
  /\ Loads(c, "decide")
  /\ TakeIf(c, IsCurrent(c) /\ ~Loaded(c).deleted /\ Loaded(c).record.variant = "candidate"
               /\ Loaded(c).confirmation = "unconfirmed", "decide")

LoadPredecessor(c) ==
  /\ Loads(c, "supersede")
  /\ TakeIf(c, IsCurrent(c) /\ ~Loaded(c).deleted /\ Loaded(c).supersededBy = None, "depth")

LoadDoomed(c) ==
  /\ Loads(c, "tombstone")
  /\ TakeIf(c, IsCurrent(c) /\ ~Loaded(c).deleted, "first")

ApplyDecision(c) ==
  LET e == call[c].seen
  IN /\ call[c].pc = "decide"
     /\ \/ \E how \in {"confirmed", "rejected"} :
             /\ Apply(Decided(e, how), e.version, how, None)
             /\ Return(c, "ok", {Decided(e, how)})
        \/ Lose(c, e.record.id, e.version)

\* supersessionDepth(): one record of the chain after another, until its end
\* or the bound.  Then supersede continues as append of the replacement, which
\* names the record and carries neither key nor decision.
WalkChain(c) ==
  LET q == call[c].req
      depth == call[c].depth + 1
  IN /\ call[c].pc = "depth"
     /\ \E next \in {entries[call[c].at].record.supersedes, None} :
          /\ closed => next = None
          /\ IF next # None /\ depth < MaxDepth + 1
             THEN call' = [call EXCEPT ![c].at = next, ![c].depth = depth]
             ELSE IF depth < MaxDepth
                  THEN call' = [call EXCEPT ![c] = [@ EXCEPT !.pc = "prior", !.at = None, !.depth = 0, !.seen = NoEntry,
                         !.req = [q EXCEPT !.op = "append", !.id = q.with, !.supersedes = q.id,
                                           !.key = None, !.resurrect = FALSE]]]
                  ELSE Return(c, "failed", {})
     /\ Unchanged

\* Mutated form of DeletionOrder: the record is withheld first.
DeletionOrderReversed == <<"bury", "marker">>

DeletionOrder == <<"marker", "bury">>

Turn(c) == CASE call[c].pc = "first"  -> DeletionOrder[1]
             [] call[c].pc = "second" -> DeletionOrder[2]
             [] OTHER -> "none"

AfterWrite(c) == IF call[c].pc = "first" THEN Goes(c, "second")
                 ELSE Return(c, "ok", {Buried(call[c].seen)})

\* The marker must be new.
WriteMarker(c) ==
  LET q == call[c].req
      marker == NewEntry(Record(q.with, "tombstone", None, q.id), 1, None)
  IN /\ Turn(c) = "marker"
     /\ \/ Apply(marker, 0, "tombstoned", q.id) /\ AfterWrite(c)
        \/ Lose(c, q.with, 0)

Bury(c) ==
  LET target == call[c].seen
  IN /\ Turn(c) = "bury"
     /\ \/ Apply(Buried(target), target.version, "tombstoned", None) /\ AfterWrite(c)
        \/ Lose(c, target.record.id, target.version)

-----------------------------------------------------------------------------
\* query() and resolvePreference(): what is live in one listing.
Visible(e) == e # NoEntry /\ ~e.deleted /\ e.supersededBy = None

Query(c) ==
  /\ call[c].pc = "list" /\ ~closed
  /\ Return(c, "ok", {e \in {entries[r] : r \in Ids} : Visible(e)})
  /\ Unchanged

\* close(): calls under way meet a closed port.
Close ==
  /\ ~closed
  /\ closed' = TRUE
  /\ UNCHANGED <<entries, byKey, journal, call, calls>>

Next ==
  \/ \E c \in Callers :
       \/ \E q \in Requests : Start(c, q)
       \/ Refuse(c)
       \/ FindKey(c) \/ GetPrior(c) \/ CheckPrecedence(c) \/ CheckCapacity(c)
       \/ ApplyAppend(c) \/ MarkLoad(c) \/ Mark(c)
       \/ Read(c) \/ LoadCandidate(c) \/ LoadPredecessor(c) \/ LoadDoomed(c)
       \/ ApplyDecision(c) \/ WalkChain(c)
       \/ WriteMarker(c) \/ Bury(c)
       \/ Query(c)
  \/ Close

Spec == Init /\ [][Next]_vars

-----------------------------------------------------------------------------
(* Properties *)

\* Every variable keeps its type; an entry is filed under its identifier, and
\* its version is the number of events about it.
TypeOK ==
  /\ \A r \in Ids : /\ entries[r] = NoEntry \/ entries[r].record.id = r
                    /\ entries[r].version = Cardinality({i \in DOMAIN journal : journal[i].id = r})
  /\ byKey \in [Keys -> Ids \cup {None}]
  /\ \A c \in Callers : call[c].result \in {"none", "ok", "replayed", "failed"}
  /\ calls \in 0..MaxCalls
  /\ closed \in BOOLEAN

Returns(r) == \E c \in Callers : /\ call[c].pc = "apply" /\ call'[c].pc # "apply"
                               /\ call[c].req.id = r /\ call[c].req.resurrect

\* Every writer read its entry one or more awaits earlier and writes the whole
\* of it.  Still no write takes back what another did in between: a deletion, a
\* supersession, a decision.  Only an append that carries the decision to
\* bring a deleted record back does (compare-and-set of store.ts, port.apply).
NothingIsUndone ==
  [][\A r \in Ids :
       LET old == entries[r]  new == entries'[r]
       IN new # old /\ old # NoEntry =>
            /\ new.version = old.version + 1
            /\ \/ old.deleted /\ ~new.deleted /\ Returns(r)
               \/ /\ old.deleted => new.deleted
                  /\ old.supersededBy # None => new.supersededBy = old.supersededBy
                  /\ old.confirmation # "unconfirmed" => new.confirmation = old.confirmation]_vars

EventsOf(r, kind) == {i \in DOMAIN journal : journal[i].id = r /\ journal[i].kind = kind}

\* Of all the calls that want to replace one record, however their checks and
\* writes interleave, one succeeds; a second can only after the record was
\* brought back (checkPrecedence and markSuperseded).
SupersededOnce ==
  \A r \in Ids : \A i, j \in EventsOf(r, "superseded") :
    i < j => \E k \in EventsOf(r, "appended") : i < k /\ k < j

\* The events that put a record there anew, the marker of a deletion included.
Creations(r) ==
  EventsOf(r, "appended") \cup {i \in EventsOf(r, "tombstoned") : journal[i].of # None}

NeverBroughtBack(r) == Cardinality(Creations(r)) = 1

\* A record that an inferred candidate has replaced was not stated by the user,
\* whatever ran between the check of precedence and the mark; as long as
\* neither was deleted and brought back as something else in between.
ExplicitBeatsInferred ==
  \A r \in Ids :
    LET by == entries[r].supersededBy
    IN by # None /\ NeverBroughtBack(r) /\ NeverBroughtBack(by) =>
         ~(entries[by].record.variant = "candidate" /\ entries[r].record.variant = "explicit")

\* Whatever part of the journal a replica has: with the deletion of a record
\* it has the marker that names it (tombstone(), the order of its writes).
MarkerFirst ==
  \A i \in DOMAIN journal :
    journal[i].kind = "tombstoned" /\ journal[i].of = None =>
      \E j \in 1..(i - 1) : journal[j].kind = "tombstoned" /\ journal[j].of = journal[i].id

\* A read or a query that begins after a record was deleted does not answer
\* with it, unless it has been brought back, with a later version; and no
\* replica learns of the deletion before its marker.
DeletedIsForgotten ==
  /\ MarkerFirst
  /\ \A c \in Callers : \A e \in call[c].answer, d \in call[c].deleted :
       e.record.id = d[1] => e.version > d[2]

=============================================================================
