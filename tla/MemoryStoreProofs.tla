--------------------------- MODULE MemoryStoreProofs ---------------------------
(* Theorems about the memory store, for every set of callers, records, keys    *)
(* and requests, and every interleaving of the calls.                          *)
EXTENDS MemoryStore, FiniteSetTheorems, TLAPS

Texts == [id : Ids \cup {None}, variant : Variants, supersedes : Ids \cup {None},
          tombstoneOf : Ids \cup {None}, body : {"withheld", "text"}]

Entries == [record : Texts, version : Nat, supersededBy : Ids \cup {None}, deleted : BOOLEAN,
            confirmation : {"none", "unconfirmed", "confirmed", "rejected", "not-applicable"},
            key : Keys \cup {None}]

Asked == [op : Ops, id : Ids \cup {None}, variant : Variants, supersedes : Ids \cup {None},
          key : Keys \cup {None}, resurrect : BOOLEAN, with : Ids \cup {None}]

Awaits == {"idle", "key", "prior", "precedence", "capacity", "apply", "markLoad", "mark", "list",
           "load", "decide", "depth", "first", "second"}

CallStates == [pc : Awaits, req : Asked, expected : Nat, seen : Entries, at : Ids \cup {None}, depth : Nat,
               deleted : SUBSET (Ids \X Nat), result : {"none", "ok", "replayed", "failed"},
               answer : SUBSET Entries]

Events == [id : Ids, kind : {"appended", "superseded", "confirmed", "rejected", "tombstoned"},
           version : Nat, of : Ids \cup {None}]

\* What the arguments of a call under way are at each of its awaits.
HasArguments(k) ==
  /\ k.pc # "idle" => k.req.id \in Ids
  /\ k.pc \in {"precedence", "markLoad", "mark"} => k.req.supersedes \in Ids
  /\ k.pc \in {"first", "second", "depth"} => k.req.with \in Ids
  /\ k.pc = "load" /\ k.req.op \in {"supersede", "tombstone"} => k.req.with \in Ids
  /\ k.pc = "depth" => k.at \in Ids
  /\ k.pc = "key" => k.req.key \in Keys

TypeInv ==
  /\ entries \in [Ids -> Entries] /\ byKey \in [Keys -> Ids \cup {None}]
  /\ journal \in Seq(Events)
  /\ call \in [Callers -> CallStates] /\ \A c \in Callers : HasArguments(call[c])

-----------------------------------------------------------------------------
\* What entries are made of.
LEMMA EntryTypes ==
  /\ NoEntry \in Entries /\ NoEntry.version = 0
  /\ \A id, of, supersedes \in Ids \cup {None}, variant \in Variants :
       /\ Record(id, variant, supersedes, of) \in Texts
       /\ Record(id, variant, supersedes, of).id = id
  /\ \A record \in Texts, version \in Nat, key \in Keys \cup {None} :
       /\ NewEntry(record, version, key) \in Entries
       /\ NewEntry(record, version, key).version = version
       /\ NewEntry(record, version, key).record = record
       /\ NewEntry(record, version, key).supersededBy = None
       /\ ~NewEntry(record, version, key).deleted
       /\ NewEntry(record, version, key).key = key
  /\ \A e \in Entries :
       /\ \A by \in Ids : Superseded(e, by) = [e EXCEPT !.version = e.version + 1, !.supersededBy = by]
                          /\ Superseded(e, by) \in Entries
       /\ \A how \in {"confirmed", "rejected"} :
            /\ Decided(e, how) = [e EXCEPT !.version = e.version + 1, !.confirmation = how]
            /\ Decided(e, how) \in Entries
       /\ Buried(e) \in Entries
       /\ Buried(e).version = e.version + 1 /\ Buried(e).deleted /\ Buried(e).record.id = e.record.id
       /\ Buried(e).record.variant = e.record.variant
       /\ Buried(e).supersededBy = e.supersededBy /\ Buried(e).confirmation = e.confirmation
       /\ Buried(e).key = e.key
<1>1. \A id, of, supersedes \in Ids \cup {None}, variant \in Variants :
        /\ Record(id, variant, supersedes, of) \in Texts
        /\ Record(id, variant, supersedes, of).id = id
  BY DEF Record, Texts
<1>2. NoEntry \in Entries /\ NoEntry.version = 0
  <2>1. Record(None, "fact", None, None) \in Texts
    BY <1>1 DEF Variants
  <2>. QED BY <2>1 DEF NoEntry, Entries
<1>3. \A record \in Texts, version \in Nat, key \in Keys \cup {None} :
        /\ NewEntry(record, version, key) \in Entries
        /\ NewEntry(record, version, key).version = version
        /\ NewEntry(record, version, key).record = record
        /\ NewEntry(record, version, key).supersededBy = None
        /\ ~NewEntry(record, version, key).deleted
        /\ NewEntry(record, version, key).key = key
  BY DEF NewEntry, Entries
<1>4. ASSUME NEW e \in Entries, NEW by \in Ids
      PROVE  /\ Superseded(e, by) = [e EXCEPT !.version = e.version + 1, !.supersededBy = by]
             /\ Superseded(e, by) \in Entries
  <2>1. Superseded(e, by) = [e EXCEPT !.version = e.version + 1, !.supersededBy = by]
    BY DEF Superseded
  <2>2. e.version + 1 \in Nat
    BY DEF Entries
  <2>3. [e EXCEPT !.version = e.version + 1, !.supersededBy = by] \in Entries
    BY <2>2 DEF Entries
  <2>. QED BY <2>1, <2>3
<1>5. ASSUME NEW e \in Entries, NEW how \in {"confirmed", "rejected"}
      PROVE  /\ Decided(e, how) = [e EXCEPT !.version = e.version + 1, !.confirmation = how]
             /\ Decided(e, how) \in Entries
  <2>1. Decided(e, how) = [e EXCEPT !.version = e.version + 1, !.confirmation = how]
    BY DEF Decided
  <2>2. e.version + 1 \in Nat
    BY DEF Entries
  <2>3. [e EXCEPT !.version = e.version + 1, !.confirmation = how] \in Entries
    BY <2>2 DEF Entries
  <2>. QED BY <2>1, <2>3
<1>6. ASSUME NEW e \in Entries
      PROVE  /\ Buried(e) \in Entries
             /\ Buried(e).version = e.version + 1 /\ Buried(e).deleted /\ Buried(e).record.id = e.record.id
             /\ Buried(e).record.variant = e.record.variant
             /\ Buried(e).supersededBy = e.supersededBy /\ Buried(e).confirmation = e.confirmation
             /\ Buried(e).key = e.key
  <2>1. e.version + 1 \in Nat /\ e.record \in Texts
    BY DEF Entries
  <2>2. [e.record EXCEPT !.body = "withheld"] \in Texts /\ [e.record EXCEPT !.body = "withheld"].id = e.record.id
      /\ [e.record EXCEPT !.body = "withheld"].variant = e.record.variant
    BY <2>1 DEF Texts
  <2>3. Buried(e) = [e EXCEPT !.version = e.version + 1, !.deleted = TRUE,
                              !.record = [e.record EXCEPT !.body = "withheld"]]
    BY DEF Buried, Entries
  <2>4. Buried(e) \in Entries
    BY <2>1, <2>2, <2>3 DEF Entries
  <2>5. /\ Buried(e).version = e.version + 1 /\ Buried(e).deleted = TRUE /\ Buried(e).record.id = e.record.id
        /\ Buried(e).record.variant = e.record.variant
        /\ Buried(e).supersededBy = e.supersededBy /\ Buried(e).confirmation = e.confirmation
        /\ Buried(e).key = e.key
    BY <2>2, <2>3 DEF Entries
  <2>. QED BY <2>4, <2>5
<1>. QED BY <1>1, <1>2, <1>3, <1>4, <1>5, <1>6

\* What a write does to the store.
LEMMA ApplyEffect ==
  ASSUME TypeInv, NEW e \in Entries, e.record.id \in Ids, NEW expected, NEW kind, NEW of,
         Apply(e, expected, kind, of)
  PROVE  /\ entries' = [entries EXCEPT ![e.record.id] = e]
         /\ entries[e.record.id].version = expected
         /\ byKey' \in [Keys -> Ids \cup {None}]
<1>1. entries' = [entries EXCEPT ![e.record.id] = e] /\ entries[e.record.id].version = expected
  BY DEF Apply, Fits
<1>2. byKey' \in [Keys -> Ids \cup {None}]
  BY DEF TypeInv, Apply, Entries
<1>. QED BY <1>1, <1>2

\* The call has moved to the state k.
Moved(c, k) == /\ call' = [call EXCEPT ![c] = k]
               /\ k \in CallStates /\ HasArguments(k)

\* A call that returns is idle again and keeps what was deleted before it began.
LEMMA ReturnMoves ==
  ASSUME TypeInv, NEW c \in Callers, NEW result \in {"none", "ok", "replayed", "failed"},
         NEW answer \in SUBSET Entries, Return(c, result, answer)
  PROVE  \E k : /\ Moved(c, k) /\ k.pc = "idle" /\ k.answer = answer /\ k.deleted = call[c].deleted
<1>. DEFINE k == [Idle EXCEPT !.req = call[c].req, !.result = result, !.answer = answer,
                              !.deleted = call[c].deleted]
<1>1. call[c] \in CallStates
  BY DEF TypeInv
<1>2. Request("read", None) \in Asked
  BY DEF Request, Asked, Ops, Variants
<1>3. Idle \in CallStates
  BY <1>2, EntryTypes DEF Idle, CallStates, Awaits
<1>4. k \in CallStates /\ k.pc = "idle" /\ k.answer = answer /\ k.deleted = call[c].deleted
  BY <1>1, <1>3 DEF CallStates, Idle
<1>5. call' = [call EXCEPT ![c] = k]
  BY DEF Return
<1>6. HasArguments(k)
  BY <1>4 DEF HasArguments
<1>. QED BY <1>4, <1>5, <1>6 DEF Moved

\* A call that goes on to another await keeps everything else.
LEMMA GoesMoves ==
  ASSUME TypeInv, NEW c \in Callers, NEW pc \in Awaits, Goes(c, pc), HasArguments([call[c] EXCEPT !.pc = pc])
  PROVE  Moved(c, [call[c] EXCEPT !.pc = pc])
<1>1. call[c] \in CallStates
  BY DEF TypeInv
<1>2. [call[c] EXCEPT !.pc = pc] \in CallStates
  BY <1>1 DEF CallStates
<1>3. call' = [call EXCEPT ![c] = [call[c] EXCEPT !.pc = pc]]
  BY <1>1 DEF Goes, TypeInv
<1>. QED BY <1>2, <1>3 DEF Moved

\* The types of a step that moves one call and leaves the store alone.
LEMMA MovedTypes ==
  ASSUME TypeInv, NEW c \in Callers, NEW k, Moved(c, k)
  PROVE  call' \in [Callers -> CallStates] /\ \A d \in Callers : HasArguments(call'[d])
BY DEF TypeInv, Moved

-----------------------------------------------------------------------------
(* The invariant: what a call has read is what the store holds, or older.    *)

\* An entry is filed under its identifier, and its version counts its events.
Filed ==
  /\ \A r \in Ids : \/ entries[r] = NoEntry
                    \/ entries[r].record.id = r /\ entries[r].version >= 1
  /\ \A i \in DOMAIN journal : entries[journal[i].id].version >= 1

\* A version stands for one content.
Snapshot(s, r) == /\ s.record.id = r /\ s.version >= 1 /\ s.version <= entries[r].version
                  /\ s.version = entries[r].version => s = entries[r]

IsMarked(r) == \E j \in DOMAIN journal : journal[j].kind = "tombstoned" /\ journal[j].of = r

\* What a call relies on when it writes, and what its reader may not see.
Backed(k) ==
  /\ k.pc = "mark" => Snapshot(k.seen, k.req.supersedes) /\ k.seen.supersededBy = None
  /\ k.pc \in {"decide", "first", "second"} => Snapshot(k.seen, k.req.id)
  /\ k.pc = "decide" => k.seen.confirmation = "unconfirmed"
  /\ k.pc = "second" => IsMarked(k.req.id)
  /\ k.pc \in {"precedence", "capacity", "apply"} =>
       /\ k.expected <= entries[k.req.id].version
       /\ k.expected = entries[k.req.id].version =>
            entries[k.req.id] = NoEntry \/ (entries[k.req.id].deleted /\ k.req.resurrect)
  /\ k.deleted # {} => k.pc \in {"idle", "list"} \/ (k.pc = "load" /\ k.req.op = "read")
  /\ \A d \in k.deleted : /\ d[2] <= entries[d[1]].version
                          /\ k.pc # "idle" /\ d[2] = entries[d[1]].version => entries[d[1]].deleted
                          /\ \A e \in k.answer : e.record.id = d[1] => e.version > d[2]

Inv == TypeInv /\ Filed /\ \A c \in Callers : Backed(call[c])

Quiet == UNCHANGED <<entries, byKey, journal>>

\* The entry e is the entry old with another state: it says the same.
Rewrites(e, old) == old.version >= 1 /\ e.record.variant = old.record.variant

\* A write that takes back nothing: the entry e of r, and its event.
Lawful(r, e, ev) ==
  LET old == entries[r]
  IN /\ r \in Ids /\ e \in Entries /\ ev \in Events
     /\ e.record.id = r /\ ev.id = r /\ e.version = old.version + 1
     /\ entries' = [entries EXCEPT ![r] = e] /\ journal' = Append(journal, ev)
     /\ byKey' \in [Keys -> Ids \cup {None}]
     /\ \/ ev.kind = "appended" /\ ~e.deleted /\ (old = NoEntry \/ (old.deleted /\ Returns(r)))
           /\ e.supersededBy = None
        \/ ev.kind = "superseded" /\ old.supersededBy = None /\ e.supersededBy # None
           /\ e.deleted = old.deleted /\ e.confirmation = old.confirmation /\ Rewrites(e, old)
        \/ ev.kind = "tombstoned" /\ ev.of # None /\ old = NoEntry /\ e.supersededBy = None
        \/ ev.kind = "tombstoned" /\ ev.of = None /\ IsMarked(r) /\ e.deleted
           /\ e.supersededBy = old.supersededBy /\ e.confirmation = old.confirmation /\ Rewrites(e, old)
        \/ ev.kind \in {"confirmed", "rejected"} /\ old.confirmation = "unconfirmed"
           /\ e.deleted = old.deleted /\ e.supersededBy = old.supersededBy /\ Rewrites(e, old)

Writes == \E r, e, ev : Lawful(r, e, ev)

\* The step of a call: it moves to a state that is backed, and at most writes.
Good(c) == \E k : Moved(c, k) /\ Backed(k)' /\ (Quiet \/ Writes)

\* A call that returns nothing, or is not a reader, is backed.
LEMMA ReturnIsGood ==
  ASSUME Inv, NEW c \in Callers, NEW result \in {"none", "ok", "replayed", "failed"},
         NEW answer \in SUBSET Entries, Return(c, result, answer), Quiet \/ Writes,
         answer = {} \/ call[c].deleted = {}, call[c].pc # "idle"
  PROVE  Good(c)
<1>1. PICK k : Moved(c, k) /\ k.pc = "idle" /\ k.answer = answer /\ k.deleted = call[c].deleted
  BY ReturnMoves DEF Inv
<1>2. \A r \in Ids : entries[r].version <= entries'[r].version
  <2>1. CASE Quiet
    BY <2>1 DEF Quiet, Inv, TypeInv, Entries
  <2>2. ASSUME NEW r, NEW e, NEW ev, Lawful(r, e, ev) PROVE \A q \in Ids : entries[q].version <= entries'[q].version
    BY <2>2 DEF Lawful, Inv, TypeInv, Entries
  <2>. QED BY <2>1, <2>2 DEF Writes
<1>3. \A d \in call[c].deleted : d[1] \in Ids /\ d[2] \in Nat
  BY DEF Inv, TypeInv, CallStates
<1>4. \A d \in call[c].deleted : d[2] <= entries'[d[1]].version
  <2>1. \A d \in call[c].deleted : d[2] <= entries[d[1]].version
    BY DEF Inv, Backed
  <2>2. \A r \in Ids : entries[r].version \in Nat /\ entries'[r].version \in Nat
    <3>1. entries' \in [Ids -> Entries]
      BY DEF Quiet, Writes, Lawful, Inv, TypeInv
    <3>. QED BY <3>1 DEF Inv, TypeInv, Entries
  <2>. QED BY <1>2, <1>3, <2>1, <2>2
<1>5. Backed(k)'
  BY <1>1, <1>4 DEF Backed
<1>. QED BY <1>1, <1>5 DEF Good

\* A call that fails is good, whatever it was about to do.
LEMMA FailureIsGood ==
  ASSUME Inv, NEW c \in Callers, call[c].pc # "idle", Return(c, "failed", {}), Unchanged
  PROVE  Good(c)
BY ReturnIsGood DEF Unchanged, Quiet

\* A call begins with a record of what was deleted before.
LEMMA StartIsGood ==
  ASSUME Inv, NEW c \in Callers, NEW q \in Requests, Start(c, q) PROVE Good(c)
<1>a. PICK seen : seen = IF q.op \in {"read", "query"} THEN {<<r, entries[r].version>> : r \in Gone} ELSE {}
  OBVIOUS
<1>b. PICK pc : pc = CASE q.op = "append" -> AfterKey(q) [] q.op = "query"  -> "list" [] OTHER -> "load"
  OBVIOUS
<1>c. PICK k : k = [Idle EXCEPT !.req = q, !.expected = entries[q.id].version, !.deleted = seen, !.pc = pc]
  OBVIOUS
<1>1. /\ q \in Asked /\ q.id \in Ids
      /\ q.op \in {"supersede", "tombstone"} => q.with \in Ids
  BY MemoryAssumption DEF Asked, Ops, Variants
<1>2. seen \in SUBSET (Ids \X Nat)
  <2>1. \A r \in Gone : <<r, entries[r].version>> \in Ids \X Nat
    BY DEF Gone, Inv, TypeInv, Entries
  <2>. QED BY <1>a, <2>1
<1>3. pc \in Awaits /\ (q.op = "append" => pc \in {"key", "prior"} /\ (pc = "key" => q.key # None))
      /\ (q.op = "query" => pc = "list") /\ (q.op \notin {"append", "query"} => pc = "load")
  BY <1>b DEF AfterKey, Awaits
<1>4. Idle \in CallStates /\ Idle.answer = {}
  <2>1. Request("read", None) \in Asked
    BY DEF Request, Asked, Ops, Variants
  <2>. QED BY <2>1, EntryTypes DEF Idle, CallStates, Awaits
<1>5. entries[q.id].version \in Nat
  BY <1>1 DEF Inv, TypeInv, Entries
<1>6. /\ k \in CallStates /\ k.pc = pc /\ k.req = q /\ k.deleted = seen /\ k.answer = {}
  BY <1>c, <1>1, <1>2, <1>3, <1>4, <1>5 DEF CallStates
<1>7. call' = [call EXCEPT ![c] = k] /\ entries' = entries /\ UNCHANGED <<byKey, journal>>
  BY <1>a, <1>b, <1>c DEF Start
<1>8. HasArguments(k)
  BY <1>1, <1>3, <1>6 DEF HasArguments, Asked, Ops
<1>9. \A d \in seen : /\ d[2] <= entries'[d[1]].version /\ entries'[d[1]].deleted
                      /\ q.op \in {"read", "query"}
  <2>1. \A r \in Gone : entries[r].version <= entries[r].version
    BY DEF Gone, Inv, TypeInv, Entries
  <2>. QED BY <1>a, <1>7, <2>1 DEF Gone
<1>10. Backed(k)'
  <2>1. k.pc \in {"key", "prior", "list", "load"}
    BY <1>3, <1>6
  <2>2. k.deleted # {} => k.pc = "list" \/ (k.pc = "load" /\ k.req.op = "read")
    BY <1>3, <1>6, <1>9
  <2>. QED BY <1>6, <1>9, <2>1, <2>2 DEF Backed
<1>. QED BY <1>6, <1>7, <1>8, <1>10 DEF Good, Moved, Quiet

\* A call that moves and writes nothing is good if it is backed where it goes.
LEMMA MoveIsGood ==
  ASSUME NEW c \in Callers, NEW k, Moved(c, k), Unchanged, Backed(k)
  PROVE  Good(c)
BY DEF Good, Unchanged, Quiet, Backed, Snapshot, IsMarked

\* Only a reader remembers deletions.
LEMMA WritersRememberNothing ==
  ASSUME Inv, NEW c \in Callers, call[c].pc \notin {"idle", "list"},
         call[c].pc # "load" \/ call[c].req.op # "read"
  PROVE  call[c].deleted = {}
BY DEF Inv, Backed

\* append() before its write.
LEMMA AppendChecksAreGood ==
  ASSUME Inv, NEW c \in Callers, FindKey(c) \/ GetPrior(c) \/ CheckPrecedence(c) \/ CheckCapacity(c)
  PROVE  Good(c)
<1>. DEFINE q == call[c].req
<1>a. /\ call[c] \in CallStates /\ HasArguments(call[c]) /\ Backed(call[c]) /\ TypeInv
      /\ call[c].pc \in {"key", "prior", "precedence", "capacity"}
  BY DEF Inv, TypeInv, FindKey, GetPrior, CheckPrecedence, CheckCapacity
<1>b. call[c].deleted = {}
  BY <1>a, WritersRememberNothing
<1>c. Unchanged
  BY DEF FindKey, GetPrior, CheckPrecedence, CheckCapacity
<1>d. q.id \in Ids /\ q \in Asked
  BY <1>a DEF HasArguments, CallStates
<1>1. CASE Return(c, "failed", {})
  BY <1>a, <1>c, <1>1, FailureIsGood
<1>2. CASE FindKey(c) /\ Goes(c, "prior")
  <2>1. HasArguments([call[c] EXCEPT !.pc = "prior"])
    BY <1>a, <1>d DEF HasArguments, CallStates
  <2>2. Moved(c, [call[c] EXCEPT !.pc = "prior"])
    BY <1>a, <1>2, <2>1, GoesMoves DEF Awaits
  <2>3. Backed([call[c] EXCEPT !.pc = "prior"])
    BY <1>a, <1>b DEF Backed, CallStates
  <2>. QED BY <1>c, <2>2, <2>3, MoveIsGood
<1>3. CASE FindKey(c) /\ byKey[q.key] # None /\ Return(c, "replayed", {entries[byKey[q.key]]})
  <2>1. byKey[q.key] \in Ids
    BY <1>a, <1>3 DEF FindKey, TypeInv, HasArguments
  <2>. QED BY <1>a, <1>b, <1>c, <1>3, <2>1, ReturnIsGood DEF TypeInv, Unchanged, Quiet
<1>4. CASE GetPrior(c) /\ ~Return(c, "failed", {})
  <2>1. PICK k : k = [call[c] EXCEPT !.expected = entries[q.id].version,
                        !.pc = IF q.supersedes = None THEN "capacity" ELSE "precedence"]
    OBVIOUS
  <2>2. entries[q.id].version \in Nat
    BY <1>a, <1>d DEF TypeInv, Entries
  <2>3. /\ k \in CallStates /\ k.pc \in {"capacity", "precedence"} /\ k.req = q /\ k.deleted = {}
        /\ k.expected = entries[q.id].version
        /\ k.pc = "precedence" => q.supersedes # None
    BY <1>a, <1>b, <1>d, <2>1, <2>2 DEF CallStates, Awaits
  <2>4. entries[q.id] = NoEntry \/ (entries[q.id].deleted /\ q.resurrect)
    BY <1>4 DEF GetPrior
  <2>5. call' = [call EXCEPT ![c].expected = entries[q.id].version,
                   ![c].pc = IF q.supersedes = None THEN "capacity" ELSE "precedence"]
    BY <1>4 DEF GetPrior
  <2>6. call' = [call EXCEPT ![c] = k]
    BY <1>a, <2>1, <2>5 DEF TypeInv
  <2>7. HasArguments(k)
    BY <1>d, <2>3 DEF HasArguments, Asked
  <2>8. Backed(k)
    BY <2>2, <2>3, <2>4 DEF Backed
  <2>. QED BY <1>c, <2>3, <2>6, <2>7, <2>8, MoveIsGood DEF Moved
<1>5. ASSUME NEW pc \in {"capacity", "apply"}, Goes(c, pc), call[c].pc \in {"precedence", "capacity"}
      PROVE  Good(c)
  <2>1. HasArguments([call[c] EXCEPT !.pc = pc])
    BY <1>a, <1>d DEF HasArguments, CallStates
  <2>2. Moved(c, [call[c] EXCEPT !.pc = pc])
    BY <1>a, <1>5, <2>1, GoesMoves DEF Awaits
  <2>3. Backed([call[c] EXCEPT !.pc = pc])
    BY <1>a, <1>b, <1>5 DEF Backed, CallStates
  <2>. QED BY <1>c, <2>2, <2>3, MoveIsGood
<1>. QED BY <1>1, <1>2, <1>3, <1>4, <1>5 DEF FindKey, GetPrior, CheckPrecedence, CheckCapacity

\* The calls that load a record, and the readers.
LEMMA LoadsAreGood ==
  ASSUME Inv, NEW c \in Callers,
         MarkLoad(c) \/ Read(c) \/ LoadCandidate(c) \/ LoadPredecessor(c) \/ LoadDoomed(c) \/ Query(c)
  PROVE  Good(c)
<1>. DEFINE q == call[c].req
<1>a. /\ call[c] \in CallStates /\ HasArguments(call[c]) /\ Backed(call[c]) /\ TypeInv /\ Filed
      /\ call[c].pc \in {"load", "markLoad", "list"} /\ Unchanged
  BY DEF Inv, TypeInv, MarkLoad, Read, LoadCandidate, LoadPredecessor, LoadDoomed, Query, Loads, TakeIf
<1>b. q.id \in Ids /\ q \in Asked
  BY <1>a DEF HasArguments, CallStates
<1>c. \A r \in Ids : /\ entries[r] \in Entries /\ entries[r].version \in Nat
                     /\ entries[r] # NoEntry => Snapshot(entries[r], r)
  BY <1>a DEF TypeInv, Entries, Filed, Snapshot
<1>1. CASE Return(c, "failed", {})
  BY <1>a, <1>1, FailureIsGood
<1>2. CASE MarkLoad(c) /\ ~Return(c, "failed", {})
  <2>1. PICK k : k = [call[c] EXCEPT !.pc = "mark", !.seen = entries[q.supersedes]]
    OBVIOUS
  <2>2. call[c].pc = "markLoad" /\ q.supersedes \in Ids /\ Markable(entries[q.supersedes])
    BY <1>a, <1>2 DEF MarkLoad, HasArguments
  <2>3. call[c].deleted = {}
    BY <1>a, <2>2, WritersRememberNothing
  <2>4. k \in CallStates /\ k.pc = "mark" /\ k.req = q /\ k.deleted = {} /\ k.seen = entries[q.supersedes]
    BY <1>a, <1>c, <2>1, <2>2, <2>3 DEF CallStates, Awaits
  <2>5. call' = [call EXCEPT ![c] = k]
    BY <1>a, <1>2, <2>1 DEF MarkLoad, TypeInv
  <2>6. HasArguments(k)
    BY <1>b, <2>2, <2>4 DEF HasArguments
  <2>7. Backed(k)
    BY <1>c, <2>2, <2>4 DEF Backed, Markable
  <2>. QED BY <1>a, <2>4, <2>5, <2>6, <2>7, MoveIsGood DEF Moved
<1>3. ASSUME NEW pc \in {"decide", "depth", "first"}, call[c].pc = "load",
             call' = [call EXCEPT ![c].pc = pc, ![c].seen = Loaded(c), ![c].at = call[c].req.id],
             Loaded(c) # NoEntry, pc = "decide" => Loaded(c).confirmation = "unconfirmed",
             q.op # "read", pc # "decide" => q.op \in {"supersede", "tombstone"}
      PROVE  Good(c)
  <2>1. PICK k : k = [call[c] EXCEPT !.pc = pc, !.seen = entries[q.id], !.at = q.id]
    OBVIOUS
  <2>3. call[c].deleted = {}
    BY <1>a, <1>3, WritersRememberNothing
  <2>4. /\ k \in CallStates /\ k.pc = pc /\ k.req = q /\ k.deleted = {} /\ k.seen = entries[q.id]
        /\ k.at = q.id
    BY <1>a, <1>b, <1>c, <1>3, <2>1, <2>3 DEF CallStates, Awaits
  <2>5. call' = [call EXCEPT ![c] = k]
    BY <1>a, <1>3, <2>1 DEF Loaded, TypeInv
  <2>6. HasArguments(k)
    BY <1>a, <1>b, <1>3, <2>4 DEF HasArguments
  <2>7. Backed(k)
    BY <1>b, <1>c, <1>3, <2>4 DEF Backed, Loaded
  <2>. QED BY <1>a, <2>4, <2>5, <2>6, <2>7, MoveIsGood DEF Moved
<1>4. ASSUME NEW answer \in SUBSET Entries, Return(c, "ok", answer), call[c].pc # "idle",
             \A e \in answer : \E r \in Ids : e = entries[r] /\ ~e.deleted /\ e # NoEntry
      PROVE  Good(c)
  <2>1. PICK k : Moved(c, k) /\ k.pc = "idle" /\ k.answer = answer /\ k.deleted = call[c].deleted
    BY <1>a, <1>4, ReturnMoves
  <2>2. \A d \in call[c].deleted : d[1] \in Ids /\ d[2] \in Nat
    BY <1>a DEF CallStates
  <2>3. ASSUME NEW d \in call[c].deleted, NEW e \in answer, e.record.id = d[1] PROVE e.version > d[2]
    <3>1. e = entries[d[1]] /\ ~e.deleted
      BY <1>c, <1>4, <2>3 DEF Snapshot
    <3>2. d[2] <= e.version /\ d[2] # e.version
      BY <1>a, <1>4, <3>1 DEF Backed
    <3>. QED BY <1>c, <2>2, <3>1, <3>2
  <2>4. Backed(k)
    BY <1>a, <2>1, <2>3 DEF Backed
  <2>. QED BY <1>a, <2>1, <2>4, MoveIsGood
<1>5. CASE Read(c)
  BY <1>a, <1>b, <1>c, <1>1, <1>4, <1>5 DEF Read, Loads, Loaded
<1>6. CASE Query(c)
  <2>1. {e \in {entries[r] : r \in Ids} : Visible(e)} \in SUBSET Entries
    BY <1>c
  <2>. QED BY <1>4, <1>6, <2>1 DEF Query, Visible
<1>7. CASE LoadCandidate(c) \/ LoadPredecessor(c) \/ LoadDoomed(c)
  BY <1>1, <1>3, <1>7 DEF LoadCandidate, LoadPredecessor, LoadDoomed, Loads, TakeIf, IsCurrent
<1>. QED BY <1>1, <1>2, <1>5, <1>6, <1>7

\* supersede() walks along the chain, and becomes an append.
LEMMA WalkIsGood ==
  ASSUME Inv, NEW c \in Callers, WalkChain(c) PROVE Good(c)
<1>. DEFINE q == call[c].req
<1>a. /\ call[c] \in CallStates /\ HasArguments(call[c]) /\ Backed(call[c]) /\ TypeInv
      /\ call[c].pc = "depth" /\ Unchanged
  BY DEF Inv, TypeInv, WalkChain
<1>b. q.id \in Ids /\ q \in Asked /\ q.with \in Ids /\ call[c].at \in Ids
  BY <1>a DEF HasArguments, CallStates
<1>c. call[c].deleted = {}
  BY <1>a, WritersRememberNothing
<1>d. PICK next \in {entries[call[c].at].record.supersedes, None} :
        IF next # None /\ call[c].depth + 1 < MaxDepth + 1
        THEN call' = [call EXCEPT ![c].at = next, ![c].depth = call[c].depth + 1]
        ELSE IF call[c].depth + 1 < MaxDepth
             THEN call' = [call EXCEPT ![c] = [@ EXCEPT !.pc = "prior", !.at = None, !.depth = 0, !.seen = NoEntry,
                    !.req = [q EXCEPT !.op = "append", !.id = q.with, !.supersedes = q.id,
                                      !.key = None, !.resurrect = FALSE]]]
             ELSE Return(c, "failed", {})
  BY DEF WalkChain
<1>e. next \in Ids \cup {None}
  BY <1>a, <1>b, <1>d DEF TypeInv, Entries, Texts
<1>1. CASE Return(c, "failed", {})
  BY <1>a, <1>1, FailureIsGood
<1>2. CASE next # None /\ call' = [call EXCEPT ![c].at = next, ![c].depth = call[c].depth + 1]
  <2>1. PICK k : k = [call[c] EXCEPT !.at = next, !.depth = call[c].depth + 1]
    OBVIOUS
  <2>2. call[c].depth + 1 \in Nat
    BY <1>a DEF CallStates
  <2>3. k \in CallStates /\ k.pc = "depth" /\ k.req = q /\ k.deleted = {} /\ k.at = next
    BY <1>a, <1>c, <1>e, <2>1, <2>2 DEF CallStates
  <2>4. call' = [call EXCEPT ![c] = k]
    BY <1>a, <1>2, <2>1 DEF TypeInv
  <2>5. HasArguments(k)
    BY <1>b, <1>e, <1>2, <2>3 DEF HasArguments
  <2>6. Backed(k)
    BY <2>3 DEF Backed
  <2>. QED BY <1>a, <2>3, <2>4, <2>5, <2>6, MoveIsGood DEF Moved
<1>3. ASSUME call' = [call EXCEPT ![c] = [@ EXCEPT !.pc = "prior", !.at = None, !.depth = 0, !.seen = NoEntry,
                        !.req = [q EXCEPT !.op = "append", !.id = q.with, !.supersedes = q.id,
                                          !.key = None, !.resurrect = FALSE]]]
      PROVE  Good(c)
  <2>1. PICK a : a = [q EXCEPT !.op = "append", !.id = q.with, !.supersedes = q.id,
                               !.key = None, !.resurrect = FALSE]
    OBVIOUS
  <2>2. a \in Asked /\ a.id = q.with /\ a.supersedes = q.id
    BY <1>b, <2>1 DEF Asked, Ops
  <2>3. PICK k : k = [call[c] EXCEPT !.pc = "prior", !.at = None, !.depth = 0, !.seen = NoEntry, !.req = a]
    OBVIOUS
  <2>4. k \in CallStates /\ k.pc = "prior" /\ k.req = a /\ k.deleted = {}
    BY <1>a, <1>c, <2>2, <2>3, EntryTypes DEF CallStates, Awaits
  <2>5. call' = [call EXCEPT ![c] = k]
    BY <1>a, <1>3, <2>1, <2>3 DEF TypeInv
  <2>6. HasArguments(k)
    BY <1>b, <2>2, <2>4 DEF HasArguments
  <2>7. Backed(k)
    BY <2>4 DEF Backed
  <2>. QED BY <1>a, <2>4, <2>5, <2>6, <2>7, MoveIsGood DEF Moved
<1>. QED BY <1>1, <1>2, <1>3, <1>d

\* An entry of another content has a later version.
LEMMA WritesGrow ==
  ASSUME Inv, Quiet \/ Writes, NEW r \in Ids
  PROVE  entries'[r] = entries[r] \/ (entries'[r] \in Entries /\ entries'[r].version > entries[r].version)
<1>1. CASE Quiet
  BY <1>1 DEF Quiet
<1>2. ASSUME NEW q, NEW e, NEW ev, Lawful(q, e, ev)
      PROVE  entries'[r] = entries[r] \/ (entries'[r] \in Entries /\ entries'[r].version > entries[r].version)
  BY <1>2 DEF Lawful, Inv, TypeInv, Entries
<1>. QED BY <1>1, <1>2 DEF Writes

\* append() writes its record, or finds that somebody was faster.
LEMMA ApplyAppendIsGood ==
  ASSUME Inv, NEW c \in Callers, ApplyAppend(c) PROVE Good(c)
<1>. DEFINE q == call[c].req
<1>a. /\ call[c] \in CallStates /\ HasArguments(call[c]) /\ Backed(call[c]) /\ TypeInv
      /\ call[c].pc = "apply"
  BY DEF Inv, TypeInv, ApplyAppend
<1>b. q.id \in Ids /\ q \in Asked /\ call[c].expected \in Nat
  BY <1>a DEF HasArguments, CallStates
<1>c. call[c].deleted = {}
  BY <1>a, WritersRememberNothing
<1>d. PICK e : e = NewEntry(Wanted(q), call[c].expected + 1, q.key)
  OBVIOUS
<1>e. /\ Wanted(q) \in Texts /\ Wanted(q).id = q.id
  BY <1>b DEF Wanted, Asked, Record, Texts
<1>f. /\ e \in Entries /\ e.record.id = q.id /\ e.version = call[c].expected + 1 /\ ~e.deleted
      /\ e.supersededBy = None
  <2>1. call[c].expected + 1 \in Nat /\ q.key \in Keys \cup {None}
    BY <1>b DEF Asked
  <2>. QED BY <1>d, <1>e, <2>1 DEF NewEntry, Entries
<1>1. CASE Lose(c, q.id, call[c].expected)
  BY <1>a, <1>1, FailureIsGood DEF Lose
<1>2. CASE Apply(e, call[c].expected, "appended", q.supersedes) /\
           (IF q.supersedes = None THEN Return(c, "ok", {e})
            ELSE call' = [call EXCEPT ![c].pc = "markLoad", ![c].answer = {e}])
  <2>1. /\ entries' = [entries EXCEPT ![q.id] = e] /\ entries[q.id].version = call[c].expected
        /\ byKey' \in [Keys -> Ids \cup {None}]
    BY <1>a, <1>b, <1>f, <1>2, ApplyEffect
  <2>2. PICK ev : ev = [id |-> e.record.id, kind |-> "appended", version |-> e.version, of |-> q.supersedes]
    OBVIOUS
  <2>3. ev \in Events /\ ev.id = q.id /\ ev.kind = "appended"
    BY <1>b, <1>f, <2>2 DEF Events, Asked, Entries
  <2>4. journal' = Append(journal, ev)
    BY <1>2, <2>2 DEF Apply
  <2>5. call'[c].pc # "apply"
    <3>1. CASE q.supersedes = None
      <4>1. PICK k : Moved(c, k) /\ k.pc = "idle"
        BY <1>a, <1>2, <1>f, <3>1, ReturnMoves
      <4>. QED BY <1>a, <4>1 DEF Moved, TypeInv
    <3>2. CASE q.supersedes # None
      BY <1>a, <1>2, <3>2 DEF TypeInv, CallStates
    <3>. QED BY <3>1, <3>2
  <2>6. entries[q.id] = NoEntry \/ (entries[q.id].deleted /\ Returns(q.id))
    <3>1. entries[q.id] = NoEntry \/ (entries[q.id].deleted /\ q.resurrect)
      BY <1>a, <2>1 DEF Backed
    <3>. QED BY <1>a, <2>5, <3>1 DEF Returns
  <2>7. Lawful(q.id, e, ev)
    BY <1>b, <1>f, <2>1, <2>3, <2>4, <2>6 DEF Lawful
  <2>8. Writes
    BY <2>7 DEF Writes
  <2>9. CASE q.supersedes = None
    BY <1>a, <1>c, <1>f, <1>2, <2>8, <2>9, ReturnIsGood
  <2>10. CASE q.supersedes # None
    <3>1. PICK k : k = [call[c] EXCEPT !.pc = "markLoad", !.answer = {e}]
      OBVIOUS
    <3>2. k \in CallStates /\ k.pc = "markLoad" /\ k.req = q /\ k.deleted = {}
      BY <1>a, <1>c, <1>f, <3>1 DEF CallStates, Awaits
    <3>3. call' = [call EXCEPT ![c] = k]
      BY <1>a, <1>2, <2>10, <3>1 DEF TypeInv
    <3>4. HasArguments(k)
      BY <1>b, <2>10, <3>2 DEF HasArguments, Asked
    <3>5. Backed(k)'
      BY <3>2 DEF Backed
    <3>. QED BY <2>8, <3>2, <3>3, <3>4, <3>5 DEF Good, Moved
  <2>. QED BY <2>9, <2>10
<1>. QED BY <1>1, <1>2, <1>d DEF ApplyAppend

\* The mark of a replaced record is written onto what was loaded.
LEMMA MarkIsGood ==
  ASSUME Inv, NEW c \in Callers, Mark(c) PROVE Good(c)
<1>. DEFINE q == call[c].req
            r == q.supersedes
<1>a. /\ call[c] \in CallStates /\ HasArguments(call[c]) /\ Backed(call[c]) /\ TypeInv
      /\ call[c].pc = "mark"
  BY DEF Inv, TypeInv, Mark
<1>b. /\ q.id \in Ids /\ r \in Ids /\ call[c].answer \in SUBSET Entries
      /\ call[c].seen \in Entries /\ Snapshot(call[c].seen, r) /\ call[c].seen.supersededBy = None
  BY <1>a DEF HasArguments, CallStates, Backed
<1>c. call[c].deleted = {}
  BY <1>a, WritersRememberNothing
<1>d. PICK e : e = Superseded(call[c].seen, q.id)
  OBVIOUS
<1>f. e \in Entries /\ e = [call[c].seen EXCEPT !.version = call[c].seen.version + 1, !.supersededBy = q.id]
  BY <1>b, <1>d, EntryTypes
<1>g. e.record.id = r /\ e.version = call[c].seen.version + 1 /\ e.supersededBy = q.id
      /\ e.deleted = call[c].seen.deleted /\ e.confirmation = call[c].seen.confirmation
      /\ Rewrites(e, call[c].seen)
  BY <1>b, <1>f DEF Entries, Snapshot, Rewrites
<1>1. CASE Lose(c, r, call[c].seen.version)
  BY <1>a, <1>1, FailureIsGood DEF Lose
<1>2. CASE Apply(e, call[c].seen.version, "superseded", q.id) /\ Return(c, "ok", call[c].answer)
  <2>1. /\ entries' = [entries EXCEPT ![r] = e] /\ entries[r].version = call[c].seen.version
        /\ byKey' \in [Keys -> Ids \cup {None}]
    <3>1. e.record.id \in Ids /\ Apply(e, call[c].seen.version, "superseded", q.id) /\ e \in Entries
      BY <1>b, <1>f, <1>g, <1>2
    <3>2. /\ entries' = [entries EXCEPT ![e.record.id] = e] /\ entries[e.record.id].version = call[c].seen.version
          /\ byKey' \in [Keys -> Ids \cup {None}]
      BY <1>a, <3>1, ApplyEffect
    <3>. QED BY <1>g, <3>2
  <2>2. PICK ev : ev = [id |-> e.record.id, kind |-> "superseded", version |-> e.version, of |-> q.id]
    OBVIOUS
  <2>3. ev \in Events /\ ev.id = r /\ ev.kind = "superseded"
    BY <1>b, <1>f, <1>g, <2>2 DEF Events, Entries
  <2>4. journal' = Append(journal, ev)
    BY <1>2, <2>2 DEF Apply
  <2>5. entries[r] = call[c].seen
    BY <1>b, <2>1 DEF Snapshot
  <2>6. q.id # None
    BY <1>b, MemoryAssumption
  <2>7. Lawful(r, e, ev)
    BY <1>b, <1>f, <1>g, <2>1, <2>3, <2>4, <2>5, <2>6 DEF Lawful
  <2>. QED BY <1>a, <1>b, <1>c, <1>2, <2>7, ReturnIsGood DEF Writes
<1>. QED BY <1>1, <1>2, <1>d DEF Mark

\* A decision about a candidate is written onto what was loaded.
LEMMA DecisionIsGood ==
  ASSUME Inv, NEW c \in Callers, ApplyDecision(c) PROVE Good(c)
<1>. DEFINE r == call[c].req.id
<1>a. /\ call[c] \in CallStates /\ HasArguments(call[c]) /\ Backed(call[c]) /\ TypeInv
      /\ call[c].pc = "decide"
  BY DEF Inv, TypeInv, ApplyDecision
<1>b. /\ r \in Ids /\ call[c].seen \in Entries /\ Snapshot(call[c].seen, r)
      /\ call[c].seen.confirmation = "unconfirmed"
  BY <1>a DEF HasArguments, CallStates, Backed
<1>c. call[c].deleted = {}
  BY <1>a, WritersRememberNothing
<1>1. CASE Lose(c, r, call[c].seen.version)
  BY <1>a, <1>1, FailureIsGood DEF Lose
<1>2. ASSUME NEW how \in {"confirmed", "rejected"}, NEW e, e = Decided(call[c].seen, how),
             Apply(e, call[c].seen.version, how, None), Return(c, "ok", {e})
      PROVE  Good(c)
  <2>f. e \in Entries /\ e = [call[c].seen EXCEPT !.version = call[c].seen.version + 1, !.confirmation = how]
    BY <1>b, <1>2, EntryTypes
  <2>g. e.record.id = r /\ e.version = call[c].seen.version + 1
        /\ e.deleted = call[c].seen.deleted /\ e.supersededBy = call[c].seen.supersededBy
        /\ Rewrites(e, call[c].seen)
    BY <1>b, <2>f DEF Entries, Snapshot, Rewrites
  <2>1. /\ entries' = [entries EXCEPT ![r] = e] /\ entries[r].version = call[c].seen.version
        /\ byKey' \in [Keys -> Ids \cup {None}]
    <3>1. e.record.id \in Ids /\ Apply(e, call[c].seen.version, how, None) /\ e \in Entries
      BY <1>b, <2>f, <2>g, <1>2
    <3>2. /\ entries' = [entries EXCEPT ![e.record.id] = e] /\ entries[e.record.id].version = call[c].seen.version
          /\ byKey' \in [Keys -> Ids \cup {None}]
      BY <1>a, <3>1, ApplyEffect
    <3>. QED BY <2>g, <3>2
  <2>2. PICK ev : ev = [id |-> e.record.id, kind |-> how, version |-> e.version, of |-> None]
    OBVIOUS
  <2>3. ev \in Events /\ ev.id = r /\ ev.kind \in {"confirmed", "rejected"}
    BY <1>b, <2>f, <2>g, <2>2 DEF Events, Entries
  <2>4. journal' = Append(journal, ev)
    BY <1>2, <2>2 DEF Apply
  <2>5. entries[r] = call[c].seen
    BY <1>b, <2>1 DEF Snapshot
  <2>7. Lawful(r, e, ev)
    BY <1>b, <2>f, <2>g, <2>1, <2>3, <2>4, <2>5 DEF Lawful
  <2>. QED BY <1>a, <1>c, <1>2, <2>f, <2>7, ReturnIsGood DEF Writes
<1>3. call[c].seen.record.id = r
  BY <1>b DEF Snapshot
<1>. QED BY <1>1, <1>2, <1>3 DEF ApplyDecision

\* The marker of a deletion is written first.
LEMMA MarkerIsGood ==
  ASSUME Inv, NEW c \in Callers, WriteMarker(c) PROVE Good(c)
<1>. DEFINE q == call[c].req
<1>a. /\ call[c] \in CallStates /\ HasArguments(call[c]) /\ Backed(call[c]) /\ TypeInv /\ Filed
      /\ call[c].pc = "first"
  BY DEF Inv, TypeInv, WriteMarker, Turn, DeletionOrder
<1>b. /\ q.id \in Ids /\ q.with \in Ids /\ call[c].seen \in Entries /\ Snapshot(call[c].seen, q.id)
      /\ q.id # None
  BY <1>a, MemoryAssumption DEF HasArguments, CallStates, Backed
<1>c. call[c].deleted = {}
  BY <1>a, WritersRememberNothing
<1>d. PICK e : e = NewEntry(Record(q.with, "tombstone", None, q.id), 1, None)
  OBVIOUS
<1>f. e \in Entries /\ e.record.id = q.with /\ e.version = 1 /\ e.supersededBy = None
  <2>1. Record(q.with, "tombstone", None, q.id) \in Texts /\ Record(q.with, "tombstone", None, q.id).id = q.with
    BY <1>b DEF Record, Texts, Variants
  <2>. QED BY <1>d, <2>1 DEF NewEntry, Entries
<1>1. CASE Lose(c, q.with, 0)
  BY <1>a, <1>1, FailureIsGood DEF Lose
<1>2. CASE Apply(e, 0, "tombstoned", q.id) /\ AfterWrite(c)
  <2>1. /\ entries' = [entries EXCEPT ![q.with] = e] /\ entries[q.with].version = 0
        /\ byKey' \in [Keys -> Ids \cup {None}]
    BY <1>a, <1>b, <1>f, <1>2, ApplyEffect
  <2>2. PICK ev : ev = [id |-> e.record.id, kind |-> "tombstoned", version |-> e.version, of |-> q.id]
    OBVIOUS
  <2>3. ev \in Events /\ ev.id = q.with /\ ev.kind = "tombstoned" /\ ev.of = q.id
    BY <1>b, <1>f, <2>2 DEF Events
  <2>4. journal' = Append(journal, ev)
    BY <1>2, <2>2 DEF Apply
  <2>5. entries[q.with] = NoEntry
    BY <1>a, <1>b, <2>1 DEF Filed
  <2>7. Lawful(q.with, e, ev)
    BY <1>b, <1>f, <2>1, <2>3, <2>4, <2>5 DEF Lawful
  <2>8. q.with # q.id
    BY <1>b, <2>1 DEF Snapshot, Entries
  <2>9. PICK k : k = [call[c] EXCEPT !.pc = "second"]
    OBVIOUS
  <2>10. Moved(c, k)
    <3>1. HasArguments(k)
      BY <1>a, <1>b, <2>9 DEF HasArguments, CallStates
    <3>2. Goes(c, "second")
      BY <1>a, <1>2 DEF AfterWrite
    <3>. QED BY <1>a, <2>9, <3>1, <3>2, GoesMoves DEF Awaits
  <2>11. k.pc = "second" /\ k.req = q /\ k.seen = call[c].seen /\ k.deleted = {}
    BY <1>a, <1>c, <2>9 DEF CallStates
  <2>12. entries'[q.id] = entries[q.id]
    BY <1>b, <2>1, <2>8 DEF Inv, TypeInv
  <2>13. \E j \in DOMAIN journal' : journal'[j].kind = "tombstoned" /\ journal'[j].of = q.id
    <3>1. journal \in Seq(Events)
      BY <1>a DEF TypeInv
    <3>2. Len(journal) + 1 \in DOMAIN journal' /\ journal'[Len(journal) + 1] = ev
      BY <2>3, <2>4, <3>1
    <3>. QED BY <2>3, <3>2
  <2>14. Backed(k)'
    BY <1>b, <2>11, <2>12, <2>13 DEF Backed, Snapshot, IsMarked
  <2>. QED BY <2>7, <2>10, <2>14 DEF Good, Writes
<1>. QED BY <1>1, <1>2, <1>d DEF WriteMarker

\* The record is withheld after its marker.
LEMMA BuryIsGood ==
  ASSUME Inv, NEW c \in Callers, Bury(c) PROVE Good(c)
<1>. DEFINE r == call[c].req.id
<1>a. /\ call[c] \in CallStates /\ HasArguments(call[c]) /\ Backed(call[c]) /\ TypeInv
      /\ call[c].pc = "second"
  BY DEF Inv, TypeInv, Bury, Turn, DeletionOrder
<1>b. /\ r \in Ids /\ call[c].seen \in Entries /\ Snapshot(call[c].seen, r) /\ IsMarked(r)
  BY <1>a DEF HasArguments, CallStates, Backed
<1>c. call[c].deleted = {}
  BY <1>a, WritersRememberNothing
<1>d. PICK e : e = Buried(call[c].seen)
  OBVIOUS
<1>f. /\ e \in Entries /\ e.record.id = r /\ e.version = call[c].seen.version + 1 /\ e.deleted
      /\ e.supersededBy = call[c].seen.supersededBy /\ e.confirmation = call[c].seen.confirmation
      /\ Rewrites(e, call[c].seen)
  BY <1>b, <1>d, EntryTypes DEF Snapshot, Rewrites
<1>1. CASE Lose(c, call[c].seen.record.id, call[c].seen.version)
  BY <1>a, <1>1, FailureIsGood DEF Lose
<1>2. CASE Apply(e, call[c].seen.version, "tombstoned", None) /\ AfterWrite(c)
  <2>1. /\ entries' = [entries EXCEPT ![r] = e] /\ entries[r].version = call[c].seen.version
        /\ byKey' \in [Keys -> Ids \cup {None}]
    BY <1>a, <1>b, <1>f, <1>2, ApplyEffect
  <2>2. PICK ev : ev = [id |-> e.record.id, kind |-> "tombstoned", version |-> e.version, of |-> None]
    OBVIOUS
  <2>3. ev \in Events /\ ev.id = r /\ ev.kind = "tombstoned" /\ ev.of = None
    BY <1>b, <1>f, <2>2 DEF Events, Entries
  <2>4. journal' = Append(journal, ev)
    BY <1>2, <2>2 DEF Apply
  <2>5. entries[r] = call[c].seen
    BY <1>b, <2>1 DEF Snapshot
  <2>7. Lawful(r, e, ev)
    BY <1>b, <1>f, <2>1, <2>3, <2>4, <2>5 DEF Lawful
  <2>8. Return(c, "ok", {e})
    BY <1>a, <1>d, <1>2 DEF AfterWrite
  <2>. QED BY <1>a, <1>c, <1>f, <2>7, <2>8, ReturnIsGood DEF Writes
<1>. QED BY <1>1, <1>2, <1>d DEF Bury

\* Every step of a call is good.
LEMMA StepsAreGood ==
  ASSUME Inv, Next, ~Close PROVE \E c \in Callers : Good(c)
<1>1. ASSUME NEW c \in Callers, Refuse(c) PROVE Good(c)
  BY <1>1, FailureIsGood DEF Refuse
<1>. QED
  BY <1>1, StartIsGood, AppendChecksAreGood, LoadsAreGood, WalkIsGood, ApplyAppendIsGood, MarkIsGood,
     DecisionIsGood, MarkerIsGood, BuryIsGood DEF Next

\* What another call writes leaves a call backed.
LEMMA BackedStays ==
  ASSUME Inv, Quiet \/ Writes, NEW k \in CallStates, HasArguments(k), Backed(k)
  PROVE  Backed(k)'
<1>a. \A r \in Ids : /\ entries'[r] = entries[r] \/ entries'[r].version > entries[r].version
                     /\ entries[r].version \in Nat /\ entries'[r].version \in Nat
  <2>. SUFFICES ASSUME NEW r \in Ids
                PROVE  /\ entries'[r] = entries[r] \/ entries'[r].version > entries[r].version
                       /\ entries[r].version \in Nat /\ entries'[r].version \in Nat
    OBVIOUS
  <2>. QED BY WritesGrow DEF Inv, TypeInv, Entries
<1>1. ASSUME NEW r \in Ids, Snapshot(k.seen, r) PROVE Snapshot(k.seen, r)'
  <2>1. k.seen.version \in Nat
    BY DEF CallStates, Entries
  <2>. QED BY <1>a, <1>1, <2>1 DEF Snapshot
<1>2. ASSUME NEW r, IsMarked(r) PROVE IsMarked(r)'
  <2>1. CASE Quiet
    BY <1>2, <2>1 DEF Quiet, IsMarked
  <2>2. ASSUME NEW q, NEW e, NEW ev, Lawful(q, e, ev) PROVE IsMarked(r)'
    <3>1. journal \in Seq(Events) /\ ev \in Events /\ journal' = Append(journal, ev)
      BY <2>2 DEF Lawful, Inv, TypeInv
    <3>2. \A j \in DOMAIN journal : j \in DOMAIN journal' /\ journal'[j] = journal[j]
      BY <3>1
    <3>. QED BY <1>2, <3>2 DEF IsMarked
  <2>. QED BY <2>1, <2>2 DEF Writes
<1>3. /\ k.pc = "mark" => Snapshot(k.seen, k.req.supersedes)' /\ k.seen.supersededBy = None
      /\ k.pc \in {"decide", "first", "second"} => Snapshot(k.seen, k.req.id)'
      /\ k.pc = "second" => IsMarked(k.req.id)'
  BY <1>1, <1>2 DEF Backed, HasArguments
<1>4. k.pc \in {"precedence", "capacity", "apply"} =>
       /\ k.expected <= entries'[k.req.id].version
       /\ k.expected = entries'[k.req.id].version =>
            entries'[k.req.id] = NoEntry \/ (entries'[k.req.id].deleted /\ k.req.resurrect)
  <2>1. k.expected \in Nat
    BY DEF CallStates
  <2>. QED BY <1>a, <2>1 DEF Backed, HasArguments
<1>5. \A d \in k.deleted : /\ d[2] <= entries'[d[1]].version
                           /\ k.pc # "idle" /\ d[2] = entries'[d[1]].version => entries'[d[1]].deleted
  <2>. SUFFICES ASSUME NEW d \in k.deleted
                PROVE  /\ d[2] <= entries'[d[1]].version
                       /\ k.pc # "idle" /\ d[2] = entries'[d[1]].version => entries'[d[1]].deleted
    OBVIOUS
  <2>1. d[1] \in Ids /\ d[2] \in Nat
    BY DEF CallStates
  <2>2. d[2] <= entries[d[1]].version /\ (k.pc # "idle" /\ d[2] = entries[d[1]].version => entries[d[1]].deleted)
    BY DEF Backed
  <2>. QED BY <1>a, <2>1, <2>2
<1>. QED BY <1>3, <1>4, <1>5 DEF Backed

\* Entries stay filed.
LEMMA FiledStays == ASSUME Inv, Quiet \/ Writes PROVE Filed'
<1>1. CASE Quiet
  BY <1>1 DEF Quiet, Inv, Filed
<1>2. ASSUME NEW q, NEW e, NEW ev, Lawful(q, e, ev) PROVE Filed'
  <2>1. /\ journal \in Seq(Events) /\ ev \in Events /\ journal' = Append(journal, ev) /\ q \in Ids /\ ev.id = q
        /\ e.record.id = q /\ e.version = entries[q].version + 1 /\ entries' = [entries EXCEPT ![q] = e]
        /\ entries \in [Ids -> Entries]
    BY <1>2 DEF Lawful, Inv, TypeInv
  <2>2. \A r \in Ids : entries[r].version \in Nat
    BY <2>1 DEF Entries
  <2>3. \A r \in Ids : entries'[r] = entries[r] \/ (r = q /\ entries'[r] = e)
    BY <2>1
  <2>4. \A r \in Ids : entries[r].version >= 1 => entries'[r].version >= 1
    BY <2>1, <2>2, <2>3
  <2>5. \A i \in DOMAIN journal' : journal'[i].id = q \/ (i \in DOMAIN journal /\ journal'[i] = journal[i])
    BY <2>1
  <2>6. \A i \in DOMAIN journal : journal[i].id \in Ids
    <3>1. \A i \in DOMAIN journal : journal[i] \in Events
      BY <2>1
    <3>. QED BY <3>1 DEF Events
  <2>7. entries'[q].version >= 1
    BY <2>1, <2>2
  <2>. QED BY <2>1, <2>2, <2>3, <2>4, <2>5, <2>6, <2>7 DEF Inv, Filed
<1>. QED BY <1>1, <1>2 DEF Writes

\* What a step does: one call moves to a state that is backed, or nothing does.
LEMMA StepCases ==
  ASSUME Inv, [Next]_vars
  PROVE  (\E c \in Callers : Good(c)) \/ UNCHANGED <<entries, byKey, journal, call>>
BY StepsAreGood DEF Close, vars

\* The invariant holds initially and is preserved.
LEMMA InvHolds ==
  /\ Init => Inv
  /\ Inv /\ [Next]_vars => Inv'
<1>1. ASSUME Init PROVE Inv
  <2>1. Request("read", None) \in Asked
    BY DEF Request, Asked, Ops, Variants
  <2>2. Idle \in CallStates /\ Idle.pc = "idle" /\ Idle.deleted = {}
    BY <2>1, EntryTypes DEF Idle, CallStates, Awaits
  <2>3. TypeInv
    <3>1. entries \in [Ids -> Entries]
      BY <1>1, EntryTypes DEF Init
    <3>2. byKey \in [Keys -> Ids \cup {None}] /\ journal \in Seq(Events)
      BY <1>1 DEF Init
    <3>3. call \in [Callers -> CallStates] /\ \A c \in Callers : HasArguments(call[c])
      BY <1>1, <2>2 DEF Init, HasArguments
    <3>. QED BY <3>1, <3>2, <3>3 DEF TypeInv
  <2>4. Filed /\ \A c \in Callers : Backed(call[c])
    BY <1>1, <2>2 DEF Init, Filed, Backed
  <2>. QED BY <2>3, <2>4 DEF Inv
<1>2. ASSUME Inv, [Next]_vars PROVE Inv'
  <2>1. CASE UNCHANGED <<entries, byKey, journal, call>>
    BY <1>2, <2>1 DEF Inv, TypeInv, Filed, Backed, Snapshot, IsMarked
  <2>2. ASSUME NEW c \in Callers, NEW k, Moved(c, k), Backed(k)', Quiet \/ Writes PROVE Inv'
    <3>1. call \in [Callers -> CallStates] /\ \A d \in Callers : HasArguments(call[d]) /\ Backed(call[d])
      BY <1>2 DEF Inv, TypeInv
    <3>2. call' \in [Callers -> CallStates] /\ \A d \in Callers : HasArguments(call'[d])
      BY <1>2, <2>2, MovedTypes DEF Inv
    <3>3. /\ entries' \in [Ids -> Entries] /\ byKey' \in [Keys -> Ids \cup {None}] /\ journal' \in Seq(Events)
      <4>1. CASE Quiet
        BY <1>2, <4>1 DEF Quiet, Inv, TypeInv
      <4>2. CASE Writes
        BY <1>2, <4>2 DEF Writes, Lawful, Inv, TypeInv
      <4>. QED BY <2>2, <4>1, <4>2
    <3>4. Filed'
      BY <1>2, <2>2, FiledStays
    <3>5. ASSUME NEW d \in Callers PROVE Backed(call[d])'
      <4>1. CASE d = c
        BY <2>2, <3>1, <4>1 DEF Moved
      <4>2. CASE d # c
        <5>1. PICK g : g = call[d]
          OBVIOUS
        <5>2. Backed(g)'
          BY <1>2, <2>2, <3>1, <5>1, BackedStays
        <5>3. call'[d] = g
          BY <2>2, <3>1, <4>2, <5>1 DEF Moved
        <5>. QED BY <5>2, <5>3
      <4>. QED BY <4>1, <4>2
    <3>. QED BY <3>2, <3>3, <3>4, <3>5 DEF Inv, TypeInv
  <2>. QED BY <1>2, <2>1, <2>2, StepCases DEF Good
<1>. QED BY <1>1, <1>2

\* The invariant holds of every behaviour.
LEMMA InvAlways == Spec => []Inv
BY InvHolds, PTL DEF Spec

-----------------------------------------------------------------------------
\* No write takes back what another one did since its caller looked: a
\* deletion, a supersession or a decision.
THEOREM NothingComesUndone == Spec => NothingIsUndone
<1>. DEFINE Kept == \A r \in Ids :
       LET old == entries[r]  new == entries'[r]
       IN new # old /\ old # NoEntry =>
            /\ new.version = old.version + 1
            /\ \/ old.deleted /\ ~new.deleted /\ Returns(r)
               \/ /\ old.deleted => new.deleted
                  /\ old.supersededBy # None => new.supersededBy = old.supersededBy
                  /\ old.confirmation # "unconfirmed" => new.confirmation = old.confirmation
<1>1. ASSUME Inv, [Next]_vars PROVE [Kept]_vars
  <2>1. CASE UNCHANGED <<entries, byKey, journal, call>>
    BY <2>1
  <2>2. CASE Quiet
    BY <2>2 DEF Quiet
  <2>3. ASSUME NEW q, NEW e, NEW ev, Lawful(q, e, ev) PROVE Kept
    <3>1. \A r \in Ids : entries'[r] = entries[r] \/ r = q
      BY <1>1, <2>3 DEF Lawful, Inv, TypeInv
    <3>2. entries'[q] = e
      BY <1>1, <2>3 DEF Lawful, Inv, TypeInv
    <3>. QED BY <2>3, <3>1, <3>2 DEF Lawful
  <2>. QED BY <1>1, <2>1, <2>2, <2>3, StepCases DEF Good, Writes
<1>. QED BY <1>1, InvAlways, PTL DEF Spec, NothingIsUndone

\* A record that was superseded still is, or was brought back since.
Accounted ==
  /\ SupersededOnce
  /\ \A r \in Ids : \A i \in EventsOf(r, "superseded") :
       entries[r].supersededBy # None \/ \E k \in EventsOf(r, "appended") : i < k

\* What an event adds to the events of its record.
LEMMA EventsGrow ==
  ASSUME NEW ev \in Events, journal \in Seq(Events), journal' = Append(journal, ev), NEW r, NEW kind
  PROVE  /\ \A i \in EventsOf(r, kind) : i \in EventsOf(r, kind)' /\ i \in 1 .. Len(journal)
         /\ \A i \in EventsOf(r, kind)' : \/ i \in EventsOf(r, kind)
                                          \/ i = Len(journal) + 1 /\ ev.id = r /\ ev.kind = kind
         /\ ev.id = r /\ ev.kind = kind => Len(journal) + 1 \in EventsOf(r, kind)'
         /\ Len(journal) \in Nat
BY DEF EventsOf

\* Every lawful write keeps the supersessions accounted for.
LEMMA AccountedStays ==
  ASSUME Inv, Accounted, Quiet \/ Writes PROVE Accounted'
<1>1. CASE Quiet
  BY <1>1 DEF Quiet, Accounted, SupersededOnce, EventsOf
<1>2. ASSUME NEW q, NEW e, NEW ev, Lawful(q, e, ev) PROVE Accounted'
  <2>a. /\ journal \in Seq(Events) /\ ev \in Events /\ journal' = Append(journal, ev) /\ q \in Ids /\ ev.id = q
        /\ entries' = [entries EXCEPT ![q] = e] /\ entries \in [Ids -> Entries]
    BY <1>2 DEF Lawful, Inv, TypeInv
  <2>b. \A r \in Ids, kind \in {"superseded", "appended"} :
          /\ \A i \in EventsOf(r, kind) : i \in EventsOf(r, kind)' /\ i \in 1 .. Len(journal)
          /\ \A i \in EventsOf(r, kind)' : \/ i \in EventsOf(r, kind)
                                           \/ i = Len(journal) + 1 /\ ev.id = r /\ ev.kind = kind
          /\ ev.id = r /\ ev.kind = kind => Len(journal) + 1 \in EventsOf(r, kind)'
          /\ Len(journal) \in Nat
    BY <2>a, EventsGrow
  <2>c. ev.kind = "superseded" => entries[q].supersededBy = None /\ e.supersededBy # None
    BY <1>2 DEF Lawful
  <2>d. \/ ev.kind \in {"superseded", "appended"}
        \/ e.supersededBy = entries[q].supersededBy \/ entries[q] = NoEntry
    BY <1>2 DEF Lawful
  <2>e. \A r \in Ids : entries'[r] = IF r = q THEN e ELSE entries[r]
    BY <2>a
  <2>1. ASSUME NEW r \in Ids, NEW i \in EventsOf(r, "superseded")', NEW j \in EventsOf(r, "superseded")', i < j
        PROVE  \E k \in EventsOf(r, "appended")' : i < k /\ k < j
    <3>1. i \in EventsOf(r, "superseded") /\ i \in 1 .. Len(journal)
      <4>1. j \in 1 .. Len(journal) + 1
        BY <2>b
      <4>. QED BY <2>b, <2>1, <4>1
    <3>2. CASE j \in EventsOf(r, "superseded")
      <4>1. PICK k \in EventsOf(r, "appended") : i < k /\ k < j
        BY <3>1, <3>2, <2>1 DEF Accounted, SupersededOnce
      <4>. QED BY <2>b, <4>1
    <3>3. CASE j = Len(journal) + 1 /\ q = r /\ ev.kind = "superseded"
      <4>1. PICK k \in EventsOf(r, "appended") : i < k
        BY <2>c, <3>1, <3>3 DEF Accounted
      <4>. QED BY <2>b, <3>3, <4>1
    <3>. QED BY <2>a, <2>b, <3>2, <3>3
  <2>2. ASSUME NEW r \in Ids, NEW i \in EventsOf(r, "superseded")'
        PROVE  entries'[r].supersededBy # None \/ \E k \in EventsOf(r, "appended")' : i < k
    <3>1. CASE i = Len(journal) + 1 /\ q = r /\ ev.kind = "superseded"
      BY <2>c, <2>e, <3>1
    <3>2. CASE i \in EventsOf(r, "superseded") /\ r = q
      <4>1. i \in 1 .. Len(journal)
        BY <2>b, <3>2
      <4>2. CASE ev.kind = "appended"
        BY <2>a, <2>b, <3>2, <4>1, <4>2
      <4>3. CASE ev.kind = "superseded"
        BY <2>c, <2>e, <3>2, <4>3
      <4>4. CASE ev.kind \notin {"appended", "superseded"}
        <5>1. entries[q] # NoEntry
          <6>1. journal[i].id = q
            BY <3>2 DEF EventsOf
          <6>2. entries[q].version >= 1
            BY <2>a, <4>1, <6>1 DEF Inv, Filed
          <6>3. NoEntry.version = 0
            BY EntryTypes
          <6>. QED BY <6>2, <6>3
        <5>. QED BY <2>b, <2>d, <2>e, <3>2, <4>4, <5>1 DEF Accounted
      <4>. QED BY <4>2, <4>3, <4>4
    <3>3. CASE i \in EventsOf(r, "superseded") /\ r # q
      BY <2>b, <2>e, <3>3 DEF Accounted
    <3>. QED BY <2>a, <2>b, <3>1, <3>2, <3>3
  <2>. QED BY <2>1, <2>2 DEF Accounted, SupersededOnce
<1>. QED BY <1>1, <1>2 DEF Writes

\* Of all the calls that want to replace one record, one succeeds; a second
\* can only after the record was brought back.
THEOREM RecordsAreSupersededOnce == Spec => []SupersededOnce
<1>1. Init => Accounted
  BY DEF Init, Accounted, SupersededOnce, EventsOf
<1>2. Inv /\ Accounted /\ [Next]_vars => Accounted'
  <2>1. ASSUME Accounted, UNCHANGED <<entries, byKey, journal, call>> PROVE Accounted'
    BY <2>1 DEF Accounted, SupersededOnce, EventsOf
  <2>. QED BY <2>1, StepCases, AccountedStays DEF Good
<1>3. Accounted => SupersededOnce
  BY DEF Accounted
<1>. QED BY <1>1, <1>2, <1>3, InvAlways, PTL DEF Spec

\* The marker of a deletion is in the journal before the deletion, and no
\* reader answers with what was deleted before it began.
THEOREM DeletionsAreForgotten == Spec => []DeletedIsForgotten
<1>1. Init => MarkerFirst
  BY DEF Init, MarkerFirst
<1>2. Inv /\ MarkerFirst /\ [Next]_vars => MarkerFirst'
  <2>1. ASSUME MarkerFirst, UNCHANGED journal PROVE MarkerFirst'
    BY <2>1 DEF MarkerFirst
  <2>2. ASSUME Inv, MarkerFirst, NEW q, NEW e, NEW ev, Lawful(q, e, ev) PROVE MarkerFirst'
    <3>1. journal \in Seq(Events) /\ ev \in Events /\ journal' = Append(journal, ev) /\ ev.id = q
      BY <2>2 DEF Lawful, Inv, TypeInv
    <3>2. /\ DOMAIN journal' = 1 .. (Len(journal) + 1) /\ Len(journal) \in Nat /\ DOMAIN journal = 1 .. Len(journal)
          /\ \A j \in 1 .. Len(journal) : journal'[j] = journal[j]
          /\ journal'[Len(journal) + 1] = ev
      BY <3>1
    <3>3. ev.kind = "tombstoned" /\ ev.of = None =>
            \E j \in 1 .. Len(journal) : journal[j].kind = "tombstoned" /\ journal[j].of = q
      BY <2>2, <3>2 DEF Lawful, IsMarked
    <3>4. ASSUME NEW i \in 1 .. (Len(journal) + 1), journal'[i].kind = "tombstoned", journal'[i].of = None
          PROVE  \E j \in 1 .. (i - 1) : journal'[j].kind = "tombstoned" /\ journal'[j].of = journal'[i].id
      <4>1. CASE i = Len(journal) + 1
        BY <3>1, <3>2, <3>3, <3>4, <4>1
      <4>2. CASE i \in 1 .. Len(journal)
        <5>1. PICK j \in 1 .. (i - 1) : journal[j].kind = "tombstoned" /\ journal[j].of = journal[i].id
          BY <2>2, <3>2, <3>4, <4>2 DEF MarkerFirst
        <5>2. j \in 1 .. Len(journal)
          BY <3>2, <4>2
        <5>. QED BY <3>2, <4>2, <5>1, <5>2
      <4>. QED BY <3>2, <4>1, <4>2
    <3>. QED BY <3>2, <3>4 DEF MarkerFirst
  <2>. QED BY <2>1, <2>2, StepCases DEF Good, Quiet, Writes
<1>3. Inv /\ MarkerFirst => DeletedIsForgotten
  BY DEF Inv, Backed, DeletedIsForgotten
<1>. QED BY <1>1, <1>2, <1>3, InvAlways, PTL DEF Spec

-----------------------------------------------------------------------------
(* What was found when precedence was checked.                                *)

Once(r) == \A i, j \in Creations(r) : i = j

\* The record r is there, and unless it is brought back its variant is one of vs.
Settled(r, vs) == entries[r] # NoEntry /\ (Once(r) => entries[r].record.variant \in vs)

\* A call past the check may replace what it found, with what it has stored.
Cleared(k) ==
  /\ k.pc \in {"capacity", "apply", "markLoad", "mark"} /\ k.req.supersedes # None
     /\ k.req.variant = "candidate" => Settled(k.req.supersedes, Variants \ {"explicit"})
  /\ k.pc \in {"markLoad", "mark"} => Settled(k.req.id, {k.req.variant})

Replaced(r) ==
  LET by == entries[r].supersededBy
  IN by # None => /\ entries[r] # NoEntry /\ entries[by] # NoEntry
                  /\ Once(r) /\ Once(by) =>
                       ~(entries[by].record.variant = "candidate" /\ entries[r].record.variant = "explicit")

PrecedenceInv ==
  /\ \A r \in Ids : entries[r] # NoEntry => Creations(r) # {}
  /\ \A r \in Ids : Replaced(r)
  /\ \A c \in Callers : Cleared(call[c])

\* A write creates its record, or leaves what the record says.
LEMMA LawfulChange ==
  ASSUME Inv, NEW q, NEW e, NEW ev, Lawful(q, e, ev)
  PROVE  /\ q \in Ids /\ \A r \in Ids : entries'[r] = IF r = q THEN e ELSE entries[r]
         /\ e # NoEntry
         /\ \A r \in Ids : /\ Creations(r) \subseteq Creations(r)'
                           /\ r # q => Creations(r)' = Creations(r)
         /\ \/ /\ ev.kind \in {"appended", "tombstoned"} /\ e.supersededBy = None
               /\ Len(journal) + 1 \in Creations(q)' /\ Len(journal) + 1 \notin Creations(q)
            \/ /\ ev.kind # "appended" /\ entries[q] # NoEntry
               /\ e.record.variant = entries[q].record.variant
               /\ Creations(q)' = Creations(q)
               /\ ev.kind # "superseded" => e.supersededBy = entries[q].supersededBy
<1>1. /\ journal \in Seq(Events) /\ ev \in Events /\ journal' = Append(journal, ev) /\ q \in Ids /\ ev.id = q
      /\ entries' = [entries EXCEPT ![q] = e] /\ entries \in [Ids -> Entries]
      /\ e.version = entries[q].version + 1
  BY DEF Lawful, Inv, TypeInv
<1>2. e # NoEntry
  <2>1. entries[q].version \in Nat
    BY <1>1 DEF Entries
  <2>2. NoEntry.version = 0
    BY EntryTypes
  <2>. QED BY <1>1, <2>1, <2>2
<1>3. /\ DOMAIN journal' = 1 .. (Len(journal) + 1) /\ Len(journal) \in Nat /\ DOMAIN journal = 1 .. Len(journal)
      /\ \A i \in 1 .. Len(journal) : journal'[i] = journal[i]
      /\ journal'[Len(journal) + 1] = ev
  BY <1>1
<1>. DEFINE Makes(v, r) == v.id = r /\ (v.kind = "appended" \/ (v.kind = "tombstoned" /\ v.of # None))
<1>4. ASSUME NEW r
      PROVE  /\ Creations(r) = {i \in DOMAIN journal : Makes(journal[i], r)}
             /\ Creations(r)' = {i \in DOMAIN journal' : Makes(journal'[i], r)}
  <2>1. Creations(r) = {i \in DOMAIN journal : Makes(journal[i], r)}
    BY Zenon DEF Creations, EventsOf
  <2>2. Creations(r)' = {i \in DOMAIN journal' : Makes(journal'[i], r)}
    BY Zenon DEF Creations, EventsOf
  <2>. QED BY <2>1, <2>2
<1>. HIDE DEF Makes
<1>5. \A r : Creations(r)' = IF Makes(ev, r) THEN Creations(r) \cup {Len(journal) + 1} ELSE Creations(r)
  BY <1>3, <1>4
<1>6. Len(journal) + 1 \notin Creations(q)
  BY <1>3, <1>4
<1>7. \A r : r # q => ~Makes(ev, r)
  BY <1>1 DEF Makes
<1>8. \A r \in Ids : entries'[r] = IF r = q THEN e ELSE entries[r]
  BY <1>1
<1>9. CASE Makes(ev, q)
  BY <1>1, <1>2, <1>5, <1>6, <1>7, <1>8, <1>9 DEF Lawful, Makes
<1>10. CASE ~Makes(ev, q)
  <2>1. entries[q].version >= 1 /\ e.record.variant = entries[q].record.variant /\ ev.kind # "appended"
        /\ (ev.kind # "superseded" => e.supersededBy = entries[q].supersededBy)
    BY <1>1, <1>10 DEF Lawful, Makes, Rewrites
  <2>2. entries[q] # NoEntry
    <3>1. NoEntry.version = 0
      BY EntryTypes
    <3>. QED BY <2>1, <3>1
  <2>. QED BY <1>1, <1>2, <1>5, <1>7, <1>8, <1>10, <2>1, <2>2
<1>. QED BY <1>9, <1>10

\* Whatever is written, a record that is settled stays so.
LEMMA SettledStays ==
  ASSUME Inv, PrecedenceInv, Quiet \/ Writes, NEW r \in Ids, NEW vs, Settled(r, vs)
  PROVE  Settled(r, vs)'
<1>1. CASE Quiet
  BY <1>1 DEF Quiet, Settled, Once, Creations, EventsOf
<1>2. ASSUME NEW q, NEW e, NEW ev, Lawful(q, e, ev) PROVE Settled(r, vs)'
  <2>1. CASE r # q
    <3>1. entries'[r] = entries[r] /\ Creations(r)' = Creations(r)
      BY <1>2, <2>1, LawfulChange
    <3>. QED BY <3>1 DEF Settled, Once
  <2>2. CASE r = q /\ Creations(q)' = Creations(q) /\ e.record.variant = entries[q].record.variant
    BY <1>2, <2>2, LawfulChange DEF Settled, Once
  <2>3. CASE r = q /\ Len(journal) + 1 \in Creations(q)' /\ Len(journal) + 1 \notin Creations(q)
    <3>1. PICK i : i \in Creations(r)
      BY DEF PrecedenceInv, Settled
    <3>2. i \in Creations(r)' /\ i # Len(journal) + 1 /\ entries'[r] = e /\ e # NoEntry
      BY <1>2, <2>3, <3>1, LawfulChange
    <3>3. ~Once(r)'
      BY <2>3, <3>2 DEF Once
    <3>. QED BY <3>2, <3>3 DEF Settled
  <2>. QED BY <1>2, <2>1, <2>2, <2>3, LawfulChange
<1>. QED BY <1>1, <1>2 DEF Writes

\* A record that is there has been created, whatever is written.
LEMMA CreatedStays ==
  ASSUME Inv, PrecedenceInv, Quiet \/ Writes, NEW r \in Ids, entries'[r] # NoEntry
  PROVE  Creations(r)' # {}
<1>1. CASE Quiet
  BY <1>1 DEF Quiet, PrecedenceInv, Creations, EventsOf
<1>2. ASSUME NEW q, NEW e, NEW ev, Lawful(q, e, ev) PROVE Creations(r)' # {}
  BY <1>2, LawfulChange DEF PrecedenceInv
<1>. QED BY <1>1, <1>2 DEF Writes

\* A call that has passed the check stays cleared, whatever others write.
LEMMA ClearedStays ==
  ASSUME Inv, PrecedenceInv, Quiet \/ Writes, NEW k \in CallStates, HasArguments(k), Cleared(k)
  PROVE  Cleared(k)'
<1>1. k.pc \in {"capacity", "apply", "markLoad", "mark"} =>
        k.req.id \in Ids /\ (k.req.supersedes # None => k.req.supersedes \in Ids)
  BY DEF HasArguments, CallStates, Asked
<1>. QED BY <1>1, SettledStays DEF Cleared

\* A call that reaches the check of capacity has passed that of precedence.
LEMMA CheckedIsCleared ==
  ASSUME Inv, PrecedenceInv, NEW c \in Callers, CheckPrecedence(c) PROVE Cleared(call'[c])
<1>1. call \in [Callers -> CallStates] /\ HasArguments(call[c]) /\ call[c].pc = "precedence"
  BY DEF Inv, TypeInv, CheckPrecedence
<1>2. CASE Return(c, "failed", {})
  <2>1. PICK k : Moved(c, k) /\ k.pc = "idle"
    BY <1>2, ReturnMoves DEF Inv
  <2>. QED BY <1>1, <2>1 DEF Moved, Cleared
<1>3. CASE Goes(c, "capacity") /\ MayReplace(call[c].req.variant, entries[call[c].req.supersedes])
  <2>1. call'[c] = [call[c] EXCEPT !.pc = "capacity"]
    BY <1>1, <1>3 DEF Goes
  <2>2. call'[c].pc = "capacity" /\ call'[c].req = call[c].req /\ call[c].req.supersedes \in Ids
    BY <1>1, <2>1 DEF CallStates, HasArguments
  <2>3. entries[call[c].req.supersedes].record.variant \in Variants
    BY <2>2 DEF Inv, TypeInv, Entries, Texts
  <2>. QED BY <1>3, <2>2, <2>3 DEF MayReplace, Cleared, Settled
<1>. QED BY <1>2, <1>3 DEF CheckPrecedence

\* A call whose record is stored has stored what it asked for.
LEMMA StoredIsCleared ==
  ASSUME Inv, PrecedenceInv, NEW c \in Callers, ApplyAppend(c), NEW k, k = call'[c] PROVE Cleared(k)'
<1>. DEFINE q == call[c].req
<1>1. /\ call \in [Callers -> CallStates] /\ HasArguments(call[c]) /\ call[c].pc = "apply" /\ Cleared(call[c])
      /\ call[c] \in CallStates /\ TypeInv
  BY DEF Inv, TypeInv, ApplyAppend, PrecedenceInv
<1>2. q.id \in Ids /\ q \in Asked /\ q.key \in Keys \cup {None} /\ call[c].expected + 1 \in Nat
  BY <1>1 DEF HasArguments, CallStates, Asked
<1>3. ASSUME NEW answer \in SUBSET Entries, NEW result \in {"ok", "failed"}, Return(c, result, answer)
      PROVE  Cleared(k)'
  <2>1. PICK g : Moved(c, g) /\ g.pc = "idle"
    BY <1>1, <1>3, ReturnMoves
  <2>2. k.pc = "idle"
    BY <1>1, <2>1 DEF Moved
  <2>. QED BY <2>2 DEF Cleared
<1>4. PICK e : e = NewEntry(Wanted(q), call[c].expected + 1, q.key)
  OBVIOUS
<1>5. /\ Wanted(q) \in Texts /\ Wanted(q).id = q.id /\ Wanted(q).variant = q.variant
  BY <1>2 DEF Wanted, Record, Texts, Asked, Variants
<1>6. e \in Entries /\ e.record = Wanted(q) /\ e.record.id = q.id /\ e # NoEntry
  <2>1. e \in Entries /\ e.record = Wanted(q) /\ e.version = call[c].expected + 1
    BY <1>2, <1>4, <1>5 DEF NewEntry, Entries
  <2>2. call[c].expected \in Nat
    BY <1>1 DEF CallStates
  <2>3. NoEntry.version = 0
    BY EntryTypes
  <2>. QED BY <1>5, <2>1, <2>2, <2>3
<1>7. CASE Apply(e, call[c].expected, "appended", q.supersedes) /\ q.supersedes # None
           /\ call' = [call EXCEPT ![c].pc = "markLoad", ![c].answer = {e}]
  <2>1. call'[c] = [call[c] EXCEPT !.pc = "markLoad", !.answer = {e}]
    BY <1>1, <1>7
  <2>2. k.pc = "markLoad" /\ k.req = q /\ q.supersedes \in Ids
    BY <1>1, <1>2, <1>7, <2>1 DEF CallStates, Asked
  <2>3. entries'[q.id] = e
    <3>1. entries' = [entries EXCEPT ![e.record.id] = e]
      BY <1>7 DEF Apply
    <3>. QED BY <1>1, <1>2, <1>6, <3>1 DEF TypeInv
  <2>4. Settled(k.req.id, {k.req.variant})'
    BY <1>5, <1>6, <2>2, <2>3 DEF Settled
  <2>5. Quiet \/ Writes
    BY ApplyAppendIsGood DEF Good
  <2>6. q.variant = "candidate" => Settled(q.supersedes, Variants \ {"explicit"})
    BY <1>1, <1>7 DEF Cleared
  <2>7. k.req.variant = "candidate" => Settled(k.req.supersedes, Variants \ {"explicit"})'
    BY <2>2, <2>5, <2>6, SettledStays
  <2>. QED BY <2>2, <2>4, <2>7 DEF Cleared
<1>8. {e} \in SUBSET Entries /\ {} \in SUBSET Entries
  BY <1>6
<1>. QED BY <1>3, <1>4, <1>7, <1>8 DEF ApplyAppend, Lose

\* How a call comes to stand between the check of precedence and the mark.
LEMMA WaysBetween ==
  ASSUME Inv, NEW c \in Callers, Next,
         call'[c].pc \in {"capacity", "apply", "markLoad", "mark"}, call'[c] # call[c]
  PROVE  \/ CheckPrecedence(c) \/ ApplyAppend(c)
         \/ /\ call'[c].req = call[c].req /\ Unchanged
            /\ \/ call'[c].pc = "capacity" /\ call[c].req.supersedes = None
               \/ call'[c].pc = "apply" /\ call[c].pc = "capacity"
               \/ call'[c].pc = "mark" /\ call[c].pc = "markLoad"
<1>. DEFINE Between == {"capacity", "apply", "markLoad", "mark"}
<1>1. TypeInv /\ call \in [Callers -> CallStates] /\ call[c] \in CallStates
  BY DEF Inv, TypeInv
<1>2. ASSUME NEW d \in Callers, NEW result \in {"none", "ok", "replayed", "failed"},
             NEW answer, Return(d, result, answer)
      PROVE  FALSE
  <2>1. CASE d = c
    <3>1. call'[c].pc = "idle"
      BY <1>1, <1>2, <2>1 DEF Return, Idle
    <3>. QED BY <3>1
  <2>2. CASE d # c
    BY <1>1, <1>2, <2>2 DEF Return
  <2>. QED BY <2>1, <2>2
<1>3. ASSUME NEW d \in Callers, NEW k, call' = [call EXCEPT ![d] = k], k.pc \notin Between
      PROVE  FALSE
  BY <1>1, <1>3
<1>4. ASSUME NEW d \in Callers, NEW pc, Goes(d, pc)
      PROVE  c = d /\ call'[c].pc = pc /\ call'[c].req = call[c].req
  <2>1. c = d
    BY <1>1, <1>4 DEF Goes
  <2>. QED BY <1>1, <1>4, <2>1 DEF Goes, CallStates
<1>5. ASSUME NEW d \in Callers, NEW q \in Requests, Start(d, q) PROVE FALSE
  <2>1. c = d
    BY <1>1, <1>5 DEF Start
  <2>2. call'[c].pc = CASE q.op = "append" -> AfterKey(q) [] q.op = "query"  -> "list" [] OTHER -> "load"
    BY <1>1, <1>5, <2>1 DEF Start, Idle
  <2>. QED BY <2>2 DEF AfterKey
<1>6. ASSUME NEW d \in Callers, NEW fine, NEW pc \in {"decide", "depth", "first"}, TakeIf(d, fine, pc) PROVE FALSE
  <2>1. CASE call' = [call EXCEPT ![d].pc = pc, ![d].seen = Loaded(d), ![d].at = call[d].req.id]
    <3>1. c = d
      BY <1>1, <2>1
    <3>2. call'[c].pc = pc
      BY <1>1, <2>1, <3>1 DEF CallStates
    <3>. QED BY <3>2
  <2>. QED BY <1>2, <1>6, <2>1 DEF TakeIf
<1>7. ASSUME NEW d \in Callers, FindKey(d) PROVE FALSE
  BY <1>2, <1>4, <1>7 DEF FindKey
<1>8. ASSUME NEW d \in Callers, GetPrior(d)
      PROVE  d = c /\ call'[c].req = call[c].req /\ Unchanged
             /\ call'[c].pc = "capacity" /\ call[c].req.supersedes = None
  <2>1. CASE call' = [call EXCEPT ![d].expected = entries[call[d].req.id].version,
                        ![d].pc = IF call[d].req.supersedes = None THEN "capacity" ELSE "precedence"]
    <3>1. c = d
      BY <1>1, <2>1
    <3>2. /\ call'[c].pc = IF call[c].req.supersedes = None THEN "capacity" ELSE "precedence"
          /\ call'[c].req = call[c].req
      BY <1>1, <2>1, <3>1 DEF CallStates
    <3>. QED BY <1>8, <3>1, <3>2 DEF GetPrior
  <2>. QED BY <1>2, <1>8, <2>1 DEF GetPrior
<1>9. ASSUME NEW d \in Callers, CheckPrecedence(d) \/ ApplyAppend(d) PROVE d = c
  BY <1>1, <1>9, <1>2 DEF CheckPrecedence, ApplyAppend, Goes, Lose, Return
<1>10. ASSUME NEW d \in Callers, CheckCapacity(d)
       PROVE  d = c /\ call'[c].req = call[c].req /\ Unchanged
              /\ call'[c].pc = "apply" /\ call[c].pc = "capacity"
  BY <1>2, <1>4, <1>10 DEF CheckCapacity
<1>11. ASSUME NEW d \in Callers, MarkLoad(d)
       PROVE  d = c /\ call'[c].req = call[c].req /\ Unchanged
              /\ call'[c].pc = "mark" /\ call[c].pc = "markLoad"
  <2>1. CASE call' = [call EXCEPT ![d].pc = "mark", ![d].seen = entries[call[d].req.supersedes]]
    <3>1. c = d
      BY <1>1, <2>1
    <3>2. call'[c].pc = "mark" /\ call'[c].req = call[c].req
      BY <1>1, <2>1, <3>1 DEF CallStates
    <3>. QED BY <1>11, <3>1, <3>2 DEF MarkLoad
  <2>. QED BY <1>2, <1>11, <2>1 DEF MarkLoad
<1>12. ASSUME NEW d \in Callers, WalkChain(d) PROVE FALSE
  <2>1. call[d].pc = "depth"
    BY <1>12 DEF WalkChain
  <2>2. ASSUME NEW next, call' = [call EXCEPT ![d].at = next, ![d].depth = call[d].depth + 1] PROVE FALSE
    <3>1. c = d
      BY <1>1, <2>2
    <3>2. call'[c].pc = "depth"
      BY <1>1, <2>1, <2>2, <3>1 DEF CallStates
    <3>. QED BY <3>2
  <2>3. ASSUME NEW r,
               call' = [call EXCEPT ![d] = [@ EXCEPT !.pc = "prior", !.at = None, !.depth = 0, !.seen = NoEntry, !.req = r]]
        PROVE  FALSE
    <3>1. c = d
      BY <1>1, <2>3
    <3>2. call'[c].pc = "prior"
      BY <1>1, <2>3, <3>1 DEF CallStates
    <3>. QED BY <3>2
  <2>. QED BY <1>2, <1>12, <2>2, <2>3 DEF WalkChain
<1>13. ASSUME NEW d \in Callers,
              \/ Refuse(d) \/ Mark(d) \/ Read(d) \/ ApplyDecision(d) \/ Query(d)
       PROVE  FALSE
  BY <1>2, <1>13 DEF Refuse, Mark, Read, ApplyDecision, Query, Lose
<1>14. ASSUME NEW d \in Callers, WriteMarker(d) \/ Bury(d) PROVE FALSE
  BY <1>2, <1>4, <1>14 DEF WriteMarker, Bury, AfterWrite, Lose
<1>15. ASSUME NEW d \in Callers, LoadCandidate(d) \/ LoadPredecessor(d) \/ LoadDoomed(d) PROVE FALSE
  BY <1>6, <1>15 DEF LoadCandidate, LoadPredecessor, LoadDoomed
<1>. QED
  BY <1>5, <1>7, <1>8, <1>9, <1>10, <1>11, <1>12, <1>13, <1>14, <1>15 DEF Next, Close

\* Every step leaves every call cleared.
LEMMA AllAreCleared ==
  ASSUME Inv, PrecedenceInv, Next, Quiet \/ Writes, NEW c \in Callers, NEW k, k = call'[c], k \in CallStates
  PROVE  Cleared(k)'
<1>1. call[c] \in CallStates /\ HasArguments(call[c]) /\ Cleared(call[c])
  BY DEF Inv, TypeInv, PrecedenceInv
<1>2. ASSUME Cleared(k), k.pc \in {"capacity", "apply", "markLoad", "mark"},
             Unchanged PROVE Cleared(k)'
  BY <1>2 DEF Cleared, Settled, Once, Creations, EventsOf, Unchanged
<1>3. CASE k = call[c]
  BY <1>1, <1>3, ClearedStays
<1>4. CASE k.pc \notin {"capacity", "apply", "markLoad", "mark"}
  BY <1>4 DEF Cleared
<1>5. CASE ApplyAppend(c)
  BY <1>5, StoredIsCleared
<1>6. CASE CheckPrecedence(c) /\ k.pc \in {"capacity", "apply", "markLoad", "mark"}
  BY <1>2, <1>6, CheckedIsCleared DEF CheckPrecedence
<1>7. CASE /\ k.req = call[c].req /\ Unchanged /\ k.pc \in {"capacity", "apply", "markLoad", "mark"}
           /\ \/ k.pc = "capacity" /\ call[c].req.supersedes = None
              \/ k.pc = "apply" /\ call[c].pc = "capacity"
              \/ k.pc = "mark" /\ call[c].pc = "markLoad"
  BY <1>1, <1>2, <1>7 DEF Cleared
<1>. QED BY <1>3, <1>4, <1>5, <1>6, <1>7, WaysBetween

\* Only a mark is recorded as one.
LEMMA OnlyMarksMark ==
  ASSUME Inv, Next, NEW q, NEW e, NEW ev, Lawful(q, e, ev), ev.kind = "superseded"
  PROVE  \E c \in Callers : Mark(c)
<1>1. journal \in Seq(Events) /\ ev \in Events /\ journal' = Append(journal, ev)
  BY DEF Inv, TypeInv, Lawful
<1>2. journal' # journal /\ journal'[Len(journal) + 1].kind = "superseded"
  BY <1>1
<1>3. ASSUME NEW x, NEW expected, NEW kind, NEW of, Apply(x, expected, kind, of) PROVE kind = "superseded"
  <2>1. journal' = Append(journal, [id |-> x.record.id, kind |-> kind, version |-> x.version, of |-> of])
    BY <1>3 DEF Apply
  <2>2. journal'[Len(journal) + 1] = [id |-> x.record.id, kind |-> kind, version |-> x.version, of |-> of]
    BY <1>1, <2>1
  <2>. QED BY <1>2, <2>2
<1>4. PICK c \in Callers :
        \/ ApplyAppend(c) \/ Mark(c) \/ ApplyDecision(c) \/ WriteMarker(c) \/ Bury(c)
  BY <1>2 DEF Next, Start, Refuse, FindKey, GetPrior, CheckPrecedence, CheckCapacity, MarkLoad, Read,
              LoadCandidate, LoadPredecessor, LoadDoomed, TakeIf, WalkChain, Query, Close, Unchanged
<1>5. ~Unchanged
  BY <1>2 DEF Unchanged
<1>6. ~ApplyAppend(c)
  BY <1>3, <1>5 DEF ApplyAppend, Lose
<1>7. ~ApplyDecision(c)
  BY <1>3, <1>5 DEF ApplyDecision, Lose
<1>8. ~WriteMarker(c) /\ ~Bury(c)
  BY <1>3, <1>5 DEF WriteMarker, Bury, Lose
<1>. QED BY <1>4, <1>6, <1>7, <1>8

\* Every step keeps precedence for the records that were replaced.
LEMMA ReplacedStays ==
  ASSUME Inv, PrecedenceInv, Next, Quiet \/ Writes, NEW r \in Ids PROVE Replaced(r)'
<1>1. CASE Quiet
  BY <1>1 DEF Quiet, PrecedenceInv, Replaced, Once, Creations, EventsOf
<1>2. ASSUME NEW q, NEW e, NEW ev, Lawful(q, e, ev) PROVE Replaced(r)'
  <2>a. entries \in [Ids -> Entries] /\ \A x \in Ids : entries'[x] = IF x = q THEN e ELSE entries[x]
    BY <1>2, LawfulChange DEF Inv, TypeInv
  <2>b. q \in Ids /\ \A x \in Ids : Creations(x) \subseteq Creations(x)'
    BY <1>2, LawfulChange
  <2>1. CASE entries'[r].supersededBy = None
    BY <2>1 DEF Replaced
  <2>2. CASE entries'[r].supersededBy = entries[r].supersededBy /\ entries[r].supersededBy # None
    <3>. DEFINE by == entries[r].supersededBy
    <3>1. by \in Ids
      BY <2>a, <2>2 DEF Entries
    <3>2. entries[r] # NoEntry /\ entries[by] # NoEntry
      BY <2>2 DEF PrecedenceInv, Replaced
    <3>3. /\ Settled(r, {entries[r].record.variant})
          /\ Settled(by, {entries[by].record.variant})
      BY <3>2 DEF Settled
    <3>4. PICK v, w : v = entries[r].record.variant /\ w = entries[by].record.variant
      OBVIOUS
    <3>5. PICK b : b = by
      OBVIOUS
    <3>6. Settled(r, {v})' /\ Settled(b, {w})'
      BY <3>1, <3>3, <3>4, <3>5, SettledStays
    <3>7. Once(r)' /\ Once(b)' => Once(r) /\ Once(b)
      BY <2>b, <3>1, <3>5 DEF Once
    <3>. QED BY <2>2, <3>1, <3>4, <3>5, <3>6, <3>7 DEF Replaced, Settled, PrecedenceInv
  <2>3. CASE r = q /\ ev.kind = "superseded"
    <3>1. PICK c \in Callers : Mark(c)
      BY <1>2, <2>3, OnlyMarksMark
    <3>2. /\ call[c] \in CallStates /\ HasArguments(call[c]) /\ call[c].pc = "mark" /\ Cleared(call[c])
          /\ Backed(call[c]) /\ TypeInv
      BY <3>1 DEF Inv, TypeInv, Mark, PrecedenceInv
    <3>3. PICK x : x = call[c].req
      OBVIOUS
    <3>4. x.id \in Ids /\ x.supersedes \in Ids /\ x.supersedes # None /\ x \in Asked /\ call[c].seen \in Entries
      BY <3>2, <3>3, MemoryAssumption DEF HasArguments, CallStates
    <3>5. PICK m : m = Superseded(call[c].seen, x.id)
      OBVIOUS
    <3>6. m \in Entries /\ m.supersededBy = x.id /\ m.record.id = x.supersedes
      <4>1. m = [call[c].seen EXCEPT !.version = call[c].seen.version + 1, !.supersededBy = x.id] /\ m \in Entries
        BY <3>4, <3>5, EntryTypes
      <4>2. call[c].seen.record.id = x.supersedes
        BY <3>2, <3>3 DEF Backed, Snapshot
      <4>. QED BY <3>4, <4>1, <4>2 DEF Entries
    <3>7. ~Unchanged
      <4>1. journal \in Seq(Events) /\ ev \in Events /\ journal' = Append(journal, ev)
        BY <1>2 DEF Inv, TypeInv, Lawful
      <4>2. journal' # journal
        BY <4>1
      <4>. QED BY <4>2 DEF Unchanged
    <3>8. Apply(m, call[c].seen.version, "superseded", x.id)
      BY <3>1, <3>3, <3>5, <3>7 DEF Mark, Lose
    <3>9. entries' = [entries EXCEPT ![x.supersedes] = m]
      BY <3>6, <3>8 DEF Apply
    <3>10. x.supersedes = q
      <4>1. journal' = Append(journal, [id |-> m.record.id, kind |-> "superseded", version |-> m.version, of |-> x.id])
        BY <3>8 DEF Apply
      <4>2. journal \in Seq(Events) /\ ev \in Events /\ journal' = Append(journal, ev) /\ ev.id = q
        BY <1>2 DEF Inv, TypeInv, Lawful
      <4>3. /\ journal'[Len(journal) + 1] = ev
            /\ journal'[Len(journal) + 1] = [id |-> m.record.id, kind |-> "superseded", version |-> m.version, of |-> x.id]
        BY <4>1, <4>2
      <4>4. ev.id = m.record.id
        BY <4>3
      <4>. QED BY <3>6, <4>2, <4>4
    <3>11. entries'[r] = m
      BY <2>3, <2>a, <3>4, <3>9, <3>10
    <3>12. /\ Settled(x.id, {x.variant})
           /\ x.variant = "candidate" => Settled(r, Variants \ {"explicit"})
      BY <2>3, <3>2, <3>3, <3>4, <3>10 DEF Cleared
    <3>13. /\ Settled(x.id, {x.variant})'
           /\ x.variant = "candidate" => Settled(r, Variants \ {"explicit"})'
      BY <3>4, <3>12, SettledStays
    <3>14. entries'[r] # NoEntry
      BY <1>2, <2>3, <2>a, LawfulChange
    <3>15. entries'[r].supersededBy = x.id
      BY <3>6, <3>11
    <3>. QED BY <3>13, <3>14, <3>15 DEF Replaced, Settled
  <2>. QED BY <1>2, <2>a, <2>1, <2>2, <2>3, LawfulChange
<1>. QED BY <1>1, <1>2 DEF Writes

\* Nothing is replaced at first, and every step keeps what precedence rests on.
LEMMA PrecedenceInvStep ==
  /\ Init => PrecedenceInv
  /\ Inv /\ PrecedenceInv /\ [Next]_vars => PrecedenceInv'
<1>1. ASSUME Init PROVE PrecedenceInv
  <2>1. NoEntry.supersededBy = None /\ Idle.pc = "idle"
    BY DEF NoEntry, Idle
  <2>. QED BY <1>1, <2>1 DEF Init, PrecedenceInv, Replaced, Cleared
<1>2. ASSUME Inv, PrecedenceInv, [Next]_vars PROVE PrecedenceInv'
  <2>1. CASE UNCHANGED <<entries, byKey, journal, call>>
    BY <1>2, <2>1 DEF PrecedenceInv, Replaced, Cleared, Settled, Once, Creations, EventsOf
  <2>2. ASSUME NEW d \in Callers, Good(d), Next PROVE PrecedenceInv'
    <3>1. Quiet \/ Writes
      BY <2>2 DEF Good
    <3>2. \A r \in Ids : entries'[r] # NoEntry => Creations(r)' # {}
      BY <1>2, <3>1, CreatedStays
    <3>3. \A r \in Ids : Replaced(r)'
      BY <1>2, <2>2, <3>1, ReplacedStays
    <3>4. ASSUME NEW c \in Callers PROVE Cleared(call[c])'
      <4>1. PICK k : k = call'[c]
        OBVIOUS
      <4>2. k \in CallStates
        BY <1>2, <4>1, InvHolds DEF Inv, TypeInv
      <4>3. Cleared(k)'
        BY <1>2, <2>2, <3>1, <4>1, <4>2, AllAreCleared
      <4>. QED BY <4>1, <4>3
    <3>. QED BY <3>2, <3>3, <3>4 DEF PrecedenceInv
  <2>. QED BY <1>2, <2>1, <2>2, StepCases DEF vars
<1>. QED BY <1>1, <1>2

\* An inferred candidate never replaces what the user stated, whatever runs
\* between the check of precedence and the mark, as long as neither record is
\* brought back as something else in between.
THEOREM PrecedenceIsKept == Spec => []ExplicitBeatsInferred
<1>1. Inv /\ PrecedenceInv => ExplicitBeatsInferred
  <2>1. ASSUME Inv, NEW r, NeverBroughtBack(r) PROVE Once(r)
    <3>1. journal \in Seq(Events)
      BY <2>1 DEF Inv, TypeInv
    <3>2. DOMAIN journal = 1 .. Len(journal) /\ Len(journal) \in Nat
      BY <3>1
    <3>3. IsFiniteSet(Creations(r))
      <4>1. IsFiniteSet(1 .. Len(journal))
        BY <3>2, FS_Interval
      <4>2. Creations(r) \subseteq 1 .. Len(journal)
        BY <3>2 DEF Creations, EventsOf
      <4>. QED BY <4>1, <4>2, FS_Subset
    <3>4. PICK x : Creations(r) = {x}
      BY <2>1, <3>3, FS_Singleton DEF NeverBroughtBack
    <3>. QED BY <3>4 DEF Once
  <2>. QED BY <2>1 DEF ExplicitBeatsInferred, PrecedenceInv, Replaced
<1>. QED BY <1>1, PrecedenceInvStep, InvAlways, PTL DEF Spec
=============================================================================
