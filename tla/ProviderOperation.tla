------------------------- MODULE ProviderOperation -------------------------
(***************************************************************************)
(* One provider operation: the controller of                               *)
(* packages/providers/src/operation.ts, which an adapter drives and a      *)
(* caller may cancel, its bounded event buffer, and the consumer that      *)
(* reads the stream through guardProviderOperation and its validator       *)
(* (events.ts).  Calls of the controller are synchronous and atomic; the   *)
(* consumer runs between them.                                             *)
(*                                                                         *)
(* An event is its sequence number, its time, its kind and its canonical   *)
(* size.  What the code cannot rule out by itself is modelled and          *)
(* recorded in `spoiled': a builder that throws or returns a terminal      *)
(* kind, a clock that steps back, an observer or a cancel handler that     *)
(* throws.  Usage totals are the adapter's own and are left out.           *)
(***************************************************************************)
EXTENDS Integers, Sequences, FiniteSets, FiniteSetsExt

CONSTANTS
  MaxBuffered,     \* MAX_BUFFERED_EVENTS
  MaxBytes,        \* MAX_BUFFERED_EVENT_CANONICAL_BYTES
  Reserve,         \* TERMINAL_EVENT_CANONICAL_BYTE_RESERVE
  CompactAt,       \* 1_024, the head from which the array is compacted
  EventBytes,      \* sizes of the events an adapter builds, terminal or not
  FailedBytes,     \* size of the controller's own failure event
  CancelledBytes,  \* size of the cancelled event
  Handlers,        \* cancel handlers an adapter may register
  MaxSequence,     \* bound: the last sequence number handed out
  MaxTime          \* bound: the latest reading of the clock

ASSUME OperationAssumption ==
  /\ MaxBuffered \in Nat \ {0} /\ MaxBytes \in Nat /\ Reserve \in 0 .. MaxBytes
  /\ CompactAt \in Nat \ {0}
  /\ EventBytes \subseteq Nat
  /\ FailedBytes \in 0 .. Reserve /\ CancelledBytes \in 0 .. Reserve
  /\ MaxSequence \in Nat /\ MaxTime \in Nat

VARIABLES
  sequence,   \* sequence
  terminal,   \* terminalKind
  reason,     \* whether cancellationReason is set
  slots,      \* buffered
  head,       \* bufferHead
  unread,     \* unreadEventCount
  bytes,      \* bufferedCanonicalBytes
  result,     \* the result promise
  handlers,   \* cancelHandlers
  told,       \* handlers that were called
  reader,     \* the consumer: reading, parked in waiters, ended or refused
  expected,   \* validator.expectedSequence
  lastAt,     \* validator.lastOccurredAt
  seen,       \* validator.terminal
  now,        \* clock.now()
  spoiled     \* history: what went wrong outside the controller

buffer    == <<slots, head, unread, bytes>>
outcome   == <<terminal, result>>
cancelled == <<reason, handlers, told>>
validator == <<expected, lastAt, seen>>
vars == <<sequence, outcome, cancelled, buffer, reader, validator, now, spoiled>>

None == "none"
Completed == "operation-completed"
Failed    == "operation-failed"
Cancelled == "operation-cancelled"
TerminalKinds == {Completed, Failed, Cancelled}

Event(kind, size) == [seq |-> sequence, at |-> now, kind |-> kind, bytes |-> size]
Gone == [seq |-> 0, at |-> 0, kind |-> "gone", bytes |-> 0]

Init ==
  /\ sequence = 1 /\ terminal = None /\ reason = "unset"
  /\ slots = <<>> /\ head = 0 /\ unread = 0 /\ bytes = 0
  /\ result = "pending"
  /\ handlers = {} /\ told = {}
  /\ reader = "reading" /\ expected = 1 /\ lastAt = 0 /\ seen = None
  /\ now = 0 /\ spoiled = {}

-----------------------------------------------------------------------------
\* nextBase
NextBase == sequence <= MaxSequence /\ sequence' = sequence + 1

\* Mutated form of Wake: the waiters are left alone.
WakeNobody == reader

\* wakeStreamConsumers
Wake == IF reader = "parked" THEN "reading" ELSE reader

\* enqueue
Enqueue(e) ==
  /\ slots' = Append(slots, e)
  /\ unread' = unread + 1
  /\ bytes' = bytes + e.bytes
  /\ reader' = Wake
  /\ UNCHANGED head

\* settleTerminal and the settlement of the result: an observer that throws
\* keeps the result from being settled.
Settle(kind, settled, throws) ==
  /\ terminal' = kind
  /\ result' = IF throws THEN result ELSE settled
  /\ spoiled' = IF throws THEN spoiled \cup {"observer"} ELSE spoiled

\* overflow: the event is replaced by the controller's own failure event, for
\* which push has kept room.
Overflow(e, throws) ==
  IF FailedBytes <= Reserve /\ unread + 1 <= MaxBuffered /\ bytes + FailedBytes <= MaxBytes
    THEN /\ Enqueue([e EXCEPT !.kind = Failed, !.bytes = FailedBytes])
         /\ Settle(Failed, "rejected", throws)
    ELSE UNCHANGED <<buffer, reader, outcome, spoiled>>

\* Mutated form of Fits: nothing is kept back for the terminal event.
FitsExactly(e) == unread + 1 <= MaxBuffered /\ bytes + e.bytes <= MaxBytes

\* push: ordinary events leave room for a terminal one.
Fits(e) ==
  IF e.kind \in TerminalKinds
    THEN unread + 1 <= MaxBuffered /\ bytes + e.bytes <= MaxBytes
    ELSE unread + 1 <= MaxBuffered - 1 /\ bytes + e.bytes <= MaxBytes - Reserve

\* emit
Emit(size, throws) ==
  LET e == Event("event", size) IN
  /\ terminal = None
  /\ NextBase
  /\ IF Fits(e) THEN Enqueue(e) /\ UNCHANGED <<outcome, spoiled>> ELSE Overflow(e, throws)
  /\ UNCHANGED <<cancelled, validator, now>>

\* emit, complete or fail whose builder throws, and emit of a terminal kind:
\* a sequence number is gone.  cancel has noted its reason by then.
BuildFails(noted) ==
  /\ terminal = None
  /\ NextBase
  /\ reason' = noted
  /\ spoiled' = spoiled \cup {"build"}
  /\ UNCHANGED <<outcome, handlers, told, buffer, reader, validator, now>>

\* complete and fail
Conclude(kind, settled, size, throws) ==
  LET e == Event(kind, size) IN
  /\ terminal = None
  /\ NextBase
  /\ IF Fits(e) THEN Enqueue(e) /\ Settle(kind, settled, throws) ELSE Overflow(e, throws)
  /\ UNCHANGED <<cancelled, validator, now>>

Complete(size, throws) == Conclude(Completed, "resolved", size, throws)
Fail(size, throws)     == Conclude(Failed, "rejected", size, throws)

\* Mutated form of Cancel: a terminal outcome is not looked at.
CancelAnyway(throws, reached) ==
  LET e == Event(Cancelled, CancelledBytes) IN
  /\ NextBase
  /\ reason' = "set"
  /\ Fits(e) /\ Enqueue(e)
  /\ terminal' = Cancelled /\ result' = "rejected"
  /\ told' = told \cup reached /\ handlers' = {}
  /\ reached = handlers /\ ~ throws
  /\ UNCHANGED <<validator, now, spoiled>>

\* cancel: the handlers are called one after the other, until one throws.
Cancel(throws, reached) ==
  LET e == Event(Cancelled, CancelledBytes) IN
  /\ terminal = None
  /\ NextBase
  /\ reason' = "set"
  /\ IF ~ Fits(e) THEN Overflow(e, throws) /\ UNCHANGED <<handlers, told>>
     ELSE /\ Enqueue(e)
          /\ terminal' = Cancelled
          /\ IF throws
               THEN /\ spoiled' = spoiled \cup {"observer"}
                    /\ UNCHANGED <<result, handlers, told>>
               ELSE /\ result' = "rejected"
                    /\ told' = told \cup reached
                    /\ handlers' = {}
                    /\ spoiled' = IF reached = handlers THEN spoiled
                                  ELSE spoiled \cup {"handler"}
  /\ UNCHANGED <<validator, now>>

\* Mutated form of OnCancel: a handler that comes too late is queued.
OnCancelQueued(h) ==
  /\ h \notin handlers \cup told
  /\ handlers' = handlers \cup {h}
  /\ UNCHANGED <<sequence, outcome, reason, told, buffer, reader, validator, now, spoiled>>

\* onCancel
OnCancel(h) ==
  /\ h \notin handlers \cup told
  /\ IF reason = "set"
       THEN told' = told \cup {h} /\ UNCHANGED handlers
       ELSE handlers' = handlers \cup {h} /\ UNCHANGED told
  /\ UNCHANGED <<sequence, outcome, reason, buffer, reader, validator, now, spoiled>>

-----------------------------------------------------------------------------
\* next: entries that were read are dropped once they are half of the array.
Compact(s, h) ==
  IF h >= CompactAt /\ h * 2 >= Len(s)
    THEN slots' = SubSeq(s, h + 1, Len(s)) /\ head' = 0
    ELSE slots' = s /\ head' = h

\* validator.check and the comparison of guardProviderOperation with the
\* settlement of the result.
Accepts(e) ==
  /\ seen = None
  /\ e.seq = expected
  /\ e.at >= lastAt
  /\ e.kind = Completed => result # "rejected"
  /\ e.kind \in {Failed, Cancelled} => result # "resolved"

\* next returns an event, and the guard looks at it.
Take ==
  LET e == slots[head + 1] IN
  /\ reader = "reading" /\ unread > 0
  /\ Compact([slots EXCEPT ![head + 1] = Gone], head + 1)
  /\ unread' = unread - 1
  /\ bytes' = bytes - e.bytes
  /\ reader' = IF Accepts(e) THEN "reading" ELSE "refused"
  /\ expected' = expected + 1
  /\ lastAt' = e.at
  /\ seen' = IF e.kind \in TerminalKinds THEN e.kind ELSE seen
  /\ UNCHANGED <<sequence, outcome, cancelled, now, spoiled>>

\* next finds nothing: the stream is over, or the call waits.
TakeNothing ==
  /\ reader = "reading" /\ unread = 0
  /\ reader' = IF terminal = None THEN "parked"
               ELSE IF seen = None THEN "refused" ELSE "ended"
  /\ UNCHANGED <<sequence, outcome, cancelled, buffer, validator, now, spoiled>>

\* The clock of the controller moves, sometimes back.
Tick(t) ==
  /\ t # now
  /\ now' = t
  /\ spoiled' = IF t < now THEN spoiled \cup {"clock"} ELSE spoiled
  /\ UNCHANGED <<sequence, outcome, cancelled, buffer, reader, validator>>

Read == Take \/ TakeNothing

Next ==
  \/ \E size \in EventBytes, throws \in BOOLEAN :
       Emit(size, throws) \/ Complete(size, throws) \/ Fail(size, throws)
  \/ \E noted \in {reason, "set"} : BuildFails(noted)
  \/ \E throws \in BOOLEAN, reached \in SUBSET handlers : Cancel(throws, reached)
  \/ \E h \in Handlers : OnCancel(h)
  \/ Read
  \/ \E t \in 0 .. MaxTime : Tick(t)

Spec == Init /\ [][Next]_vars

\* The consumer keeps iterating.
LiveSpec == Spec /\ WF_vars(Read)

-----------------------------------------------------------------------------
\* The type of the controller, its buffer and its consumer.
TypeOK ==
  /\ sequence \in Nat /\ expected \in Nat /\ lastAt \in Nat /\ now \in Nat
  /\ terminal \in {None} \cup TerminalKinds /\ seen \in {None} \cup TerminalKinds
  /\ reason \in {"unset", "set"}
  /\ slots \in Seq([seq : Nat, at : Nat, kind : {"event", "gone"} \cup TerminalKinds,
                    bytes : Nat])
  /\ head \in Nat /\ head <= Len(slots) /\ unread = Len(slots) - head
  /\ bytes \in Int
  /\ result \in {"pending", "resolved", "rejected"}
  /\ handlers \subseteq Handlers /\ told \subseteq Handlers
  /\ reader \in {"reading", "parked", "ended", "refused"}
  /\ spoiled \subseteq {"build", "clock", "observer", "handler"}

\* The byte count is the size of what is unread, through every overflow and
\* every compaction, and never passes its limit.
BytesAreExact ==
  /\ bytes = MapThenSumSet(LAMBDA i : slots[i].bytes, head + 1 .. Len(slots))
  /\ bytes <= MaxBytes

\* While the operation runs there is room for the event that ends it: the
\* controller can always say that it failed.
RoomForTheEnd ==
  /\ unread <= MaxBuffered
  /\ terminal = None => unread < MaxBuffered /\ bytes + FailedBytes <= MaxBytes

\* Every stream the controller produces passes the consumer's validator and
\* agrees with the result, whatever is cancelled, overflows or is read late.
GuardAccepts == reader = "refused" => spoiled \cap {"build", "clock"} # {}

\* The result is settled exactly when the stream is, and the same way.
ResultAgrees ==
  "observer" \notin spoiled =>
    /\ terminal = None <=> result = "pending"
    /\ terminal = Completed <=> result = "resolved"

\* "The first terminal outcome wins every race."
FirstOutcomeWins ==
  [][terminal # None => terminal' = terminal /\ result' = result]_vars

\* Every handler hears of a cancellation, registered before or after it: a
\* full buffer never turns a cancellation into a failure nobody is told of.
CancelReachesHandlers ==
  reason = "set" /\ spoiled \cap {"build", "observer", "handler"} = {} => handlers = {}

\* No consumer sleeps while there is something to read or nothing to come.
NoLostWakeup == reader = "parked" => unread = 0 /\ terminal = None

\* A consumer that keeps reading comes to the end of every operation that ends.
StreamEnds == terminal # None ~> reader \in {"ended", "refused"}
=============================================================================
