--------------------------- MODULE ProviderProofs ---------------------------
(***************************************************************************)
(* Theorems about provider operations.                                     *)
(*                                                                         *)
(* ProviderOperation, for every buffer, every size of event and every      *)
(* number of cancel handlers: the invariant is about the unread entries,   *)
(* addressed from the head, where Enqueue adds one behind them, reading    *)
(* removes the first, and compaction moves none of them.                   *)
(*                                                                         *)
(* OpenAiProvider, for every number of calls, length of a response and     *)
(* bound on retries: the invariant is about the highest event number that  *)
(* was surfaced, and about who knows the response id.                      *)
(***************************************************************************)
EXTENDS ProviderOperation, OpenAiProvider, TLAPS

Kinds == {"event", "gone"} \cup TerminalKinds
Entry == [seq : Nat, at : Nat, kind : Kinds, bytes : Nat]

\* The i-th unread entry.
Unread(i) == slots[head + i]

\* A running operation keeps room for a terminal event.
RoomInv ==
  /\ unread <= MaxBuffered
  /\ terminal = None => unread <= MaxBuffered - 1 /\ bytes <= MaxBytes - Reserve

\* Only the last unread entry is terminal, and the consumer has seen a
\* terminal event or has one before it exactly when the operation has ended.
TerminalInv ==
  /\ \A i \in 1 .. unread : Unread(i).kind \in TerminalKinds => i = unread
  /\ terminal = None => seen = None
  /\ seen # None => seen = terminal /\ unread = 0
  /\ terminal = None => \A i \in 1 .. unread : Unread(i).kind \notin TerminalKinds
  /\ terminal # None /\ seen = None => unread > 0 /\ Unread(unread).kind = terminal

\* A settled result agrees with the terminal outcome.
ResultInv ==
  /\ result = "resolved" => terminal = Completed
  /\ result = "rejected" => terminal \in {Failed, Cancelled}

\* Nothing outside the controller has disturbed the numbering or the clock.
Undisturbed == spoiled \cap {"build", "clock"} = {}

\* The unread entries are numbered from what the validator expects, and their
\* times lie between the last one it saw and the clock.
OrderInv ==
  Undisturbed =>
    /\ sequence = expected + unread
    /\ lastAt <= now
    /\ \A i \in 1 .. unread :
         /\ Unread(i).seq = expected + i - 1
         /\ lastAt <= Unread(i).at /\ Unread(i).at <= now
    /\ \A i, j \in 1 .. unread : i <= j => Unread(i).at <= Unread(j).at

IInv ==
  /\ TypeOK /\ RoomInv /\ TerminalInv /\ ResultInv /\ OrderInv
  /\ NoLostWakeup /\ CancelReachesHandlers /\ GuardAccepts

-----------------------------------------------------------------------------
\* Enqueue puts its event behind the unread ones.
LEMMA EnqueueAppends ==
  ASSUME TypeOK, NEW e \in Entry, Enqueue(e)
  PROVE  /\ slots' \in Seq(Entry) /\ head' = head /\ Len(slots') = Len(slots) + 1
         /\ unread' = unread + 1 /\ bytes' = bytes + e.bytes /\ reader' = Wake
         /\ \A i \in 1 .. unread : Unread(i)' = Unread(i)
         /\ Unread(unread)' = e
<1> DEFINE n == Len(slots)
<1>1. slots \in Seq(Entry) /\ n \in Nat /\ head \in Nat /\ unread = n - head /\ unread \in Nat
  BY DEF TypeOK, Entry, Kinds
<1>2. slots' = Append(slots, e) /\ head' = head BY DEF Enqueue
<1>3. slots' \in Seq(Entry) /\ Len(slots') = n + 1 BY <1>1, <1>2
<1>4. \A k \in 1 .. n : slots'[k] = slots[k] BY <1>1, <1>2
<1>5. slots'[n + 1] = e BY <1>1, <1>2
<1>6. \A i \in 1 .. unread : Unread(i)' = Unread(i)
  BY <1>1, <1>2, <1>4 DEF Unread
<1>7. Unread(unread)' = e
  <2>1. head' + unread' = n + 1 BY <1>1, <1>2 DEF Enqueue
  <2> QED BY <1>5, <2>1 DEF Unread
<1> QED BY <1>2, <1>3, <1>6, <1>7 DEF Enqueue

\* Compaction moves the unread entries together, and changes none of them.
LEMMA CompactKeepsUnread ==
  ASSUME NEW s \in Seq(Entry), NEW h \in Nat, h <= Len(s), Compact(s, h)
  PROVE  /\ slots' \in Seq(Entry) /\ head' \in Nat /\ head' <= Len(slots')
         /\ Len(slots') - head' = Len(s) - h
         /\ \A i \in 1 .. (Len(s) - h) : Unread(i)' = s[h + i]
<1> DEFINE n == Len(s)
<1>0. n \in Nat OBVIOUS
<1>1. CASE h >= CompactAt /\ h * 2 >= n
  <2>1. slots' = SubSeq(s, h + 1, n) /\ head' = 0 BY <1>1 DEF Compact
  <2>2. slots' \in Seq(Entry) /\ Len(slots') = n - h BY <1>0, <2>1
  <2>3. \A i \in 1 .. n - h : slots'[i] = s[h + i] BY <1>0, <2>1
  <2> QED BY <1>0, <2>1, <2>2, <2>3 DEF Unread
<1>2. CASE ~ (h >= CompactAt /\ h * 2 >= n)
  BY <1>0, <1>2 DEF Compact, Unread
<1> QED BY <1>1, <1>2

-----------------------------------------------------------------------------
\* What an entry added by a running operation does to the invariant.
LEMMA PushKeepsInv ==
  ASSUME OperationAssumption, IInv, terminal = None,
         NEW e \in Entry, Enqueue(e), e.kind # "gone",
         e.seq = sequence, e.at = now, sequence' = sequence + 1,
         UNCHANGED <<validator, now>>,
         terminal' = IF e.kind \in TerminalKinds THEN e.kind ELSE None,
         spoiled \subseteq spoiled',
         e.kind \in TerminalKinds \/ Fits(e)
  PROVE  /\ slots' \in Seq(Entry) /\ head' \in Nat /\ head' <= Len(slots')
         /\ unread' = Len(slots') - head' /\ bytes' \in Int /\ sequence' \in Nat
         /\ reader' \in {"reading", "ended", "refused"}
         /\ RoomInv' /\ TerminalInv' /\ OrderInv' /\ NoLostWakeup' /\ GuardAccepts'
<1> USE DEF None, Completed, Failed, Cancelled, TerminalKinds
<1>1. /\ unread \in Nat /\ unread' = unread + 1 /\ expected \in Nat /\ sequence \in Nat /\ now \in Nat /\ lastAt \in Nat
      /\ \A i \in 1 .. unread : Unread(i)' = Unread(i)
      /\ Unread(unread)' = e
  BY EnqueueAppends DEF IInv, TypeOK
<1>2. seen = None /\ seen' = None /\ expected' = expected /\ lastAt' = lastAt /\ now' = now
  BY DEF IInv, TerminalInv, validator
<1>3. TerminalInv'
  <2>1. \A i \in 1 .. unread : Unread(i)'.kind \notin TerminalKinds
    BY <1>1 DEF IInv, TerminalInv
  <2>2. \A i \in 1 .. unread' : i = unread + 1 \/ i \in 1 .. unread BY <1>1
  <2>3. CASE e.kind \in TerminalKinds
    BY <1>1, <1>2, <2>1, <2>2, <2>3 DEF TerminalInv
  <2>4. CASE e.kind \notin TerminalKinds
    BY <1>1, <1>2, <2>1, <2>2, <2>4 DEF TerminalInv
  <2> QED BY <2>3, <2>4
<1>4. OrderInv'
  <2> SUFFICES ASSUME Undisturbed' PROVE OrderInv' BY DEF OrderInv
  <2>1. Undisturbed BY DEF Undisturbed
  <2>2. /\ sequence = expected + unread /\ lastAt <= now
        /\ \A i \in 1 .. unread : /\ Unread(i).seq = expected + i - 1
                                  /\ lastAt <= Unread(i).at /\ Unread(i).at <= now
        /\ \A i, j \in 1 .. unread : i <= j => Unread(i).at <= Unread(j).at
    BY <2>1 DEF IInv, OrderInv
  <2>3. \A i \in 1 .. unread' : i = unread + 1 \/ i \in 1 .. unread BY <1>1
  <2>4. \A i \in 1 .. unread' : /\ Unread(i)'.seq = expected + i - 1
                                /\ lastAt <= Unread(i)'.at /\ Unread(i)'.at <= now
    BY <1>1, <2>2, <2>3
  <2>5. \A i, j \in 1 .. unread' : i <= j => Unread(i)'.at <= Unread(j)'.at
    <3> SUFFICES ASSUME NEW i \in 1 .. unread', NEW j \in 1 .. unread', i <= j
                 PROVE  Unread(i)'.at <= Unread(j)'.at
      OBVIOUS
    <3>1. CASE j = unread + 1
      <4>1. Unread(j)'.at = now BY <1>1, <3>1
      <4> QED BY <4>1, <2>4
    <3>2. CASE j # unread + 1
      <4>1. i \in 1 .. unread /\ j \in 1 .. unread BY <1>1, <3>2
      <4> QED BY <4>1, <1>1, <2>2
    <3> QED BY <3>1, <3>2
  <2> QED BY <1>1, <1>2, <2>2, <2>4, <2>5 DEF OrderInv
<1>5. /\ slots' \in Seq(Entry) /\ head' \in Nat /\ head' <= Len(slots')
      /\ unread' = Len(slots') - head' /\ bytes' \in Int /\ bytes' = bytes + e.bytes
      /\ bytes \in Int /\ sequence' \in Nat
  <2>1. Len(slots) \in Nat /\ head \in Nat /\ head <= Len(slots) /\ bytes \in Int
        /\ unread = Len(slots) - head /\ e.bytes \in Nat
    BY DEF IInv, TypeOK, Entry
  <2>2. /\ slots' \in Seq(Entry) /\ head' = head /\ Len(slots') = Len(slots) + 1
        /\ unread' = unread + 1 /\ bytes' = bytes + e.bytes
    BY EnqueueAppends DEF IInv
  <2> QED BY <1>1, <2>1, <2>2
<1>6. RoomInv'
  BY <1>1, <1>5 DEF IInv, RoomInv, Fits, OperationAssumption
<1>7. reader' \in {"reading", "ended", "refused"} /\ (reader' = "refused" => reader = "refused")
  BY EnqueueAppends DEF IInv, TypeOK, Wake
<1>8. NoLostWakeup' BY <1>7 DEF NoLostWakeup
<1>9. GuardAccepts' BY <1>7 DEF IInv, GuardAccepts
<1> QED BY <1>3, <1>4, <1>5, <1>6, <1>7, <1>8, <1>9

\* The room that push keeps is enough: overflow can always end the operation.
LEMMA OverflowEnds ==
  ASSUME OperationAssumption, IInv, terminal = None,
         NEW e \in Entry, NEW throws \in BOOLEAN, Overflow(e, throws)
  PROVE  /\ Enqueue([e EXCEPT !.kind = Failed, !.bytes = FailedBytes])
         /\ Settle(Failed, "rejected", throws)
<1>1. unread + 1 <= MaxBuffered /\ bytes + FailedBytes <= MaxBytes /\ FailedBytes <= Reserve
  BY DEF IInv, RoomInv, TypeOK, OperationAssumption
<1> QED BY <1>1 DEF Overflow

\* The controller's own failure event, in the place of the event e.
LEMMA OverflowKeepsInv ==
  ASSUME OperationAssumption, IInv, terminal = None,
         NEW e \in Entry, NEW throws \in BOOLEAN, Overflow(e, throws),
         e.seq = sequence, e.at = now, sequence' = sequence + 1,
         UNCHANGED <<validator, now>>,
         reason' \in {"unset", "set"}, handlers' \subseteq Handlers, told' \subseteq Handlers,
         CancelReachesHandlers'
  PROVE  IInv'
<1> DEFINE f == [e EXCEPT !.kind = Failed, !.bytes = FailedBytes]
<1>1. f \in Entry /\ f.kind = Failed /\ f.seq = sequence /\ f.at = now
  <2>1. FailedBytes \in Nat /\ Failed \in Kinds
    BY DEF Kinds, TerminalKinds, OperationAssumption
  <2> QED BY <2>1 DEF Entry
<1>2. Enqueue(f) /\ Settle(Failed, "rejected", throws) BY OverflowEnds
<1>3. /\ terminal' = Failed /\ result' \in {result, "rejected"}
      /\ spoiled \subseteq spoiled' /\ spoiled' \subseteq spoiled \cup {"observer"}
  BY <1>2 DEF Settle
<1>4. /\ slots' \in Seq(Entry) /\ head' \in Nat /\ head' <= Len(slots')
      /\ unread' = Len(slots') - head' /\ bytes' \in Int /\ sequence' \in Nat
      /\ reader' \in {"reading", "ended", "refused"}
      /\ RoomInv' /\ TerminalInv' /\ OrderInv' /\ NoLostWakeup' /\ GuardAccepts'
  <2>1. f.kind # "gone" /\ f.kind \in TerminalKinds
    BY <1>1 DEF Failed, TerminalKinds
  <2> HIDE DEF f
  <2> QED BY <1>1, <1>2, <1>3, <2>1, PushKeepsInv
<1>5. TypeOK'
  BY <1>3, <1>4 DEF IInv, TypeOK, Entry, Kinds, TerminalKinds, validator
<1>6. ResultInv'
  BY <1>3 DEF IInv, ResultInv, None, Failed, Completed, Cancelled
<1> QED BY <1>4, <1>5, <1>6 DEF IInv

\* The record that nextBase and a builder make.
LEMMA EventIsEntry ==
  ASSUME TypeOK, NEW kind \in {"event"} \cup TerminalKinds, NEW size \in Nat
  PROVE  /\ Event(kind, size) \in Entry
         /\ Event(kind, size).seq = sequence /\ Event(kind, size).at = now
         /\ Event(kind, size).kind = kind /\ Event(kind, size).bytes = size
BY DEF Event, Entry, Kinds, TypeOK

-----------------------------------------------------------------------------
\* emit
LEMMA EmitKeepsInv ==
  ASSUME OperationAssumption, IInv, NEW size \in EventBytes, NEW throws \in BOOLEAN,
         Emit(size, throws)
  PROVE  IInv'
<1> DEFINE e == Event("event", size)
<1>0. /\ terminal = None /\ sequence' = sequence + 1 /\ UNCHANGED <<reason, handlers, told, validator, now>>
      /\ size \in Nat
  BY DEF Emit, NextBase, cancelled, OperationAssumption
<1>1. e \in Entry /\ e.seq = sequence /\ e.at = now /\ e.kind = "event"
  BY <1>0, EventIsEntry DEF IInv
<1>2. CASE Fits(e)
  <2>1. Enqueue(e) /\ UNCHANGED <<terminal, result, spoiled>> BY <1>2 DEF Emit, outcome
  <2>2. e.kind # "gone" /\ e.kind \notin TerminalKinds
    BY <1>1 DEF TerminalKinds, Completed, Failed, Cancelled
  <2> HIDE DEF e
  <2>3. /\ slots' \in Seq(Entry) /\ head' \in Nat /\ head' <= Len(slots')
        /\ unread' = Len(slots') - head' /\ bytes' \in Int /\ sequence' \in Nat
        /\ reader' \in {"reading", "ended", "refused"}
        /\ RoomInv' /\ TerminalInv' /\ OrderInv' /\ NoLostWakeup' /\ GuardAccepts'
    BY <1>0, <1>1, <1>2, <2>1, <2>2, PushKeepsInv
  <2>4. TypeOK' BY <1>0, <2>1, <2>3 DEF IInv, TypeOK, Entry, Kinds, validator
  <2>5. ResultInv' BY <2>1 DEF IInv, ResultInv
  <2>6. CancelReachesHandlers' BY <1>0, <2>1 DEF IInv, CancelReachesHandlers
  <2> QED BY <2>3, <2>4, <2>5, <2>6 DEF IInv
<1>3. CASE ~ Fits(e)
  <2>1. Overflow(e, throws) BY <1>3 DEF Emit
  <2> HIDE DEF e
  <2>2. spoiled \subseteq spoiled'
    BY <1>0, <1>1, <2>1, OverflowEnds DEF Settle
  <2>3. CancelReachesHandlers' BY <1>0, <2>2 DEF IInv, CancelReachesHandlers
  <2>4. reason' \in {"unset", "set"} /\ handlers' \subseteq Handlers /\ told' \subseteq Handlers
    BY <1>0 DEF IInv, TypeOK
  <2> QED BY <1>0, <1>1, <2>1, <2>3, <2>4, OverflowKeepsInv
<1> QED BY <1>2, <1>3

\* complete and fail
LEMMA ConcludeKeepsInv ==
  ASSUME OperationAssumption, IInv, NEW size \in EventBytes, NEW throws \in BOOLEAN,
         NEW kind \in {Completed, Failed}, NEW settled,
         settled = IF kind = Completed THEN "resolved" ELSE "rejected",
         Conclude(kind, settled, size, throws)
  PROVE  IInv'
<1> DEFINE e == Event(kind, size)
<1>0. /\ terminal = None /\ sequence' = sequence + 1 /\ UNCHANGED <<reason, handlers, told, validator, now>>
      /\ size \in Nat /\ kind \in TerminalKinds
  BY DEF Conclude, NextBase, cancelled, OperationAssumption, TerminalKinds
<1>1. e \in Entry /\ e.seq = sequence /\ e.at = now /\ e.kind = kind
  BY <1>0, EventIsEntry DEF IInv
<1>2. CASE Fits(e)
  <2>1. Enqueue(e) /\ Settle(kind, settled, throws) BY <1>2 DEF Conclude
  <2>2. e.kind # "gone" /\ e.kind \in TerminalKinds
    BY <1>1, <1>0 DEF TerminalKinds, Completed, Failed, Cancelled
  <2> HIDE DEF e
  <2>3. /\ terminal' = kind /\ result' \in {result, settled}
        /\ spoiled \subseteq spoiled' /\ spoiled' \subseteq spoiled \cup {"observer"}
    BY <2>1 DEF Settle
  <2>4. /\ slots' \in Seq(Entry) /\ head' \in Nat /\ head' <= Len(slots')
        /\ unread' = Len(slots') - head' /\ bytes' \in Int /\ sequence' \in Nat
        /\ reader' \in {"reading", "ended", "refused"}
        /\ RoomInv' /\ TerminalInv' /\ OrderInv' /\ NoLostWakeup' /\ GuardAccepts'
    BY <1>0, <1>1, <2>1, <2>2, <2>3, PushKeepsInv
  <2>5. TypeOK' BY <1>0, <2>3, <2>4 DEF IInv, TypeOK, Entry, Kinds, validator
  <2>6. ResultInv'
    BY <1>0, <2>3 DEF IInv, ResultInv, None, Failed, Completed, Cancelled
  <2>7. CancelReachesHandlers' BY <1>0, <2>3 DEF IInv, CancelReachesHandlers
  <2> QED BY <2>4, <2>5, <2>6, <2>7 DEF IInv
<1>3. CASE ~ Fits(e)
  <2>1. Overflow(e, throws) BY <1>3 DEF Conclude
  <2> HIDE DEF e
  <2>2. spoiled \subseteq spoiled'
    BY <1>0, <1>1, <2>1, OverflowEnds DEF Settle
  <2>3. CancelReachesHandlers' BY <1>0, <2>2 DEF IInv, CancelReachesHandlers
  <2>4. reason' \in {"unset", "set"} /\ handlers' \subseteq Handlers /\ told' \subseteq Handlers
    BY <1>0 DEF IInv, TypeOK
  <2> QED BY <1>0, <1>1, <2>1, <2>3, <2>4, OverflowKeepsInv
<1> QED BY <1>2, <1>3

\* cancel: the room kept for the end holds the cancelled event, so that a
\* cancellation never overflows.
LEMMA CancelKeepsInv ==
  ASSUME OperationAssumption, IInv, NEW throws \in BOOLEAN, NEW reached \in SUBSET handlers,
         Cancel(throws, reached)
  PROVE  IInv'
<1> DEFINE e == Event(Cancelled, CancelledBytes)
<1>0. /\ terminal = None /\ sequence' = sequence + 1 /\ UNCHANGED <<validator, now>>
      /\ reason' = "set" /\ CancelledBytes \in Nat /\ Cancelled \in TerminalKinds
  BY DEF Cancel, NextBase, OperationAssumption, TerminalKinds
<1>1. e \in Entry /\ e.seq = sequence /\ e.at = now /\ e.kind = Cancelled /\ e.bytes = CancelledBytes
  BY <1>0, EventIsEntry DEF IInv
<1>2. Fits(e)
  <2>1. unread + 1 <= MaxBuffered /\ bytes + CancelledBytes <= MaxBytes
    BY <1>0 DEF IInv, RoomInv, TypeOK, OperationAssumption
  <2> QED BY <1>0, <1>1, <2>1 DEF Fits
<1>3. /\ Enqueue(e) /\ terminal' = Cancelled /\ result' \in {result, "rejected"}
      /\ spoiled \subseteq spoiled' /\ spoiled' \subseteq spoiled \cup {"observer", "handler"}
      /\ handlers' \subseteq handlers /\ told' \subseteq told \cup handlers
      /\ handlers' = {} \/ "observer" \in spoiled'
  BY <1>2 DEF Cancel
<1>4. e.kind # "gone" /\ e.kind \in TerminalKinds
  BY <1>1, <1>0 DEF Cancelled
<1> HIDE DEF e
<1>5. /\ slots' \in Seq(Entry) /\ head' \in Nat /\ head' <= Len(slots')
      /\ unread' = Len(slots') - head' /\ bytes' \in Int /\ sequence' \in Nat
      /\ reader' \in {"reading", "ended", "refused"}
      /\ RoomInv' /\ TerminalInv' /\ OrderInv' /\ NoLostWakeup' /\ GuardAccepts'
  BY <1>0, <1>1, <1>3, <1>4, PushKeepsInv
<1>6. TypeOK' BY <1>0, <1>3, <1>5 DEF IInv, TypeOK, Entry, Kinds, validator
<1>7. ResultInv'
  BY <1>0, <1>3 DEF IInv, ResultInv, None, Failed, Completed, Cancelled
<1>8. CancelReachesHandlers' BY <1>3 DEF CancelReachesHandlers
<1> QED BY <1>5, <1>6, <1>7, <1>8 DEF IInv

-----------------------------------------------------------------------------
\* Steps that leave the buffer and the consumer alone.
LEMMA BufferUntouched ==
  ASSUME IInv, UNCHANGED <<buffer, outcome, reader, validator>>,
         spoiled \subseteq spoiled',
         Undisturbed' => UNCHANGED sequence /\ now <= now',
         now' \in Nat
  PROVE  RoomInv' /\ TerminalInv' /\ ResultInv' /\ OrderInv' /\ NoLostWakeup' /\ GuardAccepts'
<1>1. UNCHANGED <<slots, head, unread, bytes, terminal, result, reader, expected, lastAt, seen>>
  BY DEF buffer, outcome, validator
<1>2. \A i : Unread(i)' = Unread(i) BY <1>1 DEF Unread
<1>3. RoomInv' BY <1>1 DEF IInv, RoomInv
<1>4. TerminalInv'
  <2>1. Unread(unread)' = Unread(unread) BY <1>1 DEF Unread
  <2> QED BY <1>1, <1>2, <2>1 DEF IInv, TerminalInv
<1>5. ResultInv' BY <1>1 DEF IInv, ResultInv
<1>6. OrderInv'
  <2> SUFFICES ASSUME Undisturbed' PROVE OrderInv' BY DEF OrderInv
  <2>1. Undisturbed BY DEF Undisturbed
  <2>2. now \in Nat /\ lastAt \in Nat /\ (\A i \in 1 .. unread : Unread(i).at \in Nat)
    <3>1. slots \in Seq(Entry) /\ head \in Nat /\ unread = Len(slots) - head
      BY DEF IInv, TypeOK, Entry, Kinds
    <3>2. \A i \in 1 .. unread : Unread(i) \in Entry BY <3>1 DEF Unread
    <3> QED BY <3>2 DEF IInv, TypeOK, Entry
  <2>3. sequence' = sequence /\ now <= now' OBVIOUS
  <2> QED BY <1>1, <1>2, <2>1, <2>2, <2>3 DEF IInv, OrderInv
<1>7. NoLostWakeup' BY <1>1 DEF IInv, NoLostWakeup
<1>8. GuardAccepts' BY <1>1 DEF IInv, GuardAccepts
<1> QED BY <1>3, <1>4, <1>5, <1>6, <1>7, <1>8

\* next and the guard, on an event: numbered and timed as the validator
\* expects, it is refused only if something disturbed the stream.
LEMMA TakeKeepsInv ==
  ASSUME OperationAssumption, IInv, Take
  PROVE  IInv'
<1> DEFINE e == Unread(1)
           s == [slots EXCEPT ![head + 1] = Gone]
           n == Len(slots)
<1>1. /\ slots \in Seq(Entry) /\ n \in Nat /\ head \in Nat /\ unread = n - head /\ unread \in Nat
      /\ unread > 0 /\ bytes \in Int /\ expected \in Nat /\ lastAt \in Nat
  BY DEF IInv, TypeOK, Entry, Kinds, Take
<1>2. Gone \in Entry BY DEF Gone, Entry, Kinds
<1>3. s \in Seq(Entry) /\ Len(s) = n /\ \A k \in 1 .. n : k # head + 1 => s[k] = slots[k]
  BY <1>1, <1>2
<1>4. e \in Entry
  BY <1>1 DEF Unread
<1>5. /\ Compact(s, head + 1) /\ unread' = unread - 1 /\ bytes' = bytes - e.bytes
      /\ reader' = IF Accepts(e) THEN "reading" ELSE "refused"
      /\ expected' = expected + 1 /\ lastAt' = e.at
      /\ seen' = IF e.kind \in TerminalKinds THEN e.kind ELSE seen
      /\ reader = "reading"
      /\ UNCHANGED <<sequence, terminal, result, reason, handlers, told, now, spoiled>>
  BY DEF Take, Unread, outcome, cancelled
<1>6. /\ slots' \in Seq(Entry) /\ head' \in Nat /\ head' <= Len(slots')
      /\ Len(slots') - head' = n - (head + 1)
      /\ \A i \in 1 .. (n - (head + 1)) : Unread(i)' = s[head + 1 + i]
  <2>1. head + 1 \in Nat /\ head + 1 <= Len(s) BY <1>1, <1>3
  <2>2. /\ slots' \in Seq(Entry) /\ head' \in Nat /\ head' <= Len(slots')
        /\ Len(slots') - head' = Len(s) - (head + 1)
        /\ \A i \in 1 .. (Len(s) - (head + 1)) : Unread(i)' = s[(head + 1) + i]
    <3> HIDE DEF s
    <3> QED BY <1>3, <1>5, <2>1, CompactKeepsUnread
  <2> QED BY <1>3, <2>2
<1>7. \A i \in 1 .. unread' : i + 1 \in 1 .. unread /\ Unread(i)' = Unread(i + 1)
  <2> SUFFICES ASSUME NEW i \in 1 .. unread'
               PROVE  i + 1 \in 1 .. unread /\ Unread(i)' = Unread(i + 1)
    OBVIOUS
  <2>1. i \in 1 .. (n - (head + 1)) /\ i + 1 \in 1 .. unread BY <1>1, <1>5
  <2>2. Unread(i)' = s[head + 1 + i] BY <1>6, <2>1
  <2>3. s[head + 1 + i] = slots[head + (i + 1)] BY <1>1, <1>3, <2>1
  <2> QED BY <2>1, <2>2, <2>3 DEF Unread
<1> HIDE DEF e, s
<1>8. e.at \in Nat /\ e.bytes \in Nat /\ e.kind \in Kinds BY <1>4 DEF Entry
<1>9. TypeOK'
  <2>1. unread' = Len(slots') - head' /\ bytes' \in Int /\ expected' \in Nat /\ lastAt' \in Nat
    BY <1>1, <1>5, <1>6, <1>8
  <2>2. reader' \in {"reading", "refused"} /\ seen' \in {None} \cup TerminalKinds
    BY <1>5 DEF IInv, TypeOK
  <2> QED BY <1>5, <1>6, <2>1, <2>2 DEF IInv, TypeOK, Entry, Kinds
<1>10. RoomInv'
  <2>1. MaxBuffered \in Nat /\ MaxBytes \in Nat /\ Reserve \in Nat BY DEF OperationAssumption
  <2> QED BY <1>1, <1>5, <1>8, <2>1 DEF IInv, RoomInv
<1>11. seen = None BY <1>1 DEF IInv, TerminalInv
<1>12. TerminalInv'
  <2>0. e = Unread(1) BY DEF e
  <2>1. \A i \in 1 .. unread' : Unread(i)'.kind \in TerminalKinds => i = unread'
    BY <1>1, <1>5, <1>7 DEF IInv, TerminalInv
  <2>2. terminal' = None => seen' = None /\ \A i \in 1 .. unread' : Unread(i)'.kind \notin TerminalKinds
    BY <1>1, <1>5, <1>7, <1>11, <2>0 DEF IInv, TerminalInv
  <2>3. seen' # None => seen' = terminal' /\ unread' = 0
    <3> SUFFICES ASSUME seen' # None PROVE seen' = terminal' /\ unread' = 0 OBVIOUS
    <3>1. e.kind \in TerminalKinds /\ seen' = e.kind BY <1>5, <1>11
    <3>2. 1 = unread BY <1>1, <2>0, <3>1 DEF IInv, TerminalInv
    <3>3. terminal # None BY <1>1, <2>0, <3>1, <3>2 DEF IInv, TerminalInv
    <3>4. Unread(unread).kind = terminal BY <1>11, <3>3 DEF IInv, TerminalInv
    <3> QED BY <1>5, <2>0, <3>1, <3>2, <3>4
  <2>4. terminal' # None /\ seen' = None => unread' > 0 /\ Unread(unread)'.kind = terminal'
    <3> SUFFICES ASSUME terminal' # None, seen' = None
                 PROVE  unread' > 0 /\ Unread(unread)'.kind = terminal'
      OBVIOUS
    <3>1. e.kind \notin TerminalKinds
      BY <1>5 DEF None, TerminalKinds, Completed, Failed, Cancelled
    <3>2. Unread(unread).kind = terminal /\ terminal \in TerminalKinds
      BY <1>5, <1>11 DEF IInv, TerminalInv, TypeOK
    <3>3. unread # 1 BY <2>0, <3>1, <3>2
    <3>4. unread' \in 1 .. unread' /\ unread' + 1 = unread /\ unread' > 0 BY <1>1, <1>5, <3>3
    <3>5. Unread(unread)' = Unread(unread)
      <4>1. \A i \in 1 .. unread' : slots'[head' + i] = slots[head + (i + 1)]
        BY <1>7 DEF Unread
      <4>2. slots'[head' + unread'] = slots[head + (unread' + 1)] BY <3>4, <4>1
      <4> QED BY <3>4, <4>2 DEF Unread
    <3> QED BY <1>5, <3>2, <3>4, <3>5
  <2> QED BY <2>1, <2>2, <2>3, <2>4 DEF TerminalInv
<1>13. ResultInv' BY <1>5 DEF IInv, ResultInv
<1>14. Undisturbed => e.seq = expected /\ e.at >= lastAt
  <2>1. 1 \in 1 .. unread /\ e = Unread(1) BY <1>1 DEF e
  <2>2. Undisturbed => e.seq = expected + 1 - 1 /\ lastAt <= e.at
    BY <2>1 DEF IInv, OrderInv
  <2> QED BY <1>1, <1>8, <2>2
<1>15. OrderInv'
  <2> SUFFICES ASSUME Undisturbed' PROVE OrderInv' BY DEF OrderInv
  <2>1. Undisturbed BY <1>5 DEF Undisturbed
  <2>2. /\ sequence = expected + unread /\ lastAt <= now
        /\ \A i \in 1 .. unread : /\ Unread(i).seq = expected + i - 1
                                  /\ lastAt <= Unread(i).at /\ Unread(i).at <= now
        /\ \A i, j \in 1 .. unread : i <= j => Unread(i).at <= Unread(j).at
    BY <2>1 DEF IInv, OrderInv
  <2>3. 1 \in 1 .. unread /\ e = Unread(1) BY <1>1 DEF e
  <2>4. \A i \in 1 .. unread' : e.at <= Unread(i + 1).at
    BY <1>1, <1>7, <2>2, <2>3
  <2>5. \A i \in 1 .. unread' : /\ Unread(i)'.seq = expected' + i - 1
                                /\ lastAt' <= Unread(i)'.at /\ Unread(i)'.at <= now'
    BY <1>1, <1>5, <1>7, <2>2, <2>4
  <2>6. \A i, j \in 1 .. unread' : i <= j => Unread(i)'.at <= Unread(j)'.at
    BY <1>1, <1>5, <1>7, <2>2
  <2>7. sequence' = expected' + unread' /\ lastAt' <= now'
    <3>1. e.at <= now BY <2>2, <2>3
    <3>2. expected + unread = (expected + 1) + (unread - 1) BY <1>1
    <3> QED BY <1>5, <2>2, <3>1, <3>2
  <2> QED BY <2>5, <2>6, <2>7 DEF OrderInv
<1>16. NoLostWakeup' BY <1>5 DEF NoLostWakeup
<1>17. CancelReachesHandlers' BY <1>5 DEF IInv, CancelReachesHandlers
<1>18. GuardAccepts'
  <2>1. e.kind \in TerminalKinds => terminal = e.kind
    <3> SUFFICES ASSUME e.kind \in TerminalKinds PROVE terminal = e.kind OBVIOUS
    <3>1. 1 \in 1 .. unread /\ e = Unread(1) BY <1>1 DEF e
    <3>2. 1 = unread /\ terminal # None BY <3>1 DEF IInv, TerminalInv
    <3> QED BY <1>11, <3>1, <3>2 DEF IInv, TerminalInv
  <2>2. e.kind = Completed => result # "rejected"
    BY <2>1 DEF IInv, ResultInv, TerminalKinds, Completed, Failed, Cancelled
  <2>3. e.kind \in {Failed, Cancelled} => result # "resolved"
    BY <2>1 DEF IInv, ResultInv, TerminalKinds, Completed, Failed, Cancelled
  <2>4. Undisturbed => Accepts(e) BY <1>11, <1>14, <2>2, <2>3 DEF Accepts
  <2> QED BY <1>5, <2>4 DEF GuardAccepts, Undisturbed
<1> QED BY <1>9, <1>10, <1>12, <1>13, <1>15, <1>16, <1>17, <1>18 DEF IInv

-----------------------------------------------------------------------------
\* Every step preserves the invariant.
LEMMA StepKeepsInv ==
  ASSUME OperationAssumption, IInv, [Next]_vars
  PROVE  IInv'
<1>1. ASSUME NEW size \in EventBytes, NEW throws \in BOOLEAN, Emit(size, throws)
      PROVE  IInv'
  BY <1>1, EmitKeepsInv
<1>2. ASSUME NEW size \in EventBytes, NEW throws \in BOOLEAN, Complete(size, throws)
      PROVE  IInv'
  BY <1>2, ConcludeKeepsInv DEF Complete
<1>3. ASSUME NEW size \in EventBytes, NEW throws \in BOOLEAN, Fail(size, throws)
      PROVE  IInv'
  <2>1. Failed # Completed BY DEF Failed, Completed
  <2> QED BY <1>3, <2>1, ConcludeKeepsInv DEF Fail
<1>4. ASSUME NEW noted \in {reason, "set"}, BuildFails(noted)
      PROVE  IInv'
  <2>1. /\ UNCHANGED <<buffer, outcome, reader, validator, handlers, told, now>>
        /\ spoiled' = spoiled \cup {"build"} /\ sequence' = sequence + 1 /\ reason' = noted
    BY <1>4 DEF BuildFails, NextBase
  <2>2. ~ Undisturbed' /\ now' \in Nat BY <2>1 DEF Undisturbed, IInv, TypeOK
  <2>3. RoomInv' /\ TerminalInv' /\ ResultInv' /\ OrderInv' /\ NoLostWakeup' /\ GuardAccepts'
    BY <2>1, <2>2, BufferUntouched
  <2>4. TypeOK' BY <2>1 DEF IInv, TypeOK, buffer, outcome, validator
  <2>5. CancelReachesHandlers' BY <2>1 DEF CancelReachesHandlers
  <2> QED BY <2>3, <2>4, <2>5 DEF IInv
<1>5. ASSUME NEW throws \in BOOLEAN, NEW reached \in SUBSET handlers, Cancel(throws, reached)
      PROVE  IInv'
  BY <1>5, CancelKeepsInv
<1>6. ASSUME NEW h \in Handlers, OnCancel(h) PROVE IInv'
  <2>1. /\ UNCHANGED <<buffer, outcome, reader, validator, now, sequence, reason, spoiled>>
        /\ reason = "set" => UNCHANGED handlers
        /\ handlers' \subseteq handlers \cup {h} /\ told' \subseteq told \cup {h}
    BY <1>6 DEF OnCancel
  <2>2. now' \in Nat /\ now <= now' BY <2>1 DEF IInv, TypeOK
  <2>3. RoomInv' /\ TerminalInv' /\ ResultInv' /\ OrderInv' /\ NoLostWakeup' /\ GuardAccepts'
    BY <2>1, <2>2, BufferUntouched
  <2>4. TypeOK' BY <2>1 DEF IInv, TypeOK, buffer, outcome, validator
  <2>5. CancelReachesHandlers' BY <2>1 DEF IInv, CancelReachesHandlers
  <2> QED BY <2>3, <2>4, <2>5 DEF IInv
<1>7. CASE Take BY <1>7, TakeKeepsInv
<1>8. CASE TakeNothing
  <2>1. UNCHANGED <<sequence, terminal, result, reason, handlers, told, slots, head, unread,
                    bytes, expected, lastAt, seen, now, spoiled>>
    BY <1>8 DEF TakeNothing, outcome, cancelled, buffer, validator
  <2>2. reader = "reading" /\ unread = 0 /\ reader' \in {"parked", "refused", "ended"}
        /\ (reader' = "parked" => terminal = None)
        /\ (reader' = "refused" => terminal # None /\ seen = None)
    BY <1>8 DEF TakeNothing
  <2>3. reader' # "refused" BY <2>2 DEF IInv, TerminalInv
  <2>4. \A i : Unread(i)' = Unread(i) BY <2>1 DEF Unread
  <2>5. TypeOK' BY <2>1, <2>2 DEF IInv, TypeOK
  <2>6. RoomInv' /\ ResultInv' /\ NoLostWakeup' /\ CancelReachesHandlers' /\ GuardAccepts'
    BY <2>1, <2>2, <2>3
    DEF IInv, RoomInv, ResultInv, NoLostWakeup, CancelReachesHandlers, GuardAccepts
  <2>7. TerminalInv'
    <3>1. Unread(unread)' = Unread(unread) BY <2>1 DEF Unread
    <3> QED BY <2>1, <2>4, <3>1 DEF IInv, TerminalInv
  <2>8. OrderInv' BY <2>1, <2>4 DEF IInv, OrderInv, Undisturbed
  <2> QED BY <2>5, <2>6, <2>7, <2>8 DEF IInv
<1>9. ASSUME NEW t \in 0 .. MaxTime, Tick(t) PROVE IInv'
  <2>1. /\ UNCHANGED <<buffer, outcome, reader, validator, sequence, reason, handlers, told>>
        /\ now' = t /\ spoiled \subseteq spoiled'
        /\ spoiled' \subseteq spoiled \cup {"clock"} /\ (t < now => "clock" \in spoiled')
    BY <1>9 DEF Tick, cancelled
  <2>2. now' \in Nat /\ now \in Nat BY <2>1 DEF IInv, TypeOK, OperationAssumption
  <2>3. Undisturbed' => now <= now' BY <2>1, <2>2 DEF Undisturbed
  <2>4. RoomInv' /\ TerminalInv' /\ ResultInv' /\ OrderInv' /\ NoLostWakeup' /\ GuardAccepts'
    BY <2>1, <2>2, <2>3, BufferUntouched
  <2>5. TypeOK' BY <2>1, <2>2 DEF IInv, TypeOK, buffer, outcome, validator
  <2>6. CancelReachesHandlers' BY <2>1 DEF IInv, CancelReachesHandlers
  <2> QED BY <2>4, <2>5, <2>6 DEF IInv
<1>10. CASE UNCHANGED vars
  <2>1. UNCHANGED <<sequence, terminal, result, reason, handlers, told, buffer, outcome, reader,
                    validator, now, spoiled>>
    BY <1>10 DEF vars, outcome, cancelled
  <2>2. now' \in Nat /\ now <= now' BY <2>1 DEF IInv, TypeOK
  <2>3. RoomInv' /\ TerminalInv' /\ ResultInv' /\ OrderInv' /\ NoLostWakeup' /\ GuardAccepts'
    BY <2>1, <2>2, BufferUntouched
  <2>4. TypeOK' BY <2>1 DEF IInv, TypeOK, buffer, outcome, validator
  <2>5. CancelReachesHandlers' BY <2>1 DEF IInv, CancelReachesHandlers
  <2> QED BY <2>3, <2>4, <2>5 DEF IInv
<1> QED BY <1>1, <1>2, <1>3, <1>4, <1>5, <1>6, <1>7, <1>8, <1>9, <1>10 DEF Next, Read

\* The controller starts in the invariant.
LEMMA InitInv ==
  ASSUME OperationAssumption, Init
  PROVE  IInv
<1>1. unread = 0 /\ head = 0 /\ slots = <<>> /\ Len(slots) = 0 BY DEF Init
<1>2. TypeOK BY <1>1 DEF Init, TypeOK, None
<1>3. RoomInv BY DEF Init, RoomInv, OperationAssumption
<1>4. TerminalInv BY DEF Init, TerminalInv, None
<1>5. ResultInv /\ NoLostWakeup /\ CancelReachesHandlers /\ GuardAccepts
  BY DEF Init, ResultInv, NoLostWakeup, CancelReachesHandlers, GuardAccepts
<1>6. OrderInv BY DEF Init, OrderInv
<1> QED BY <1>2, <1>3, <1>4, <1>5, <1>6 DEF IInv

\* The invariant holds in every state an operation can be in.
THEOREM Invariance == Spec => []IInv
<1>1. Init => IInv BY OperationAssumption, InitInv
<1>2. IInv /\ [Next]_vars => IInv' BY OperationAssumption, StepKeepsInv
<1> QED BY <1>1, <1>2, PTL DEF Spec

\* Every call of the controller and every read keeps its state in its types;
\* the unread count always is what lies behind the head of the array.
THEOREM TypeCorrect == Spec => []TypeOK
<1>1. IInv => TypeOK BY DEF IInv
<1> QED BY <1>1, Invariance, PTL

\* The reserve that push keeps back always holds the event that ends the
\* operation: overflow never comes to its INTERNAL_FAILURE.
THEOREM EndFits == Spec => []RoomForTheEnd
<1>1. IInv => RoomForTheEnd
  BY OperationAssumption DEF IInv, RoomInv, RoomForTheEnd, TypeOK, OperationAssumption
<1> QED BY <1>1, Invariance, PTL

\* A consumer behind guardProviderOperation refuses a stream of this controller
\* only if a builder threw or the clock stepped back.
THEOREM StreamsPassTheGuard == Spec => []GuardAccepts
<1>1. IInv => GuardAccepts BY DEF IInv
<1> QED BY <1>1, Invariance, PTL

\* A cancellation reaches every handler; a full buffer cannot prevent it.
THEOREM CancellationsAreHeard == Spec => []CancelReachesHandlers
<1>1. IInv => CancelReachesHandlers BY DEF IInv
<1> QED BY <1>1, Invariance, PTL

\* No consumer is parked while there is an event to read or none to come.
THEOREM WakeupsAreNotLost == Spec => []NoLostWakeup
<1>1. IInv => NoLostWakeup BY DEF IInv
<1> QED BY <1>1, Invariance, PTL

\* complete, fail, cancel and overflow race; the first of them decides the
\* terminal kind and the result.
THEOREM FirstTerminalOutcomeWins == Spec => FirstOutcomeWins
<1>1. [Next]_vars => [terminal # None => terminal' = terminal /\ result' = result]_vars
  <2> SUFFICES ASSUME [Next]_vars, terminal # None
               PROVE  terminal' = terminal /\ result' = result
    BY DEF vars
  <2> QED BY DEF Next, Read, Emit, Complete, Fail, Conclude, BuildFails, Cancel, OnCancel, Take,
                 TakeNothing, Tick, outcome, vars
<1> QED BY <1>1, PTL DEF Spec, FirstOutcomeWins
-----------------------------------------------------------------------------
(* OpenAiProvider                                                          *)

Modes == {"synchronous", "background-streaming", "background"}
Waits == {"delay", "backoff", "reading"}
Before == Starting \cup {"refused"}

Operations ==
  [stage : Before \cup {"pump", "ended"} \cup Waits, mode : Modes,
   outcome : {"none", "completed", "failed", "cancelled"}, handle : BOOLEAN,
   highest : -1 .. Last, after : -1 .. Last, checked : BOOLEAN, next : Nat,
   surfaced : Seq(0 .. Last), terminal : BOOLEAN, tries : Nat, attempt : Nat,
   open : BOOLEAN, late : BOOLEAN]

\* The caller of an operation has seen its first events and no others.
Shown(o, n) == o.surfaced = [i \in 1 .. n |-> i - 1]

\* A running operation has surfaced the events up to `highest'; the next event
\* of its stream is at most one further, or is still to be compared with it.
Reading(o) ==
  o.outcome = "none" =>
    /\ Shown(o, o.highest + 1) /\ (o.terminal <=> o.highest = Last)
    /\ o.stage \in Before => o.highest = -1 /\ o.checked /\ o.next = 0 /\ ~o.handle
    /\ o.stage # "ended" /\ (o.mode = "background" => o.highest = -1)
    /\ o.stage = "pump" => /\ o.mode \in Streaming
                           /\ IF o.checked THEN o.next <= o.highest + 1
                              ELSE o.after = o.highest /\ o.highest >= 0
    /\ o.stage \in Waits /\ o.mode \in Streaming => o.after = o.highest /\ o.highest >= 0

\* The response id is known once an event of a background response was
\* surfaced, or when it is polled.
Known(o) ==
  o.outcome \in {"none", "cancelled"} =>
    /\ o.handle /\ o.mode \in Streaming => o.highest >= 0
    /\ o.mode \in Background /\ o.highest >= 0 => o.handle
    /\ o.mode = "background" /\ o.stage \notin Before => o.handle

\* One operation, whatever the server holds.
Sound(o) ==
  /\ o \in Operations
  /\ Reading(o) /\ Known(o)
  /\ o.stage \in Before => o.outcome = "none"
  /\ o.outcome # "none" => \E n \in 0 .. Last + 1 :
       Shown(o, n) /\ (o.outcome = "completed" => n = Last + 1)

SoundInv == op \in [Calls -> Operations] /\ \A c \in Calls : Sound(op[c])

\* A cancelled operation has sent what its handle allows, and no other has.
Posted(c) ==
  /\ op[c].outcome = "cancelled" /\ CancelRemote /\ op[c].handle => post[c] # "none"
  /\ post[c] # "none" => op[c].outcome = "cancelled"

\* close() cancels operations that have begun, and waits for every one that
\* began before it, and for its cancel request.
ClosingInv ==
  /\ post \in [Calls -> {"none", "sent", "settled", "cut"}]
  /\ \A c \in Calls : Posted(c)
  /\ \A c \in Calls : c \in toCancel => op[c].stage \notin Before
  /\ closing = "waiting" => \A c \in Calls : c \in Pending => op[c].late \/ c \in awaited
  /\ \A c \in Calls : post[c] = "cut" => op[c].late

-----------------------------------------------------------------------------
\* What was surfaced so far, of any operation, is a beginning of the response.
LEMMA ShowsABeginning ==
  ASSUME OpenAiAssumption, NEW o, Sound(o)
  PROVE  \E n \in 0 .. Last + 1 : Shown(o, n)
<1>1. CASE o.outcome = "none"
  <2>1. o.highest \in -1 .. Last BY DEF Sound, Operations
  <2>2. o.highest + 1 \in 0 .. Last + 1 BY <2>1 DEF OpenAiAssumption
  <2>3. Shown(o, o.highest + 1) BY <1>1 DEF Sound, Reading
  <2> QED BY <2>2, <2>3
<1>2. CASE o.outcome # "none"
  BY <1>2 DEF Sound
<1> QED BY <1>1, <1>2

\* An operation may fail at any time.
LEMMA FailureIsSound ==
  ASSUME OpenAiAssumption, NEW o, Sound(o)
  PROVE  Sound([o EXCEPT !.stage = "ended", !.outcome = "failed", !.open = FALSE])
<1>1. PICK new : new = [o EXCEPT !.stage = "ended", !.outcome = "failed", !.open = FALSE]
  OBVIOUS
<1>2. /\ new \in Operations /\ new.stage = "ended" /\ new.outcome = "failed"
      /\ new.surfaced = o.surfaced
  BY <1>1 DEF Sound, Operations
<1>3. \E n \in 0 .. Last + 1 : Shown(new, n)
  <2>1. PICK n \in 0 .. Last + 1 : Shown(o, n) BY ShowsABeginning
  <2>2. Shown(new, n) BY <1>2, <2>1 DEF Shown
  <2> QED BY <2>1, <2>2
<1>4. Reading(new) /\ Known(new) BY <1>2 DEF Reading, Known
<1>5. Sound(new) BY <1>2, <1>3, <1>4 DEF Sound, Before, Starting
<1> QED BY <1>1, <1>5

\* An operation that has surfaced everything may conclude.
LEMMA ConclusionIsSound ==
  ASSUME OpenAiAssumption, NEW o, o \in Operations, Shown(o, Last + 1),
         NEW status \in {"completed", "failed"}
  PROVE  Sound([o EXCEPT !.stage = "ended", !.open = FALSE, !.outcome = status])
<1>1. PICK new : new = [o EXCEPT !.stage = "ended", !.open = FALSE, !.outcome = status]
  OBVIOUS
<1>2. /\ new \in Operations /\ new.stage = "ended" /\ new.outcome = status
      /\ new.surfaced = o.surfaced
  BY <1>1 DEF Operations
<1>3. Shown(new, Last + 1) BY <1>2 DEF Shown
<1>4. Last + 1 \in 0 .. Last + 1 BY DEF OpenAiAssumption
<1>5. Reading(new) /\ Known(new) BY <1>2 DEF Reading, Known
<1>6. Sound(new) BY <1>2, <1>3, <1>4, <1>5 DEF Sound, Before, Starting
<1> QED BY <1>1, <1>6

\* A running operation may be cancelled once it is registered.
LEMMA CancellationIsSound ==
  ASSUME OpenAiAssumption, NEW o, Sound(o), o.stage \notin Before, o.outcome = "none"
  PROVE  Sound([o EXCEPT !.outcome = "cancelled", !.open = FALSE])
<1>1. PICK new : new = [o EXCEPT !.outcome = "cancelled", !.open = FALSE]
  OBVIOUS
<1>2. /\ new \in Operations /\ new.stage = o.stage /\ new.outcome = "cancelled"
      /\ new.surfaced = o.surfaced /\ new.handle = o.handle /\ new.mode = o.mode
      /\ new.highest = o.highest
  BY <1>1 DEF Sound, Operations
<1>3. \E n \in 0 .. Last + 1 : Shown(new, n)
  <2>1. PICK n \in 0 .. Last + 1 : Shown(o, n) BY ShowsABeginning
  <2>2. Shown(new, n) BY <1>2, <2>1 DEF Shown
  <2> QED BY <2>1, <2>2
<1>4. Reading(new) BY <1>2 DEF Reading
<1>5. Known(new) BY <1>2 DEF Sound, Known
<1>6. Sound(new) BY <1>2, <1>3, <1>4, <1>5 DEF Sound
<1> QED BY <1>1, <1>6

\* A step of one operation that leaves its answer alone.
LEMMA QuietChangeIsSound ==
  ASSUME OpenAiAssumption, NEW o, Sound(o), NEW new \in Operations,
         new.outcome = o.outcome, new.surfaced = o.surfaced, new.highest = o.highest,
         new.terminal = o.terminal, new.handle = o.handle, new.mode = o.mode,
         Reading(new), Known(new), o.stage \notin Before, new.stage \notin Before
  PROVE  Sound(new)
<1>1. new.outcome # "none" => \E n \in 0 .. Last + 1 :
        Shown(new, n) /\ (new.outcome = "completed" => n = Last + 1)
  BY DEF Sound, Shown
<1> QED BY <1>1 DEF Sound

\* A look at a background response ends the operation or lets it wait.
LEMMA LookIsSound ==
  ASSUME OpenAiAssumption, NEW c \in Calls, NEW o \in Operations, Sound(op[c]),
         o.outcome = "none", o.highest = -1, ~o.terminal, Shown(o, 0), o.handle,
         o.mode = "background"
  PROVE  Sound(Looked(c, o))
<1>1. CASE remote[c] # "running"
  <2>1. PICK all : all = [o EXCEPT !.terminal = TRUE, !.surfaced = [i \in 1 .. Last + 1 |-> i - 1]]
    OBVIOUS
  <2>2. [i \in 1 .. Last + 1 |-> i - 1] \in Seq(0 .. Last)
    <3>1. Last + 1 \in Nat BY DEF OpenAiAssumption
    <3>2. \A i \in 1 .. Last + 1 : i - 1 \in 0 .. Last BY DEF OpenAiAssumption
    <3> QED BY <3>1, <3>2
  <2>3. all \in Operations /\ Shown(all, Last + 1)
    BY <2>1, <2>2 DEF Operations, Shown
  <2>4. PICK status \in {"completed", "failed"} :
          status = IF remote[c] = "completed" THEN "completed" ELSE "failed"
    OBVIOUS
  <2>5. Sound([all EXCEPT !.stage = "ended", !.open = FALSE, !.outcome = status])
    BY <2>3, ConclusionIsSound
  <2>6. Looked(c, o) = [all EXCEPT !.stage = "ended", !.open = FALSE, !.outcome = status]
    BY <1>1, <2>1, <2>4 DEF Looked, Concluded
  <2> QED BY <2>5, <2>6
<1>2. CASE remote[c] = "running" /\ o.tries < MaxPolls
  <2>1. PICK new : new = [o EXCEPT !.stage = "delay"]
    OBVIOUS
  <2>2. /\ new \in Operations /\ new.stage = "delay" /\ new.outcome = "none"
        /\ new.surfaced = o.surfaced /\ new.highest = -1 /\ ~new.terminal
        /\ new.mode = "background" /\ new.handle
    BY <2>1 DEF Operations, Waits
  <2>3. Reading(new)
    BY <2>2 DEF Reading, Shown, Before, Starting, Streaming, OpenAiAssumption
  <2>4. Known(new) BY <2>2 DEF Known, Streaming
  <2>5. Sound(new) BY <2>2, <2>3, <2>4 DEF Sound, Before, Starting
  <2> QED BY <1>2, <2>1, <2>5 DEF Looked
<1>3. CASE remote[c] = "running" /\ ~(o.tries < MaxPolls)
  BY <1>3, FailureIsSound DEF Looked, FailedCall
<1> QED BY <1>1, <1>2, <1>3

-----------------------------------------------------------------------------
\* How the record of a call may change, in the steps that leave the cancel
\* requests and close() alone: it is not cancelled, it does not go back to
\* before its start, and it is late if it began after close().
Ordinary(c, new) ==
  /\ Sound(new)
  /\ \/ op[c].outcome = "none" /\ new.outcome # "cancelled"
     \/ new.outcome = op[c].outcome /\ new.handle = op[c].handle
  /\ op[c].stage \in Before \/ new.stage \notin Before
  /\ new.late = op[c].late \/ (op[c].outcome = "none" /\ (closing = "waiting" => new.late))
  /\ \/ new.stage \in Before \cup {"ended"}
     \/ op[c].stage \notin Before \cup {"ended"} /\ new.late = op[c].late
     \/ closing = "waiting" => new.late

\* Such a step keeps both invariants.
LEMMA OrdinaryStep ==
  ASSUME SoundInv, ClosingInv, NEW c \in Calls, NEW new, Ordinary(c, new),
         Step(c, new), UnchangedElsewhere
  PROVE  SoundInv' /\ ClosingInv'
<1>1. op' = [op EXCEPT ![c] = new] /\ op \in [Calls -> Operations] /\ new \in Operations
  BY DEF Step, SoundInv, Ordinary, Sound
<1>2. op' \in [Calls -> Operations] /\ op'[c] = new /\ \A x \in Calls : x # c => op'[x] = op[x]
  BY <1>1
<1>3. SoundInv'
  <2>1. \A x \in Calls : Sound(op'[x]) BY <1>2 DEF SoundInv, Ordinary
  <2>2. SoundInv' <=> op' \in [Calls -> Operations] /\ \A x \in Calls : Sound(op'[x])
    BY DEF SoundInv, Sound, Operations, Reading, Known, Shown
  <2> QED BY <1>2, <2>1, <2>2
<1>4. post' = post /\ closing' = closing /\ toCancel' = toCancel /\ awaited' = awaited
  BY DEF UnchangedElsewhere
<1>5. ASSUME NEW x \in Calls
      PROVE  /\ Posted(x)'
             /\ x \in toCancel => op'[x].stage \notin Before
             /\ closing = "waiting" /\ x \in Pending' => op'[x].late \/ x \in awaited
             /\ post[x] = "cut" => op'[x].late
  <2>1. CASE x # c
    BY <1>2, <1>4, <2>1 DEF ClosingInv, Posted, Pending, Registered
  <2>2. CASE x = c
    <3>1. op'[x] = new BY <1>2, <2>2
    <3>2. Posted(x) /\ (x \in toCancel => op[x].stage \notin Before)
          /\ (closing = "waiting" /\ x \in Pending => op[x].late \/ x \in awaited)
          /\ (post[x] = "cut" => op[x].late)
      BY DEF ClosingInv
    <3>3. Posted(x)' BY <2>2, <3>1, <3>2, <1>4 DEF Posted, Ordinary
    <3>4. x \in toCancel => new.stage \notin Before BY <2>2, <3>2 DEF Ordinary
    <3>5. post[x] = "cut" => new.late BY <2>2, <3>2 DEF Posted, Ordinary
    <3>6. ASSUME closing = "waiting", x \in Pending'
          PROVE  new.late \/ x \in awaited
      <4>1. (new.stage \notin Starting \cup Settled) \/ post[x] = "sent"
        BY <1>4, <3>1, <3>6 DEF Pending, Registered
      <4>2. CASE post[x] = "sent"
        <5>1. x \in Pending /\ op[x].outcome # "none" BY <3>2, <4>2 DEF Pending, Posted
        <5> QED BY <2>2, <3>2, <3>6, <5>1 DEF Ordinary
      <4>3. CASE new.stage \notin Starting \cup Settled
        <5>1. new.stage \notin Before \cup {"ended"} BY <4>3 DEF Before, Settled
        <5>2. op[x].stage \notin Before \cup {"ended"} => x \in Pending
          BY DEF Before, Settled, Pending, Registered
        <5> QED BY <2>2, <3>2, <3>6, <5>1, <5>2 DEF Ordinary
      <4> QED BY <4>1, <4>2, <4>3
    <3> QED BY <3>1, <3>3, <3>4, <3>5, <3>6
  <2> QED BY <2>1, <2>2
<1>6. ClosingInv' BY <1>4, <1>5 DEF ClosingInv
<1> QED BY <1>3, <1>6

-----------------------------------------------------------------------------
\* start(), and what becomes of its request.
LEMMA BeginningKeepsInv ==
  ASSUME OpenAiAssumption, SoundInv, ClosingInv, NEW c \in Calls,
         (\E mode \in Asks[c] : Start(c, mode)) \/ Create(c) \/ CreateFails(c)
  PROVE  SoundInv' /\ ClosingInv'
<1> DEFINE o == op[c]
<1>1. Sound(o) /\ o \in Operations BY DEF SoundInv, Sound
<1>2. ASSUME NEW mode \in Modes, NEW stage \in Before, o.stage \in Before
      PROVE  Ordinary(c, [o EXCEPT !.mode = mode, !.stage = stage])
  <2>1. PICK new : new = [o EXCEPT !.mode = mode, !.stage = stage]
    OBVIOUS
  <2>2. /\ new \in Operations /\ new.stage = stage /\ new.outcome = o.outcome
        /\ new.surfaced = o.surfaced /\ new.highest = o.highest /\ new.handle = o.handle
        /\ new.terminal = o.terminal /\ new.checked = o.checked /\ new.next = o.next
        /\ new.late = o.late
    BY <1>1, <2>1 DEF Operations, Before, Starting
  <2>3. o.outcome = "none" BY <1>1, <1>2 DEF Sound
  <2>4. Reading(new)
    BY <1>1, <1>2, <2>2, <2>3 DEF Sound, Reading, Shown, Before, Starting, Waits
  <2>5. Known(new)
    <3>1. o.highest = -1 /\ ~o.handle BY <1>1, <1>2, <2>3 DEF Sound, Reading
    <3> QED BY <1>2, <2>2, <3>1 DEF Known
  <2>6. Sound(new) BY <1>2, <2>2, <2>3, <2>4, <2>5 DEF Sound
  <2>7. Ordinary(c, new) BY <1>2, <2>2, <2>3, <2>6 DEF Ordinary
  <2> QED BY <2>1, <2>7
<1>3. ASSUME NEW stage \in Before, o.stage \in Before
      PROVE  Ordinary(c, [o EXCEPT !.stage = stage])
  <2>1. o.mode \in Modes BY <1>1 DEF Operations
  <2>2. [o EXCEPT !.stage = stage] = [o EXCEPT !.mode = o.mode, !.stage = stage]
    BY <1>1 DEF Operations
  <2> QED BY <1>2, <1>3, <2>1, <2>2
<1>4. CASE \E mode \in Asks[c] : Start(c, mode)
  <2>1. PICK mode \in Asks[c] : Start(c, mode) BY <1>4
  <2>2. PICK stage \in {"admitted", "refused"} :
          stage = IF closing = "open" THEN "admitted" ELSE "refused"
    OBVIOUS
  <2>3. mode \in Modes BY DEF OpenAiAssumption, Modes
  <2>4. stage \in Before /\ o.stage \in Before BY <2>1, <2>2 DEF Start, Before, Starting
  <2>5. Step(c, [o EXCEPT !.mode = mode, !.stage = stage]) /\ UnchangedElsewhere
    BY <2>1, <2>2 DEF Start
  <2>6. Ordinary(c, [o EXCEPT !.mode = mode, !.stage = stage]) BY <1>2, <2>3, <2>4
  <2> QED BY <2>5, <2>6, OrdinaryStep
<1>5. CASE Create(c)
  <2>1. PICK stage \in {"creating", "refused"} : Step(c, [o EXCEPT !.stage = stage])
    BY <1>5 DEF Create
  <2>2. stage \in Before /\ o.stage \in Before BY <1>5, <2>1 DEF Create, Before, Starting
  <2>3. Ordinary(c, [o EXCEPT !.stage = stage]) BY <1>3, <2>2
  <2> QED BY <1>5, <2>1, <2>3, OrdinaryStep DEF Create
<1>6. CASE CreateFails(c)
  <2>1. "refused" \in Before /\ o.stage \in Before BY <1>6 DEF CreateFails, Before, Starting
  <2>2. Ordinary(c, [o EXCEPT !.stage = "refused"]) BY <1>3, <2>1
  <2> QED BY <1>6, <2>2, OrdinaryStep DEF CreateFails
<1> QED BY <1>4, <1>5, <1>6

\* The operation is registered and handed out.
LEMMA CreatedKeepsInv ==
  ASSUME OpenAiAssumption, SoundInv, ClosingInv, NEW c \in Calls, Created(c)
  PROVE  SoundInv' /\ ClosingInv'
<1> DEFINE o == op[c]
<1>1. Sound(o) /\ o \in Operations BY DEF SoundInv, Sound
<1>2. /\ o.stage = "creating" /\ o.stage \in Before /\ o.outcome = "none"
      /\ o.highest = -1 /\ o.checked /\ o.next = 0 /\ ~o.handle
      /\ Shown(o, 0) /\ ~o.terminal
  <2>1. o.stage = "creating" /\ o.stage \in Before BY DEF Created, Before, Starting
  <2>2. o.outcome = "none" BY <1>1, <2>1 DEF Sound
  <2>3. o.highest = -1 /\ o.checked /\ o.next = 0 /\ ~o.handle /\ Shown(o, o.highest + 1)
        /\ (o.terminal <=> o.highest = Last)
    BY <1>1, <2>1, <2>2 DEF Sound, Reading
  <2>4. -1 + 1 = 0 /\ -1 # Last BY DEF OpenAiAssumption
  <2>5. Shown(o, 0) BY <2>3, <2>4
  <2> QED BY <2>1, <2>2, <2>3, <2>4, <2>5
<1>3. PICK late \in BOOLEAN : late <=> closing # "open"
  OBVIOUS
<1>4. PICK begun : begun = [o EXCEPT !.late = late]
  OBVIOUS
<1>5. CASE o.mode \in Streaming
  <2>1. PICK new : new = [begun EXCEPT !.stage = "pump", !.open = TRUE]
    OBVIOUS
  <2>2. /\ new \in Operations /\ new.stage = "pump" /\ new.outcome = "none"
        /\ new.surfaced = o.surfaced /\ new.highest = -1 /\ new.handle = o.handle
        /\ new.terminal = o.terminal /\ new.checked = o.checked /\ new.next = 0
        /\ new.late = late /\ new.mode = o.mode
    BY <1>1, <1>2, <1>4, <2>1 DEF Operations
  <2>3. Reading(new)
    BY <1>1, <1>2, <1>5, <2>2 DEF Sound, Reading, Shown, Before, Starting, Waits
  <2>4. Known(new) BY <1>2, <1>5, <2>2 DEF Known, Streaming
  <2>5. Sound(new) BY <2>2, <2>3, <2>4 DEF Sound, Before, Starting
  <2>6. Ordinary(c, new) BY <1>2, <1>3, <2>2, <2>5 DEF Ordinary
  <2>7. begun = [o EXCEPT !.late = closing # "open"]
    BY <1>1, <1>3, <1>4 DEF Operations
  <2>8. Step(c, new) /\ UnchangedElsewhere BY <1>5, <2>1, <2>7 DEF Created
  <2> QED BY <2>6, <2>8, OrdinaryStep
<1>6. CASE o.mode \notin Streaming
  <2>1. PICK known : known = [begun EXCEPT !.handle = TRUE]
    OBVIOUS
  <2>2. /\ known \in Operations /\ known.outcome = "none" /\ known.highest = -1
        /\ ~known.terminal /\ known.handle /\ known.mode = "background"
        /\ known.surfaced = o.surfaced /\ known.late = late
    BY <1>1, <1>2, <1>4, <1>6, <2>1 DEF Operations, Modes, Streaming
  <2>3. Shown(known, 0) BY <1>2, <2>2 DEF Shown
  <2>4. Sound(Looked(c, known)) BY <1>1, <2>2, <2>3, LookIsSound
  <2>5. begun = [o EXCEPT !.late = closing # "open"]
    BY <1>1, <1>3, <1>4 DEF Operations
  <2>6. Step(c, Looked(c, known)) /\ UnchangedElsewhere BY <1>6, <2>1, <2>5 DEF Created
  <2>7. PICK new : new = Looked(c, known)
    OBVIOUS
  <2>8. new.outcome # "cancelled" /\ new.stage \in {"ended", "delay"}
        /\ (new.stage = "delay" => new.late = late)
    BY <1>1, <2>2, <2>7 DEF Looked, Concluded, FailedCall, Operations
  <2>9. new.late = o.late \/ new.late = late
    BY <1>1, <2>2, <2>7 DEF Looked, Concluded, FailedCall, Operations
  <2>10. Ordinary(c, new) BY <1>2, <1>3, <2>4, <2>7, <2>8, <2>9 DEF Ordinary
  <2> QED BY <2>6, <2>7, <2>10, OrdinaryStep
<1> QED BY <1>5, <1>6

\* failOperation, wherever an operation runs.
LEMMA FailureKeepsInv ==
  ASSUME OpenAiAssumption, SoundInv, ClosingInv, NEW c \in Calls, Live(c),
         Step(c, FailedCall(c)), UnchangedElsewhere
  PROVE  SoundInv' /\ ClosingInv'
<1>1. Sound(op[c]) /\ op[c] \in Operations BY DEF SoundInv, Sound
<1>2. PICK new : new = FailedCall(c)
  OBVIOUS
<1>3. Sound(new) BY <1>1, <1>2, FailureIsSound DEF FailedCall
<1>4. new.stage = "ended" /\ new.outcome = "failed" /\ new.late = op[c].late
  BY <1>1, <1>2 DEF FailedCall, Operations
<1>5. Ordinary(c, new) BY <1>3, <1>4 DEF Ordinary, Live, Before, Starting
<1> QED BY <1>2, <1>5, OrdinaryStep

\* One event is taken from a stream.
LEMMA ReceiveKeepsInv ==
  ASSUME OpenAiAssumption, SoundInv, ClosingInv, NEW c \in Calls, Receive(c)
  PROVE  SoundInv' /\ ClosingInv'
<1> DEFINE o == op[c]
           n == op[c].next
<1>1. Sound(o) /\ o \in Operations BY DEF SoundInv, Sound
<1>2. o.stage = "pump" /\ o.outcome = "none" /\ n <= Last + 1 /\ UnchangedElsewhere
  BY DEF Receive, Live
<1>3. /\ n \in Nat /\ o.highest \in -1 .. Last /\ o.after \in -1 .. Last
      /\ o.surfaced \in Seq(0 .. Last) /\ Last \in Nat \ {0}
  BY <1>1 DEF Operations, OpenAiAssumption
<1>4. /\ Shown(o, o.highest + 1) /\ (o.terminal <=> o.highest = Last)
      /\ o.mode \in Streaming
      /\ IF o.checked THEN n <= o.highest + 1 ELSE o.after = o.highest /\ o.highest >= 0
  BY <1>1, <1>2 DEF Sound, Reading
<1>5. (o.checked \/ Continuous(o.after, n)) => n <= o.highest + 1
  BY <1>3, <1>4 DEF Continuous
<1>6. CASE Step(c, FailedCall(c))
  BY <1>2, <1>6, FailureKeepsInv DEF Live
<1>7. CASE /\ o.checked \/ Continuous(o.after, n)
           /\ ~Fresh(c, n)
           /\ Step(c, [o EXCEPT !.checked = TRUE, !.next = n + 1])
  <2> n + 1 \in Nat BY <1>3
  <2>0. PICK m \in Nat : m = n + 1 OBVIOUS
  <2>1. PICK new : new = [o EXCEPT !.checked = TRUE, !.next = m]
    OBVIOUS
  <2>2. /\ new \in Operations /\ new.stage = "pump" /\ new.outcome = "none"
        /\ new.surfaced = o.surfaced /\ new.highest = o.highest /\ new.handle = o.handle
        /\ new.terminal = o.terminal /\ new.checked /\ new.next = m
        /\ new.late = o.late /\ new.mode = o.mode
    BY <1>1, <1>2, <2>1 DEF Operations
  <2>3. m <= o.highest + 1 BY <1>3, <1>7, <2>0 DEF Fresh
  <2>4. Reading(new)
    BY <1>4, <2>2, <2>3 DEF Reading, Shown, Before, Starting, Waits, Streaming
  <2>5. Known(new) BY <1>1, <1>2, <2>2 DEF Sound, Known, Before, Starting
  <2>6. o.stage \notin Before /\ new.stage \notin Before BY <1>2, <2>2 DEF Before, Starting
  <2>7. Sound(new) BY <1>1, <1>2, <2>2, <2>4, <2>5, <2>6, QuietChangeIsSound
  <2>8. Ordinary(c, new) BY <1>2, <2>2, <2>6, <2>7 DEF Ordinary, Before, Starting
  <2> QED BY <1>2, <1>7, <2>0, <2>1, <2>8, OrdinaryStep
<1>8. CASE /\ o.checked \/ Continuous(o.after, n)
           /\ Fresh(c, n) /\ ~o.terminal
           /\ Step(c, Surface(c, n))
  <2>1. n = o.highest + 1 BY <1>3, <1>5, <1>8 DEF Fresh
  <2>2. n \in 0 .. Last /\ n + 1 <= Last + 1 BY <1>3, <1>4, <1>8, <2>1
  <2>3. PICK new : new = Surface(c, n)
    OBVIOUS
  <2>4. /\ new \in Operations /\ new.stage = "pump" /\ new.outcome = "none"
        /\ new.surfaced = Append(o.surfaced, n) /\ new.highest = n
        /\ (new.terminal <=> n = Last) /\ new.checked /\ new.next = n + 1
        /\ new.late = o.late /\ new.mode = o.mode
        /\ (new.handle <=> o.handle \/ (n = 0 /\ o.mode \in Background))
    <3>1. Append(o.surfaced, n) \in Seq(0 .. Last) BY <1>3, <2>2
    <3>2. PICK events : events = Append(o.surfaced, n)
      OBVIOUS
    <3>3. PICK handle \in BOOLEAN : handle <=> o.handle \/ (n = 0 /\ o.mode \in Background)
      OBVIOUS
    <3>4. PICK terminal2 \in BOOLEAN : terminal2 <=> n = Last
      OBVIOUS
    <3>5. new = [o EXCEPT !.highest = n, !.next = n + 1, !.checked = TRUE,
                          !.surfaced = events, !.handle = handle, !.terminal = terminal2]
      <4>1. (o.handle \/ (n = 0 /\ o.mode \in Background)) = handle
        BY <1>1, <3>3 DEF Operations
      <4>2. (o.terminal \/ n = Last) = terminal2
        BY <1>1, <1>8, <3>4 DEF Operations
      <4> QED BY <2>3, <3>2, <4>1, <4>2 DEF Surface
    <3>6. n \in -1 .. Last /\ n + 1 \in Nat BY <1>3, <2>2
    <3> QED BY <1>1, <1>2, <3>1, <3>2, <3>3, <3>4, <3>5, <3>6 DEF Operations
  <2>5. Shown(new, n + 1)
    <3>1. o.surfaced = [i \in 1 .. n |-> i - 1] BY <1>4, <2>1 DEF Shown
    <3>2. Append([i \in 1 .. n |-> i - 1], n) = [i \in 1 .. n + 1 |-> i - 1]
      BY <1>3
    <3> QED BY <2>4, <3>1, <3>2 DEF Shown
  <2>6. Reading(new)
    <3>1. n + 1 <= n + 1 BY <1>3
    <3>2. new.stage \notin Before \cup Waits /\ new.stage # "ended"
      BY <2>4 DEF Before, Starting, Waits
    <3> QED BY <1>4, <2>4, <2>5, <3>1, <3>2 DEF Reading, Streaming
  <2>7. Known(new)
    <3>1. /\ o.handle /\ o.mode \in Streaming => o.highest >= 0
          /\ o.mode \in Background /\ o.highest >= 0 => o.handle
          /\ o.mode = "background" /\ o.stage \notin Before => o.handle
      BY <1>1, <1>2 DEF Sound, Known
    <3>2. n >= 0 /\ (n # 0 => o.highest >= 0) BY <1>3, <2>1
    <3>3. o.stage \notin Before BY <1>2 DEF Before, Starting
    <3> QED BY <2>4, <3>1, <3>2, <3>3 DEF Known
  <2>8. o.stage \notin Before /\ new.stage \notin Before BY <1>2, <2>4 DEF Before, Starting
  <2>9. Sound(new) BY <2>4, <2>6, <2>7, <2>8 DEF Sound
  <2>10. Ordinary(c, new) BY <1>2, <2>4, <2>8, <2>9 DEF Ordinary, Before, Starting
  <2> QED BY <1>2, <1>8, <2>3, <2>10, OrdinaryStep
<1> QED BY <1>6, <1>7, <1>8 DEF Receive

\* The end of a stream concludes the operation, or is missed and waited for.
LEMMA EndOfStreamKeepsInv ==
  ASSUME OpenAiAssumption, SoundInv, ClosingInv, NEW c \in Calls, EndOfStream(c)
  PROVE  SoundInv' /\ ClosingInv'
<1> DEFINE o == op[c]
<1>1. Sound(o) /\ o \in Operations BY DEF SoundInv, Sound
<1>2. o.stage = "pump" /\ o.outcome = "none" /\ UnchangedElsewhere
  BY DEF EndOfStream, Live
<1>3. /\ Shown(o, o.highest + 1) /\ (o.terminal <=> o.highest = Last)
      /\ o.mode \in Streaming
  BY <1>1, <1>2 DEF Sound, Reading
<1>4. CASE o.terminal /\ Step(c, Concluded(c, o))
  <2>1. PICK status \in {"completed", "failed"} :
          status = IF remote[c] = "completed" THEN "completed" ELSE "failed"
    OBVIOUS
  <2>2. PICK new : new = [o EXCEPT !.stage = "ended", !.open = FALSE, !.outcome = status]
    OBVIOUS
  <2>3. Shown(o, Last + 1) BY <1>3, <1>4
  <2>4. Sound(new) BY <1>1, <2>2, <2>3, ConclusionIsSound
  <2>5. new.stage = "ended" /\ new.outcome = status /\ new.late = o.late
    BY <1>1, <2>2 DEF Operations
  <2>6. Ordinary(c, new) BY <1>2, <2>4, <2>5 DEF Ordinary, Before, Starting
  <2>7. Step(c, new) BY <1>4, <2>1, <2>2 DEF Concluded
  <2> QED BY <1>2, <2>6, <2>7, OrdinaryStep
<1>5. CASE /\ ~o.terminal /\ o.handle
           /\ Step(c, [o EXCEPT !.stage = "delay", !.open = FALSE, !.tries = @ + 1, !.after = o.highest])
  <2> o.tries + 1 \in Nat BY <1>1 DEF Operations
  <2>1. PICK m \in Nat : m = o.tries + 1
    OBVIOUS
  <2>2. PICK new : new = [o EXCEPT !.stage = "delay", !.open = FALSE, !.tries = m, !.after = o.highest]
    OBVIOUS
  <2>3. /\ new \in Operations /\ new.stage = "delay" /\ new.outcome = "none"
        /\ new.surfaced = o.surfaced /\ new.highest = o.highest /\ new.handle = o.handle
        /\ new.terminal = o.terminal /\ new.after = o.highest
        /\ new.late = o.late /\ new.mode = o.mode
    BY <1>1, <1>2, <2>2 DEF Operations, Waits
  <2>4. o.highest >= 0 BY <1>1, <1>2, <1>3, <1>5 DEF Sound, Known
  <2>5. Reading(new)
    BY <1>3, <2>3, <2>4 DEF Reading, Shown, Before, Starting, Streaming
  <2>6. Known(new) BY <1>1, <1>2, <2>3 DEF Sound, Known, Before, Starting
  <2>7. o.stage \notin Before /\ new.stage \notin Before BY <1>2, <2>3 DEF Before, Starting
  <2>8. Sound(new) BY <1>1, <1>2, <2>3, <2>5, <2>6, <2>7, QuietChangeIsSound
  <2>9. Ordinary(c, new) BY <1>2, <2>3, <2>7, <2>8 DEF Ordinary, Before, Starting
  <2> QED BY <1>2, <1>5, <2>1, <2>2, <2>9, OrdinaryStep
<1>6. CASE Step(c, FailedCall(c))
  BY <1>2, <1>6, FailureKeepsInv DEF Live
<1> QED BY <1>4, <1>5, <1>6 DEF EndOfStream

\* Moving on among the delays and the reading requests.
LEMMA WaitingIsOrdinary ==
  ASSUME OpenAiAssumption, SoundInv, NEW c \in Calls, op[c].outcome = "none",
         op[c].stage \in Waits, NEW stage \in Waits, NEW count \in Nat
  PROVE  Ordinary(c, [op[c] EXCEPT !.stage = stage, !.attempt = count])
<1> DEFINE o == op[c]
<1>1. Sound(o) /\ o \in Operations BY DEF SoundInv, Sound
<1>2. PICK new : new = [o EXCEPT !.stage = stage, !.attempt = count]
  OBVIOUS
<1>3. /\ new \in Operations /\ new.stage = stage /\ new.outcome = "none"
      /\ new.surfaced = o.surfaced /\ new.highest = o.highest /\ new.handle = o.handle
      /\ new.terminal = o.terminal /\ new.after = o.after
      /\ new.late = o.late /\ new.mode = o.mode
  BY <1>1, <1>2 DEF Operations
<1>4. o.stage \notin Before \cup {"pump", "ended"} /\ new.stage \notin Before \cup {"pump", "ended"}
  BY <1>3 DEF Before, Starting, Waits
<1>5. Reading(new) BY <1>1, <1>3, <1>4 DEF Sound, Reading, Shown
<1>6. Known(new) BY <1>1, <1>3, <1>4 DEF Sound, Known
<1>7. Sound(new) BY <1>1, <1>3, <1>4, <1>5, <1>6, QuietChangeIsSound
<1>8. Ordinary(c, new) BY <1>3, <1>4, <1>7 DEF Ordinary
<1> QED BY <1>2, <1>8

\* Delays, retries, and the requests that fail.
LEMMA WaitingKeepsInv ==
  ASSUME OpenAiAssumption, SoundInv, ClosingInv, NEW c \in Calls,
         Break(c) \/ Resolve(c) \/ Expire(c) \/ ReadFails(c)
  PROVE  SoundInv' /\ ClosingInv'
<1> DEFINE o == op[c]
<1>1. Sound(o) /\ o \in Operations BY DEF SoundInv, Sound
<1>2. o.outcome = "none" /\ UnchangedElsewhere
  BY DEF Break, Resolve, Expire, ReadFails, Live
<1>3. CASE Step(c, FailedCall(c))
  BY <1>2, <1>3, FailureKeepsInv DEF Live
<1>4. CASE Resolve(c)
  <2> o.attempt + 1 \in Nat BY <1>1 DEF Operations
  <2>1. PICK m \in Nat : m = o.attempt + 1
    OBVIOUS
  <2>2. o.stage \in Waits /\ "reading" \in Waits BY <1>4 DEF Resolve, Waits
  <2>3. Ordinary(c, [o EXCEPT !.stage = "reading", !.attempt = m])
    BY <1>2, <2>2, WaitingIsOrdinary
  <2>4. Step(c, [o EXCEPT !.stage = "reading", !.attempt = m]) BY <1>4, <2>1 DEF Resolve
  <2> QED BY <1>2, <2>3, <2>4, OrdinaryStep
<1>5. CASE o.stage = "reading" /\ Step(c, [o EXCEPT !.stage = "backoff"])
  <2>1. o.stage \in Waits /\ "backoff" \in Waits /\ o.attempt \in Nat
    BY <1>1, <1>5 DEF Operations, Waits
  <2>2. Ordinary(c, [o EXCEPT !.stage = "backoff", !.attempt = o.attempt])
    BY <1>2, <2>1, WaitingIsOrdinary
  <2>3. [o EXCEPT !.stage = "backoff", !.attempt = o.attempt] = [o EXCEPT !.stage = "backoff"]
    BY <1>1 DEF Operations
  <2> QED BY <1>2, <1>5, <2>2, <2>3, OrdinaryStep
<1> QED BY <1>3, <1>4, <1>5 DEF Break, Expire, ReadFails

\* A reading request is answered: the stream goes on, to be compared with what
\* was surfaced, or the response is looked at.
LEMMA AnsweredKeepsInv ==
  ASSUME OpenAiAssumption, SoundInv, ClosingInv, NEW c \in Calls, Resumed(c) \/ Polled(c)
  PROVE  SoundInv' /\ ClosingInv'
<1> DEFINE o == op[c]
<1>1. Sound(o) /\ o \in Operations BY DEF SoundInv, Sound
<1>2. o.stage = "reading" /\ o.outcome = "none" /\ UnchangedElsewhere
  BY DEF Resumed, Polled, Live
<1>3. o.stage \notin Before /\ o.stage \in Waits BY <1>2 DEF Before, Starting, Waits
<1>4. Shown(o, o.highest + 1) /\ (o.terminal <=> o.highest = Last)
      /\ (o.mode \in Streaming => o.after = o.highest /\ o.highest >= 0)
  BY <1>1, <1>2, <1>3 DEF Sound, Reading
<1>5. CASE Resumed(c)
  <2>1. PICK n \in 0 .. Last :
          Step(c, [o EXCEPT !.stage = "pump", !.attempt = 0, !.open = TRUE,
                            !.next = n, !.checked = o.after = -1])
    BY <1>5 DEF Resumed
  <2>2. o.mode \in Streaming /\ ~(o.after = -1)
    <3>1. o.mode \in Streaming BY <1>5 DEF Resumed
    <3>2. o.highest \in -1 .. Last BY <1>1 DEF Operations
    <3> QED BY <1>4, <3>1, <3>2 DEF OpenAiAssumption
  <2>3. (o.after = -1) = FALSE BY <2>2
  <2>4. PICK new : new = [o EXCEPT !.stage = "pump", !.attempt = 0, !.open = TRUE,
                                   !.next = n, !.checked = FALSE]
    OBVIOUS
  <2>5. /\ new \in Operations /\ new.stage = "pump" /\ new.outcome = "none"
        /\ new.surfaced = o.surfaced /\ new.highest = o.highest /\ new.handle = o.handle
        /\ new.terminal = o.terminal /\ new.after = o.after /\ ~new.checked
        /\ new.late = o.late /\ new.mode = o.mode
    <3>1. n \in Nat /\ 0 \in Nat BY DEF OpenAiAssumption
    <3> QED BY <1>1, <1>2, <2>4, <3>1 DEF Operations
  <2>6. new.stage \notin Before \cup Waits BY <2>5 DEF Before, Starting, Waits
  <2>7. Reading(new) BY <1>4, <2>2, <2>5, <2>6 DEF Reading, Shown, Streaming
  <2>8. Known(new) BY <1>1, <1>2, <1>3, <2>5 DEF Sound, Known
  <2>9. Sound(new) BY <1>1, <1>2, <1>3, <2>5, <2>6, <2>7, <2>8, QuietChangeIsSound
  <2>10. Ordinary(c, new) BY <1>2, <1>3, <2>5, <2>6, <2>9 DEF Ordinary
  <2> QED BY <1>2, <2>1, <2>3, <2>4, <2>10, OrdinaryStep
<1>6. CASE Polled(c)
  <2> o.tries + 1 \in Nat BY <1>1 DEF Operations
  <2>1. PICK m \in Nat : m = o.tries + 1
    OBVIOUS
  <2>2. PICK asked : asked = [o EXCEPT !.attempt = 0, !.tries = m]
    OBVIOUS
  <2>3. o.mode = "background" /\ o.handle /\ o.highest = -1 /\ ~o.terminal /\ Shown(o, 0)
    <3>1. o.mode = "background" BY <1>6 DEF Polled
    <3>2. o.handle BY <1>1, <1>2, <1>3, <3>1 DEF Sound, Known
    <3>3. o.highest = -1 BY <1>1, <1>2, <3>1 DEF Sound, Reading
    <3>4. -1 + 1 = 0 /\ -1 # Last BY DEF OpenAiAssumption
    <3>5. Shown(o, 0) /\ ~o.terminal BY <1>4, <3>3, <3>4
    <3> QED BY <3>1, <3>2, <3>3, <3>5
  <2>4. /\ asked \in Operations /\ asked.outcome = "none" /\ asked.highest = -1
        /\ ~asked.terminal /\ asked.handle /\ asked.mode = "background"
        /\ asked.surfaced = o.surfaced /\ asked.late = o.late
    BY <1>1, <1>2, <2>2, <2>3 DEF Operations
  <2>5. Shown(asked, 0) BY <2>3, <2>4 DEF Shown
  <2>6. PICK new : new = Looked(c, asked)
    OBVIOUS
  <2>7. Sound(new) BY <1>1, <2>4, <2>5, <2>6, LookIsSound
  <2>8. new.outcome # "cancelled" /\ new.stage \in {"ended", "delay"} /\ new.late = o.late
    BY <1>1, <2>4, <2>6 DEF Looked, Concluded, FailedCall, Operations
  <2>9. o.stage \notin Before \cup {"ended"} /\ new.stage \notin Before
    BY <1>2, <2>8 DEF Before, Starting
  <2>10. Ordinary(c, new) BY <1>2, <2>7, <2>8, <2>9 DEF Ordinary
  <2>11. Step(c, new) BY <1>6, <2>1, <2>2, <2>6 DEF Polled
  <2> QED BY <1>2, <2>10, <2>11, OrdinaryStep
<1> QED BY <1>5, <1>6

\* A cancelled operation ends.
LEMMA NoticeKeepsInv ==
  ASSUME OpenAiAssumption, SoundInv, ClosingInv, NEW c \in Calls, Notice(c)
  PROVE  SoundInv' /\ ClosingInv'
<1> DEFINE o == op[c]
<1>1. Sound(o) /\ o \in Operations BY DEF SoundInv, Sound
<1>2. /\ o.stage \notin Before \cup {"ended"} /\ o.outcome # "none" /\ UnchangedElsewhere
      /\ op' = [op EXCEPT ![c].stage = "ended"]
  BY DEF Notice, Registered, Live, Before, Settled
<1>3. PICK new : new = [o EXCEPT !.stage = "ended"]
  OBVIOUS
<1>4. Step(c, new) BY <1>2, <1>3 DEF Step
<1>5. /\ new \in Operations /\ new.stage = "ended" /\ new.outcome = o.outcome
      /\ new.surfaced = o.surfaced /\ new.highest = o.highest /\ new.handle = o.handle
      /\ new.terminal = o.terminal /\ new.late = o.late /\ new.mode = o.mode
  BY <1>1, <1>3 DEF Operations
<1>6. Reading(new) BY <1>2, <1>5 DEF Reading
<1>7. new.stage \notin Before /\ o.stage \notin Before BY <1>2, <1>5 DEF Before, Starting
<1>8. Known(new) BY <1>1, <1>5, <1>7 DEF Sound, Known
<1>9. Sound(new) BY <1>1, <1>5, <1>6, <1>7, <1>8, QuietChangeIsSound
<1>10. Ordinary(c, new) BY <1>5, <1>7, <1>9 DEF Ordinary
<1> QED BY <1>2, <1>4, <1>10, OrdinaryStep

-----------------------------------------------------------------------------
\* A cancellation is sound, and sends what it has to.
LEMMA CancellingKeepsInv ==
  ASSUME OpenAiAssumption, SoundInv, ClosingInv, NEW c \in Calls, Cancelling(c), Live(c),
         op[c].stage \notin Before, closing' = closing, toCancel' \subseteq toCancel,
         awaited' = awaited
  PROVE  SoundInv' /\ ClosingInv'
<1> DEFINE o == op[c]
<1>1. Sound(o) /\ o \in Operations /\ o.outcome = "none" BY DEF SoundInv, Sound, Live
<1>2. PICK new : new = [o EXCEPT !.outcome = "cancelled", !.open = FALSE]
  OBVIOUS
<1>3. Sound(new) BY <1>1, <1>2, CancellationIsSound
<1>4. /\ new \in Operations /\ new.stage = o.stage /\ new.outcome = "cancelled"
      /\ new.handle = o.handle /\ new.late = o.late
  BY <1>1, <1>2 DEF Operations
<1>5. op \in [Calls -> Operations] /\ post \in [Calls -> {"none", "sent", "settled", "cut"}]
  BY DEF SoundInv, ClosingInv
<1>6. op' \in [Calls -> Operations] /\ op'[c] = new /\ \A x \in Calls : x # c => op'[x] = op[x]
  <2>1. op' = [op EXCEPT ![c] = new] BY <1>2, <1>5 DEF Cancelling
  <2> QED BY <1>4, <1>5, <2>1
<1>7. PICK kind \in {"none", "sent", "settled", "cut"} :
        kind = IF ~Sends(c) THEN post[c] ELSE IF closing = "closed" THEN "settled" ELSE "sent"
  BY <1>5
<1>8. /\ post' \in [Calls -> {"none", "sent", "settled", "cut"}] /\ post'[c] = kind
      /\ \A x \in Calls : x # c => post'[x] = post[x]
  <2>1. post' = [post EXCEPT ![c] = kind] BY <1>5, <1>7 DEF Cancelling
  <2> QED BY <1>5, <2>1
<1>9. SoundInv'
  <2>1. \A x \in Calls : Sound(op'[x]) BY <1>3, <1>6 DEF SoundInv
  <2>2. SoundInv' <=> op' \in [Calls -> Operations] /\ \A x \in Calls : Sound(op'[x])
    BY DEF SoundInv, Sound, Operations, Reading, Known, Shown
  <2> QED BY <1>6, <2>1, <2>2
<1>10. post[c] = "none" BY <1>1 DEF ClosingInv, Posted
<1>11. (CancelRemote /\ o.handle => kind # "none") /\ kind # "cut" 
  BY <1>7, <1>10 DEF Sends
<1>12. closing = "waiting" => o.late \/ c \in awaited
  <2>1. o.stage # "ended" BY <1>1 DEF Sound, Reading
  <2>2. c \in Pending BY <2>1 DEF Pending, Registered, Before, Settled
  <2> QED BY <2>2 DEF ClosingInv
<1>13. ASSUME NEW x \in Calls
       PROVE  /\ Posted(x)'
              /\ x \in toCancel' => op'[x].stage \notin Before
              /\ closing = "waiting" /\ x \in Pending' => op'[x].late \/ x \in awaited
              /\ post'[x] = "cut" => op'[x].late
  <2>1. CASE x # c
    BY <1>6, <1>8, <2>1 DEF ClosingInv, Posted, Pending, Registered
  <2>2. CASE x = c
    <3>1. op'[x] = new /\ post'[x] = kind BY <1>6, <1>8, <2>2
    <3> QED BY <1>4, <1>11, <1>12, <2>2, <3>1 DEF Posted
  <2> QED BY <2>1, <2>2
<1>14. ClosingInv' BY <1>8, <1>13 DEF ClosingInv
<1> QED BY <1>9, <1>14

\* A step that changes no operation keeps them sound.
LEMMA OperationsUntouched ==
  ASSUME SoundInv, op' = op
  PROVE  SoundInv'
BY DEF SoundInv, Sound, Operations, Reading, Known, Shown

\* Closing the transport ends the streams; what was surfaced stays.
LEMMA TransportKeepsAnswers ==
  ASSUME SoundInv, CloseTransport
  PROVE  SoundInv'
<1>1. ASSUME NEW x \in Calls
      PROVE  Sound(op'[x])
  <2>1. Sound(op[x]) /\ op[x] \in Operations BY DEF SoundInv, Sound
  <2>2. PICK new : new = [op[x] EXCEPT !.open = FALSE]
    OBVIOUS
  <2>3. /\ new \in Operations /\ new.stage = op[x].stage /\ new.outcome = op[x].outcome
        /\ new.surfaced = op[x].surfaced /\ new.highest = op[x].highest
        /\ new.handle = op[x].handle /\ new.terminal = op[x].terminal
        /\ new.checked = op[x].checked /\ new.next = op[x].next /\ new.after = op[x].after
        /\ new.mode = op[x].mode
    BY <2>1, <2>2 DEF Operations
  <2>4. Reading(new) BY <2>1, <2>3 DEF Sound, Reading, Shown
  <2>5. Known(new) BY <2>1, <2>3 DEF Sound, Known
  <2>6. \A n : Shown(new, n) <=> Shown(op[x], n) BY <2>3 DEF Shown
  <2>7. Sound(new) BY <2>1, <2>3, <2>4, <2>5, <2>6 DEF Sound
  <2>8. op'[x] = new BY <2>2 DEF CloseTransport
  <2> QED BY <2>7, <2>8
<1>2. op' \in [Calls -> Operations]
  <2>1. op' = [x \in Calls |-> op'[x]] BY DEF CloseTransport
  <2>2. \A x \in Calls : op'[x] \in Operations BY <1>1 DEF Sound
  <2> QED BY <2>1, <2>2
<1>3. SoundInv' <=> op' \in [Calls -> Operations] /\ \A x \in Calls : Sound(op'[x])
  BY DEF SoundInv, Sound, Operations, Reading, Known, Shown
<1> QED BY <1>1, <1>2, <1>3

\* close(), step by step, and the answer to a cancel request.
LEMMA CloseKeepsInv ==
  ASSUME OpenAiAssumption, SoundInv, ClosingInv,
         Close \/ CloseWaits \/ CloseTransport \/ \E c \in Calls : Answer(c)
  PROVE  ClosingInv'
<1>1. CASE Close
  BY <1>1 DEF Close, ClosingInv, Posted, Registered, Before, Settled, Pending
<1>2. CASE CloseWaits
  BY <1>2 DEF CloseWaits, ClosingInv, Posted, Registered, Pending
<1>3. CASE CloseTransport
  <2>1. /\ op' = [x \in Calls |-> [op[x] EXCEPT !.open = FALSE]]
        /\ post' = [x \in Calls |-> IF post[x] = "sent" THEN "cut" ELSE post[x]]
        /\ closing = "waiting" /\ closing' = "closed" /\ toCancel' = toCancel
        /\ awaited \cap Pending = {}
    BY <1>3 DEF CloseTransport
  <2>2. post' \in [Calls -> {"none", "sent", "settled", "cut"}] BY <2>1 DEF ClosingInv
  <2>3. ASSUME NEW x \in Calls
        PROVE  /\ Posted(x)' /\ (x \in toCancel' => op'[x].stage \notin Before)
               /\ post'[x] = "cut" => op'[x].late
    <3>1. op[x] \in Operations BY DEF SoundInv
    <3>2. PICK new : new = [op[x] EXCEPT !.open = FALSE]
      OBVIOUS
    <3>3. op'[x] = new BY <2>1, <3>2
    <3>4. new.stage = op[x].stage /\ new.outcome = op[x].outcome /\ new.handle = op[x].handle
          /\ new.late = op[x].late
      BY <3>1, <3>2 DEF Operations
    <3>5. post'[x] = IF post[x] = "sent" THEN "cut" ELSE post[x] BY <2>1
    <3>6. /\ Posted(x) /\ (x \in toCancel => op[x].stage \notin Before)
          /\ (x \in Pending => op[x].late \/ x \in awaited) /\ (post[x] = "cut" => op[x].late)
      BY <2>1 DEF ClosingInv
    <3>7. post[x] = "sent" => x \in Pending /\ x \notin awaited BY <2>1 DEF Pending
    <3>8. Posted(x)' BY <3>3, <3>4, <3>5, <3>6 DEF Posted
    <3>9. post'[x] = "cut" => new.late BY <3>4, <3>5, <3>6, <3>7
    <3> QED BY <2>1, <3>3, <3>4, <3>6, <3>8, <3>9
  <2> QED BY <2>1, <2>2, <2>3 DEF ClosingInv
<1>4. CASE \E c \in Calls : Answer(c)
  <2>1. PICK c \in Calls : Answer(c) BY <1>4
  <2>2. /\ post[c] = "sent" /\ post' = [post EXCEPT ![c] = "settled"]
        /\ op' = op /\ closing' = closing /\ toCancel' = toCancel /\ awaited' = awaited
    BY <2>1 DEF Answer
  <2> QED BY <2>2 DEF ClosingInv, Posted, Pending, Registered
<1> QED BY <1>1, <1>2, <1>3, <1>4

-----------------------------------------------------------------------------
\* Every step keeps both invariants.
LEMMA OpenAiStepKeepsInv ==
  ASSUME OpenAiAssumption, SoundInv, ClosingInv, [OpenAiNext]_openAiVars
  PROVE  SoundInv' /\ ClosingInv'
<1>1. ASSUME NEW c \in Calls, Run(c)
      PROVE  SoundInv' /\ ClosingInv'
  <2>1. CASE Create(c) \/ CreateFails(c) BY <2>1, BeginningKeepsInv
  <2>2. CASE Created(c) BY <2>2, CreatedKeepsInv
  <2>3. CASE Receive(c) BY <2>3, ReceiveKeepsInv
  <2>4. CASE EndOfStream(c) BY <2>4, EndOfStreamKeepsInv
  <2>5. CASE Break(c) \/ Resolve(c) \/ Expire(c) \/ ReadFails(c) BY <2>5, WaitingKeepsInv
  <2>6. CASE Resumed(c) \/ Polled(c) BY <2>6, AnsweredKeepsInv
  <2>7. CASE Notice(c) BY <2>7, NoticeKeepsInv
  <2>8. CASE Answer(c)
    <3>1. ClosingInv' BY <2>8, CloseKeepsInv
    <3>2. SoundInv' BY <2>8, OperationsUntouched DEF Answer
    <3> QED BY <3>1, <3>2
  <2> QED BY <1>1, <2>1, <2>2, <2>3, <2>4, <2>5, <2>6, <2>7, <2>8 DEF Run
<1>2. ASSUME NEW c \in Calls, CancelCall(c)
      PROVE  SoundInv' /\ ClosingInv'
  <2>1. op[c].stage \notin Before BY <1>2 DEF CancelCall, Registered, Before, Settled
  <2> QED BY <1>2, <2>1, CancellingKeepsInv DEF CancelCall
<1>3. ASSUME NEW c \in Calls, CloseCancels(c)
      PROVE  SoundInv' /\ ClosingInv'
  <2>1. op[c].stage \notin Before /\ toCancel' \subseteq toCancel
    BY <1>3 DEF CloseCancels, ClosingInv
  <2>2. CASE Live(c)
    BY <1>3, <2>1, <2>2, CancellingKeepsInv DEF CloseCancels
  <2>3. CASE ~Live(c)
    <3>1. op' = op /\ post' = post /\ closing = "cancelling" /\ closing' = closing
      BY <1>3, <2>3 DEF CloseCancels
    <3>2. ClosingInv' BY <2>1, <3>1 DEF ClosingInv, Posted
    <3> QED BY <3>1, <3>2, OperationsUntouched
  <2> QED BY <2>2, <2>3
<1>4. ASSUME NEW c \in Calls, Accept(c) \/ Finish(c)
      PROVE  SoundInv' /\ ClosingInv'
  <2>1. op' = op /\ post' = post /\ closing' = closing /\ toCancel' = toCancel /\ awaited' = awaited
    BY <1>4 DEF Accept, Finish
  <2>2. ClosingInv' BY <2>1 DEF ClosingInv, Posted, Pending, Registered
  <2> QED BY <2>1, <2>2, OperationsUntouched
<1>5. ASSUME NEW c \in Calls, \E mode \in Asks[c] : Start(c, mode)
      PROVE  SoundInv' /\ ClosingInv'
  BY <1>5, BeginningKeepsInv
<1>6. CASE Close \/ CloseWaits
  <2>1. ClosingInv' BY <1>6, CloseKeepsInv
  <2> QED BY <1>6, <2>1, OperationsUntouched DEF Close, CloseWaits
<1>7. CASE CloseTransport
  BY <1>7, CloseKeepsInv, TransportKeepsAnswers
<1>8. CASE UNCHANGED openAiVars
  <2>1. op' = op /\ post' = post /\ closing' = closing /\ toCancel' = toCancel /\ awaited' = awaited
    BY <1>8 DEF openAiVars
  <2>2. ClosingInv' BY <2>1 DEF ClosingInv, Posted, Pending, Registered
  <2> QED BY <2>1, <2>2, OperationsUntouched
<1> QED BY <1>1, <1>2, <1>3, <1>4, <1>5, <1>6, <1>7, <1>8 DEF OpenAiNext

\* No operation has begun.
LEMMA OpenAiInitInv ==
  ASSUME OpenAiAssumption, OpenAiInit
  PROVE  SoundInv /\ ClosingInv
<1>1. PICK idle : idle = Idle
  OBVIOUS
<1>2. /\ idle.stage = "idle" /\ idle.mode = "synchronous" /\ idle.outcome = "none"
      /\ ~idle.handle /\ idle.highest = -1 /\ idle.checked /\ idle.next = 0
      /\ idle.surfaced = <<>> /\ ~idle.terminal
  BY <1>1 DEF Idle
<1>3. idle \in Operations
  <2>1. -1 \in -1 .. Last /\ 0 \in Nat /\ <<>> \in Seq(0 .. Last) BY DEF OpenAiAssumption
  <2> QED BY <1>1, <2>1 DEF Idle, Operations, Before, Starting, Modes
<1>4. Reading(idle)
  <2>1. -1 + 1 = 0 /\ -1 # Last BY DEF OpenAiAssumption
  <2>2. <<>> = [i \in 1 .. 0 |-> i - 1] OBVIOUS
  <2>3. Shown(idle, idle.highest + 1) BY <1>2, <2>1, <2>2 DEF Shown
  <2>4. idle.stage \in Before \ Waits BY <1>2 DEF Before, Starting, Waits
  <2> QED BY <1>2, <2>1, <2>3, <2>4 DEF Reading
<1>5. Known(idle) BY <1>2 DEF Known, Background
<1>6. Sound(idle) BY <1>2, <1>3, <1>4, <1>5 DEF Sound
<1>7. op \in [Calls -> Operations] /\ \A c \in Calls : op[c] = idle
  BY <1>1, <1>3 DEF OpenAiInit
<1>8. SoundInv BY <1>6, <1>7 DEF SoundInv
<1>9. ClosingInv BY <1>2, <1>7 DEF OpenAiInit, ClosingInv, Posted
<1> QED BY <1>8, <1>9

\* Every operation is sound, and close() knows what it waits for.
THEOREM OperationsAreSound == OpenAiSpec => [](SoundInv /\ ClosingInv)
<1>1. OpenAiInit => SoundInv /\ ClosingInv BY OpenAiAssumption, OpenAiInitInv
<1>2. SoundInv /\ ClosingInv /\ [OpenAiNext]_openAiVars => (SoundInv /\ ClosingInv)'
  BY OpenAiAssumption, OpenAiStepKeepsInv
<1> QED BY <1>1, <1>2, PTL DEF OpenAiSpec

\* Whatever a resumed stream replays or skips, for a response of any length and
\* any number of resumes, retries and polls, the caller sees its events once
\* each, in order and without a gap, and all of them if the operation
\* completes: createSequenceGuard drops what was surfaced before, and
\* assertResumeContinuity refuses what begins further on.
THEOREM AnswersAreWhole == OpenAiSpec => []AnswerIsWhole
<1>1. SoundInv => AnswerIsWhole
  <2> SUFFICES ASSUME SoundInv, NEW c \in Calls
               PROVE  /\ op[c].surfaced = [i \in 1 .. Len(op[c].surfaced) |-> i - 1]
                      /\ op[c].outcome = "completed" => Len(op[c].surfaced) = Last + 1
    BY DEF AnswerIsWhole
  <2>1. Sound(op[c]) BY DEF SoundInv
  <2>2. \E n \in 0 .. Last + 1 : Shown(op[c], n) /\ (op[c].outcome = "completed" => n = Last + 1)
    <3>1. CASE op[c].outcome = "none" BY <2>1, <3>1, OpenAiAssumption, ShowsABeginning
    <3>2. CASE op[c].outcome # "none" BY <2>1, <3>2 DEF Sound
    <3> QED BY <3>1, <3>2
  <2>3. PICK n \in 0 .. Last + 1 :
          Shown(op[c], n) /\ (op[c].outcome = "completed" => n = Last + 1)
    BY <2>2
  <2>4. n \in Nat BY OpenAiAssumption DEF OpenAiAssumption
  <2>5. Len([i \in 1 .. n |-> i - 1]) = n BY <2>4
  <2> QED BY <2>3, <2>5 DEF Shown
<1> QED BY <1>1, OperationsAreSound, PTL

\* Cancelling an operation cancels its response as soon as the id was received,
\* be it on the stream, and no other response; and close() cuts off no cancel
\* request of an operation that had begun when it was called.
THEOREM CancellationsArrive == OpenAiSpec => []CancelArrives
<1>1. SoundInv /\ ClosingInv => CancelArrives
  <2> SUFFICES ASSUME SoundInv, ClosingInv, NEW c \in Calls
               PROVE  /\ (CancelRemote /\ op[c].mode \in Background /\ op[c].outcome = "cancelled"
                            /\ (op[c].highest >= 0 \/ op[c].mode = "background")) => post[c] # "none"
                      /\ post[c] # "none" => op[c].outcome = "cancelled"
                      /\ post[c] = "cut" => op[c].late
    BY DEF CancelArrives, CancelReachesRemote, CloseCutsNothing
  <2>1. Sound(op[c]) /\ Posted(c) /\ (post[c] = "cut" => op[c].late) BY DEF SoundInv, ClosingInv
  <2>2. op[c].outcome = "cancelled" => op[c].stage \notin Before BY <2>1 DEF Sound
  <2>3. op[c].outcome = "cancelled" /\ op[c].mode \in Background
          /\ (op[c].highest >= 0 \/ op[c].mode = "background") => op[c].handle
    BY <2>1, <2>2 DEF Sound, Known
  <2> QED BY <2>1, <2>3 DEF Posted
<1> QED BY <1>1, OperationsAreSound, PTL
=============================================================================
