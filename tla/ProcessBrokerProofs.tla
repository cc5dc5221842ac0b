------------------------- MODULE ProcessBrokerProofs -------------------------
(***************************************************************************)
(* Theorems about the process broker, for any number of executions and     *)
(* sessions and any limits: no process runs on against a reason to stop    *)
(* it, what a process needs is released after it, and what is read from it *)
(* and written to it arrives whole and in order.                           *)
(***************************************************************************)
EXTENDS ProcessBroker, SequenceTheorems, TLAPS

-----------------------------------------------------------------------------
(* The inductive invariant                                                 *)

\* Where a call stands before it has a process, and after.
Early == {"idle", "checking", "preparing", "resolving", "spawning", "unwinding", "refused"}
Late == {"disposing", "done"}

\* What the stage of a call says of its process, its outcome, its stoppers and
\* its sandbox.
Staged(c) ==
  /\ pc[c] \in Early => /\ child[c] = "none" /\ watch[c] = {}
                        /\ state[c] \in {"requested", "starting"}
  /\ pc[c] \notin Early => child[c] # "none" /\ state[c] \notin {"requested", "starting"}
  /\ pc[c] = "opening" => c \in Sessions /\ child[c] = "alive"
  /\ pc[c] \in Late => child[c] # "alive" /\ settled(c)
  /\ state[c] \in {"succeeded", "failed"} => pc[c] \in Late
  /\ pc[c] \in {"idle", "checking", "preparing"} => sandbox[c] = "none"
  /\ pc[c] \in {"resolving", "spawning", "opening", "running", "disposing", "unwinding"}
       => sandbox[c] = "prepared"
  /\ pc[c] \in Over => sandbox[c] # "prepared"

StageInv == \A c \in Calls : Staged(c)

\* A living child was told to stop, or every reason to stop it is still ahead
\* and watched for.
Watched(c) ==
  child[c] = "alive" =>
    \/ settled(c) /\ c \in told
    \/ ~settled(c) /\ lease[c] # "ended" /\ c \notin aborted /\ {"lease", "signal"} \subseteq watch[c]

WatchInv == \A c \in Calls : Watched(c)

\* The session and its event queue agree with the stage of the call, and while
\* the stream is whole the queue numbers events by the bytes counted.
Streaming(c) ==
  /\ pc[c] \in Early => /\ output[c].bytes = 0 /\ queue[c].events = <<>> /\ queue[c].sequence = 0
                        /\ reader[c] = [at |-> "away", seen |-> 0]
  /\ queue[c].finished => pc[c] \in Late
  /\ reader[c].at = "waiting" => queue[c].events = <<>>
  /\ state[c] \in {"running", "succeeded", "failed"} /\ reader[c].at # "closed" =>
       /\ queue[c].events = [i \in 1..Len(queue[c].events) |-> reader[c].seen + i]
       /\ reader[c].seen + Len(queue[c].events) = output[c].bytes
       /\ queue[c].sequence = output[c].bytes

StreamInv == \A c \in Sessions : Streaming(c)

\* The writes of a session: what was lost was lost to a settled session.
Writing(c) ==
  /\ input[c].handed => pc[c] \in {"running"} \cup Late
  /\ ~input[c].handed => input[c].pending = 0 /\ input[c].stdin = "open"
  /\ ~input[c].whole => settled(c)
  /\ input[c].stdin = "closed" => input[c].pending = 0 /\ input[c].whole

InputInv == \A c \in Sessions : Writing(c)

\* What close() has still to wait for: nothing joins what is listed or in
\* flight once it has begun.
CloseInv ==
  /\ closing = "sessions" => Listed \subseteq awaits
  /\ closing = "inflight" => Listed = {} /\ Inflight \subseteq awaits
  /\ closing = "closed" => Listed = {} /\ Inflight = {}

-----------------------------------------------------------------------------
(* Types                                                                   *)

ProcessStates == {"requested", "starting", "running"} \cup TERMINAL_STATES

\* The parts of TypeOK: what is kept of a call, of its streams and of close().
CallTypes ==
  /\ pc \in [Calls -> Stages]
  /\ state \in [Calls -> ProcessStates]
  /\ lease \in [Calls -> {"active", "lapsed", "ended"}]
  /\ watch \in [Calls -> SUBSET Stoppers]
  /\ aborted \subseteq Calls /\ told \subseteq Calls
  /\ child \in [Calls -> {"none", "alive", "success", "failure", "lost"}]
  /\ sandbox \in [Calls -> {"none", "prepared", "disposed"}]

Streams == [events : Seq(Nat), sequence : Nat, finished : BOOLEAN]
Readers == [at : {"away", "waiting", "ended", "closed"}, seen : Nat]
Inputs ==
  [handed : BOOLEAN, pending : Nat, busy : BOOLEAN, queued : Nat, total : Nat,
   whole : BOOLEAN, stdin : {"open", "closing", "closed", "dropped"}]

\* ... with the limit that keeps the room left in an event queue a number,
StreamTypes ==
  /\ output \in [Calls -> [bytes : 0..MaxOutput, overflow : BOOLEAN]]
  /\ queue \in [Sessions -> Streams]
  /\ reader \in [Sessions -> Readers]
  /\ \A c \in Sessions : Len(queue[c].events) <= MaxQueuedEvents

\* ... and the count that keeps the bytes waiting to be written one.
InputTypes ==
  /\ input \in [Sessions -> Inputs]
  /\ \A c \in Sessions : /\ input[c].queued = input[c].pending
                         /\ input[c].busy => input[c].pending > 0

ClosingTypes == closing \in {"open", "sessions", "inflight", "closed"} /\ awaits \subseteq Calls

\* The parts are stronger than TypeOK, which the counters alone do not keep.
LEMMA TypeParts == CallTypes /\ StreamTypes /\ InputTypes /\ ClosingTypes => TypeOK
BY DEF TypeOK, CallTypes, StreamTypes, InputTypes, ClosingTypes, ProcessStates, Streams, Readers, Inputs

\* Sessions are calls, and an execution is none.
LEMMA SessionsAreCalls == Sessions \subseteq Calls /\ Calls \ Sessions = Executions
BY BrokerAssumption DEF Calls

\* terminateWith settles an outcome that was open, and then the process is told.
LEMMA TerminateEffect ==
  ASSUME NEW c \in Calls, NEW next, TerminateWith(c, next)
  PROVE  /\ \/ settled(c) /\ state' = state
            \/ ~settled(c) /\ state' = [state EXCEPT ![c] = next]
         /\ told' \in {told, told \cup {c}}
         /\ ~settled(c) => c \in told'
BY DEF TerminateWith, Settled, Asked, settled

\* Every step keeps the types of the calls.
LEMMA CallTypesStep ==
  ASSUME CallTypes, [Next]_vars
  PROVE  CallTypes'
<1>. USE DEF CallTypes
<1>t. ASSUME NEW d \in Calls, NEW next \in TERMINAL_STATES, TerminateWith(d, next)
      PROVE  state' \in [Calls -> ProcessStates] /\ told' \subseteq Calls
  BY <1>t, TerminateEffect DEF ProcessStates
<1>k. {"cancelled", "closed", "deadline-exceeded", "lease-expired", "quota-exceeded", "backend-lost",
       "succeeded", "failed"} \subseteq TERMINAL_STATES
  BY DEF TERMINAL_STATES
<1>1. ASSUME NEW d \in Calls, Start(d) \/ Admit(d) PROVE CallTypes'
  BY <1>1 DEF Start, Admit, Stages
<1>2. ASSUME NEW d \in Calls, Prepare(d) \/ Unwind(d) \/ Deliver(d) PROVE CallTypes'
  BY <1>2 DEF Prepare, Unwind, Deliver, Stages
<1>3. ASSUME NEW d \in Calls, Resolve(d) PROVE CallTypes'
  BY <1>3 DEF Resolve, Stages, ProcessStates
<1>4. ASSUME NEW d \in Calls, Spawn(d) PROVE CallTypes'
  <2>1. Verdict(d) \in ProcessStates
    BY <1>k DEF Verdict, ProcessStates, TERMINAL_STATES
  <2>2. pc' \in [Calls -> Stages]
    BY <1>4 DEF Spawn, Stages
  <2>3. /\ state' \in [Calls -> ProcessStates] /\ told' \subseteq Calls
        /\ child' \in [Calls -> {"none", "alive", "success", "failure", "lost"}]
        /\ UNCHANGED <<lease, aborted, sandbox>>
    BY <1>4, <2>1 DEF Spawn
  <2>4. watch' \in [Calls -> SUBSET Stoppers]
    BY <1>4 DEF Spawn, Stoppers
  <2>. QED BY <2>2, <2>3, <2>4
<1>5. ASSUME NEW d \in Sessions, HandOver(d) PROVE CallTypes'
  <2>1. state' \in [Calls -> ProcessStates] /\ told' \subseteq Calls
    BY <1>5, <1>t, <1>k, SessionsAreCalls DEF HandOver
  <2>. QED BY <1>5, <2>1 DEF HandOver, Stages
<1>6. ASSUME NEW d \in Calls,
             \/ Deadline(d) \/ EndLease(d) \/ Abort(d)
             \/ \E next \in {"cancelled", "closed"} : EndSession(d, next)
             \/ \E n \in 1..MaxChunk : Output(d, n)
      PROVE CallTypes'
  <2>1. \/ \E next \in TERMINAL_STATES : TerminateWith(d, next)
        \/ UNCHANGED <<state, told>>
    BY <1>6, <1>k DEF Deadline, EndLease, Abort, EndSession, Output
  <2>2. state' \in [Calls -> ProcessStates] /\ told' \subseteq Calls
    BY <2>1, <1>t
  <2>3. \/ UNCHANGED watch
        \/ \E x : watch' = [watch EXCEPT ![d] = watch[d] \ {x}]
    BY <1>6 DEF Deadline, EndLease, Abort, EndSession, Output
  <2>4. watch' \in [Calls -> SUBSET Stoppers]
    BY <2>3
  <2>5. /\ UNCHANGED <<pc, child, sandbox>>
        /\ lease' \in [Calls -> {"active", "lapsed", "ended"}] /\ aborted' \subseteq Calls
    BY <1>6 DEF Deadline, EndLease, Abort, EndSession, Output
  <2>. QED BY <2>2, <2>4, <2>5
<1>7. ASSUME NEW d \in Calls, Lapse(d) \/ Exit(d) PROVE CallTypes'
  BY <1>7 DEF Lapse, Exit
<1>8. ASSUME NEW d \in Sessions, Talk(d) PROVE CallTypes'
  <2>1. \/ TerminateWith(d, "backend-lost")
        \/ UNCHANGED <<state, told>>
    BY <1>8 DEF Talk, Read, Leave, Write, WriteTurn, WriteAnswered, CloseStdin, StdinTurn, callVars
  <2>2. state' \in [Calls -> ProcessStates] /\ told' \subseteq Calls
    BY <2>1, <1>t, <1>k, SessionsAreCalls
  <2>3. UNCHANGED <<pc, lease, watch, aborted, child, sandbox>>
    BY <1>8 DEF Talk, Read, Leave, Write, WriteTurn, WriteAnswered, CloseStdin, StdinTurn, callVars
  <2>. QED BY <2>2, <2>3
<1>9. ASSUME NEW d \in Calls, Finalize(d) PROVE CallTypes'
  <2>1. Outcome(d) \in ProcessStates
    BY <1>k DEF Outcome, ProcessStates
  <2>. QED BY <1>9, <2>1 DEF Finalize, Settled, Stages
<1>10. CASE Close \/ CloseSessions \/ CloseBackend
  <2>1. state' \in [Calls -> ProcessStates] /\ told' \subseteq Calls
    BY <1>10, <1>k, SessionsAreCalls DEF Close, CloseSessions, CloseBackend, Listed, callVars, ProcessStates
  <2>2. UNCHANGED <<pc, lease, watch, aborted, child, sandbox>>
    BY <1>10 DEF Close, CloseSessions, CloseBackend, callVars
  <2>. QED BY <2>1, <2>2
<1>11. CASE UNCHANGED vars
  BY <1>11 DEF vars, callVars
<1>. QED
  BY <1>1, <1>2, <1>3, <1>4, <1>5, <1>6, <1>7, <1>8, <1>9, <1>10, <1>11 DEF Next, Advance, Stop

\* What push does to a queue with room for what it holds: the event a waiting
\* reader gets, the events that fit behind those queued, and the number of the
\* first one that does not fit.
LEMMA PushEffect ==
  ASSUME NEW q \in Streams, NEW r \in Readers, NEW n \in 1..MaxChunk,
         Len(q.events) <= MaxQueuedEvents, r.at = "waiting" => q.events = <<>>
  PROVE  /\ Push(q, r, n).q \in Streams /\ Push(q, r, n).r \in Readers
         /\ Len(Push(q, r, n).q.events) <= MaxQueuedEvents
         /\ Push(q, r, n).q.finished = q.finished
         /\ Push(q, r, n).r.at = (IF r.at = "waiting" THEN "away" ELSE r.at)
         /\ Push(q, r, n).ok /\ r.seen + Len(q.events) = q.sequence
              /\ q.events = [i \in 1..Len(q.events) |-> r.seen + i]
              => /\ Push(q, r, n).q.sequence = q.sequence + n
                 /\ Push(q, r, n).r.seen + Len(Push(q, r, n).q.events) = q.sequence + n
                 /\ Push(q, r, n).q.events
                      = [i \in 1..Len(Push(q, r, n).q.events) |-> Push(q, r, n).r.seen + i]
<1>n. MaxQueuedEvents \in Nat /\ n \in Nat /\ n > 0
  BY BrokerAssumption
<1>4. /\ q.events \in Seq(Nat) /\ Len(q.events) \in Nat /\ q.sequence \in Nat
      /\ q.finished \in BOOLEAN /\ r.seen \in Nat
  BY DEF Streams, Readers
<1>1. PICK direct \in 0..1 : direct = (IF r.at = "waiting" THEN 1 ELSE 0)
  OBVIOUS
<1>r. PICK room \in Nat : room = MaxQueuedEvents - Len(q.events)
  <2>1. MaxQueuedEvents - Len(q.events) \in Nat
    BY <1>n, <1>4
  <2>. QED BY <2>1
<1>d. n - direct \in Nat
  BY <1>n
<1>. DEFINE ok == n - direct <= room
<1>0. PICK kept \in Nat : kept = (IF ok THEN n - direct ELSE room)
  BY <1>d
<1>2. PICK tail : tail = [i \in 1..kept |-> q.sequence + direct + i]
  OBVIOUS
<1>3. /\ Push(q, r, n).ok <=> ok
      /\ Push(q, r, n).q = [q EXCEPT !.sequence = q.sequence + direct + kept + (IF ok THEN 0 ELSE 1),
                                     !.events = q.events \o tail]
      /\ Push(q, r, n).r = (IF direct = 1 THEN [at |-> "away", seen |-> q.sequence + 1] ELSE r)
  BY <1>1, <1>r, <1>0, <1>2 DEF Push
<1>5. kept <= room
  BY <1>0, <1>d
<1>6. tail \in Seq(Nat) /\ Len(tail) = kept
  BY <1>2, <1>4, <1>5
<1>7. q.events \o tail \in Seq(Nat) /\ Len(q.events \o tail) = Len(q.events) + kept
  BY <1>4, <1>6, ConcatProperties
<1>8. PICK newq : newq = [q EXCEPT !.sequence = q.sequence + direct + kept + (IF ok THEN 0 ELSE 1),
                                   !.events = q.events \o tail]
  OBVIOUS
<1>s. q.sequence + direct + kept + (IF ok THEN 0 ELSE 1) \in Nat
  BY <1>4
<1>9. /\ newq.events = q.events \o tail /\ newq.finished = q.finished
      /\ newq.sequence = q.sequence + direct + kept + (IF ok THEN 0 ELSE 1)
      /\ newq \in Streams
  BY <1>7, <1>8, <1>s DEF Streams
<1>10. PICK newr : newr = (IF direct = 1 THEN [at |-> "away", seen |-> q.sequence + 1] ELSE r)
  OBVIOUS
<1>11. /\ newr \in Readers /\ newr.at = (IF r.at = "waiting" THEN "away" ELSE r.at)
       /\ newr.seen = (IF direct = 1 THEN q.sequence + 1 ELSE r.seen)
  BY <1>1, <1>4, <1>10 DEF Readers
<1>12. Len(newq.events) <= MaxQueuedEvents
  BY <1>n, <1>r, <1>4, <1>5, <1>7, <1>9
<1>13. ASSUME ok, r.seen + Len(q.events) = q.sequence,
              q.events = [i \in 1..Len(q.events) |-> r.seen + i]
       PROVE  /\ newq.sequence = q.sequence + n
              /\ newr.seen + Len(newq.events) = q.sequence + n
              /\ newq.events = [i \in 1..Len(newq.events) |-> newr.seen + i]
  <2>1. kept = n - direct
    BY <1>0, <1>13
  <2>2. newq.sequence = q.sequence + n
    BY <1>4, <1>5, <1>9, <1>13, <2>1
  <2>3. direct = 1 => q.events = <<>> /\ Len(q.events) = 0 /\ newr.seen = q.sequence + 1
    BY <1>1, <1>11
  <2>4. direct = 0 => newr.seen = r.seen
    BY <1>11
  <2>5. newr.seen + Len(newq.events) = q.sequence + n
    <3>1. Len(newq.events) = Len(q.events) + (n - direct)
      BY <1>7, <1>9, <2>1
    <3>n. PICK len, num, seen \in Nat : len = Len(q.events) /\ num = q.sequence /\ seen = r.seen
      BY <1>4
    <3>2. CASE direct = 1
      <4>1. newr.seen = num + 1 /\ Len(newq.events) = 0 + (n - 1)
        BY <2>3, <3>1, <3>2, <3>n
      <4>. QED BY <1>n, <3>n, <4>1
    <3>3. CASE direct = 0
      <4>1. newr.seen = seen /\ Len(newq.events) = len + (n - 0) /\ seen + len = num
        BY <1>13, <2>4, <3>1, <3>3, <3>n
      <4>2. seen + (len + (n - 0)) = num + n
        BY <1>n, <4>1
      <4>. QED BY <3>n, <4>1, <4>2
    <3>. QED BY <3>2, <3>3
  <2>6. ASSUME NEW i \in 1..Len(newq.events) PROVE newq.events[i] = newr.seen + i
    <3>1. i \in 1 .. Len(q.events) + kept
      BY <1>7, <1>9
    <3>2. CASE i <= Len(q.events)
      <4>1. newq.events[i] = q.events[i]
        BY <1>4, <1>6, <1>9, <3>1, <3>2
      <4>2. q.events[i] = r.seen + i
        BY <1>4, <1>5, <1>13, <3>1, <3>2
      <4>. QED BY <1>4, <1>5, <2>3, <2>4, <3>1, <3>2, <4>1, <4>2
    <3>3. CASE i > Len(q.events)
      <4>1. newq.events[i] = tail[i - Len(q.events)]
        BY <1>4, <1>6, <1>9, <3>1, <3>3
      <4>2. tail[i - Len(q.events)] = q.sequence + direct + (i - Len(q.events))
        BY <1>2, <1>4, <1>5, <3>1, <3>3
      <4>3. CASE direct = 1
        BY <1>4, <2>3, <3>1, <4>1, <4>2, <4>3
      <4>4. CASE direct = 0
        <5>1. PICK len, num, seen \in Nat : len = Len(q.events) /\ num = q.sequence /\ seen = r.seen
          BY <1>4
        <5>2. newq.events[i] = num + 0 + (i - len) /\ newr.seen = seen /\ seen + len = num
          BY <1>13, <2>4, <4>1, <4>2, <4>4, <5>1
        <5>3. PICK j \in Nat : j = i
          BY <3>1
        <5>4. (seen + len) + 0 + (j - len) = seen + j
          OBVIOUS
        <5>. QED BY <5>2, <5>3, <5>4
      <4>. QED BY <4>3, <4>4
    <3>. QED BY <1>4, <1>5, <3>1, <3>2, <3>3
  <2>7. newq.events = [i \in 1..Len(newq.events) |-> newr.seen + i]
    <3>1. PICK new, start : new = newq.events /\ start = newr.seen
      OBVIOUS
    <3>2. new \in Seq(Nat)
      BY <1>7, <1>9, <3>1
    <3>3. \A i \in 1..Len(new) : new[i] = start + i
      BY <2>6, <3>1
    <3>4. new = [i \in 1..Len(new) |-> start + i]
      BY <3>2, <3>3
    <3>. QED BY <3>1, <3>4
  <2>. QED BY <2>2, <2>5, <2>7
<1>14. Push(q, r, n).q = newq /\ Push(q, r, n).r = newr
  BY <1>3, <1>8, <1>10
<1>15. Push(q, r, n).ok => ok
  BY <1>3
<1>. HIDE DEF ok
<1>. QED BY <1>9, <1>11, <1>12, <1>13, <1>14, <1>15

\* The collector counts up to its limit, and says so when it met it.
LEMMA KeptEffect ==
  ASSUME NEW o \in [bytes : 0..MaxOutput, overflow : BOOLEAN], NEW n \in 1..MaxChunk
  PROVE  /\ Kept(o, n) \in [bytes : 0..MaxOutput, overflow : BOOLEAN]
         /\ ~Kept(o, n).overflow => Kept(o, n).bytes = o.bytes + n
<1>1. MaxOutput \in Nat /\ n \in Nat /\ o.bytes \in 0..MaxOutput /\ o.overflow \in BOOLEAN
  BY BrokerAssumption
<1>2. MaxOutput \in 0..MaxOutput /\ (o.bytes + n <= MaxOutput => o.bytes + n \in 0..MaxOutput)
  BY <1>1
<1>3. PICK bytes, over : /\ bytes = (IF o.bytes + n <= MaxOutput THEN o.bytes + n ELSE MaxOutput)
                         /\ over \in BOOLEAN /\ (over <=> o.bytes + n > MaxOutput)
  <2>1. (o.bytes + n > MaxOutput) \in BOOLEAN
    OBVIOUS
  <2>. QED BY <2>1
<1>4. bytes \in 0..MaxOutput /\ (~over => bytes = o.bytes + n)
  BY <1>1, <1>2, <1>3
<1>5. Kept(o, n) = (IF o.overflow THEN o ELSE [bytes |-> bytes, overflow |-> over])
  <2>1. over = (o.bytes + n > MaxOutput)
    BY <1>3
  <2>. QED BY <1>3, <2>1 DEF Kept
<1>6. CASE o.overflow
  BY <1>5, <1>6
<1>7. CASE ~o.overflow
  BY <1>4, <1>3, <1>5, <1>7
<1>. QED BY <1>6, <1>7

\* The steps that touch neither the output nor the events of a session.
LEMMA OtherSteps ==
  ASSUME [Next]_vars
  PROVE  \/ \E d \in Calls, n \in 1..MaxChunk : Output(d, n)
         \/ \E d \in Sessions : Read(d) \/ Leave(d)
         \/ \E d \in Calls : Finalize(d)
         \/ UNCHANGED <<output, queue, reader>>
BY DEF Next, Advance, Stop, Talk, Start, Admit, Prepare, Resolve, Spawn, HandOver, Unwind,
       Deliver, Deadline, Lapse, EndLease, Abort, EndSession, Exit, Write, WriteTurn,
       WriteAnswered, CloseStdin, StdinTurn, Close, CloseSessions, CloseBackend, vars, ioVars

\* Every step keeps the types of the streams and the limit of the queue.
LEMMA StreamTypesStep ==
  ASSUME StreamTypes, StreamInv, [Next]_vars
  PROVE  StreamTypes'
<1>. USE DEF StreamTypes
<1>1. ASSUME NEW d \in Calls, NEW n \in 1..MaxChunk, Output(d, n)
      PROVE  StreamTypes'
  <2>1. output' = [output EXCEPT ![d] = Kept(output[d], n)]
    BY <1>1 DEF Output
  <2>2. Kept(output[d], n) \in [bytes : 0..MaxOutput, overflow : BOOLEAN]
    BY KeptEffect
  <2>3. output' \in [Calls -> [bytes : 0..MaxOutput, overflow : BOOLEAN]]
    BY <2>1, <2>2
  <2>4. CASE UNCHANGED <<queue, reader>>
    BY <2>3, <2>4
  <2>5. CASE ~ UNCHANGED <<queue, reader>>
    <3>1. /\ d \in Sessions
          /\ queue' = [queue EXCEPT ![d] = Push(queue[d], reader[d], n).q]
          /\ reader' = [reader EXCEPT ![d] = Push(queue[d], reader[d], n).r]
      BY <1>1, <2>5, SessionsAreCalls DEF Output
    <3>2. PICK q, r : q = Push(queue[d], reader[d], n).q /\ r = Push(queue[d], reader[d], n).r
      OBVIOUS
    <3>3. queue[d] \in Streams /\ reader[d] \in Readers /\ Len(queue[d].events) <= MaxQueuedEvents
          /\ (reader[d].at = "waiting" => queue[d].events = <<>>)
      BY <3>1 DEF StreamInv, Streaming
    <3>4. q \in Streams /\ r \in Readers /\ Len(q.events) <= MaxQueuedEvents
      BY <3>2, <3>3, PushEffect
    <3>. QED BY <2>3, <3>1, <3>2, <3>4
  <2>. QED BY <2>4, <2>5
<1>2. ASSUME NEW d \in Sessions, Read(d) PROVE StreamTypes'
  <2>0. queue[d] \in Streams /\ reader[d] \in Readers /\ output' = output
    BY <1>2 DEF Read
  <2>1. CASE queue[d].events # <<>>
    <3>1. PICK q, r : q = [queue[d] EXCEPT !.events = Tail(queue[d].events)]
                   /\ r = [reader[d] EXCEPT !.seen = Head(queue[d].events)]
      OBVIOUS
    <3>2. queue' = [queue EXCEPT ![d] = q] /\ reader' = [reader EXCEPT ![d] = r]
      BY <1>2, <2>1, <3>1 DEF Read
    <3>3. /\ queue[d].events \in Seq(Nat) /\ Head(queue[d].events) \in Nat
          /\ Tail(queue[d].events) \in Seq(Nat)
          /\ Len(Tail(queue[d].events)) = Len(queue[d].events) - 1
      BY <2>0, <2>1, HeadTailProperties DEF Streams
    <3>4. q \in Streams /\ q.events = Tail(queue[d].events) /\ r \in Readers
      BY <2>0, <3>1, <3>3 DEF Streams, Readers
    <3>5. Len(q.events) <= MaxQueuedEvents
      BY <3>3, <3>4, BrokerAssumption
    <3>. QED BY <2>0, <3>2, <3>4, <3>5
  <2>2. CASE queue[d].events = <<>>
    <3>1. PICK r : r = [reader[d] EXCEPT !.at = IF queue[d].finished THEN "ended" ELSE "waiting"]
      OBVIOUS
    <3>2. queue' = queue /\ reader' = [reader EXCEPT ![d] = r] /\ r \in Readers
      BY <1>2, <2>0, <2>2, <3>1 DEF Read, Readers
    <3>. QED BY <2>0, <3>2
  <2>. QED BY <2>1, <2>2
<1>3. ASSUME NEW d \in Sessions, Leave(d) PROVE StreamTypes'
  <2>1. PICK q, r : q = [queue[d] EXCEPT !.events = <<>>] /\ r = [reader[d] EXCEPT !.at = "closed"]
    OBVIOUS
  <2>0. <<>> \in Seq(Nat) /\ queue[d] \in Streams /\ reader[d] \in Readers
    OBVIOUS
  <2>2. /\ queue' = [queue EXCEPT ![d] = q] /\ reader' = [reader EXCEPT ![d] = r] /\ output' = output
        /\ q \in Streams /\ r \in Readers /\ q.events = <<>>
    <3>1. q \in Streams /\ q.events = <<>>
      BY <2>0, <2>1 DEF Streams
    <3>2. r \in Readers
      BY <2>0, <2>1 DEF Readers
    <3>3. queue' = [queue EXCEPT ![d] = q] /\ reader' = [reader EXCEPT ![d] = r] /\ output' = output
      BY <1>3, <2>1 DEF Leave
    <3>. QED BY <3>1, <3>2, <3>3
  <2>3. Len(q.events) <= MaxQueuedEvents
    BY <2>2, BrokerAssumption
  <2>. QED BY <2>2, <2>3
<1>4. ASSUME NEW d \in Calls, Finalize(d) PROVE StreamTypes'
  <2>1. CASE d \in Sessions
    <3>1. PICK q, r : q = Finished(queue[d]) /\ r = Released(reader[d], queue[d])
      OBVIOUS
    <3>2. queue' = [queue EXCEPT ![d] = q] /\ reader' = [reader EXCEPT ![d] = r] /\ output' = output
      BY <1>4, <2>1, <3>1 DEF Finalize
    <3>3. q \in Streams /\ q.events = queue[d].events /\ r \in Readers
      BY <2>1, <3>1 DEF Finished, Released, Streams, Readers
    <3>. QED BY <3>2, <3>3
  <2>2. CASE d \notin Sessions
    BY <1>4, <2>2 DEF Finalize
  <2>. QED BY <2>1, <2>2
<1>5. CASE UNCHANGED <<output, queue, reader>>
  BY <1>5
<1>. QED BY <1>1, <1>2, <1>3, <1>4, <1>5, OtherSteps

\* The steps that touch the input of a session.
LEMMA InputSteps ==
  ASSUME [Next]_vars
  PROVE  \/ UNCHANGED input
         \/ \E d \in Sessions :
              \/ HandOver(d) \/ Write(d) \/ WriteTurn(d) \/ CloseStdin(d) \/ StdinTurn(d)
              \/ \E ok \in BOOLEAN : WriteAnswered(d, ok)
BY DEF Next, Advance, Stop, Talk, Start, Admit, Prepare, Resolve, Spawn, Unwind, Finalize,
       Deliver, Deadline, Lapse, EndLease, Abort, EndSession, Exit, Output, Read, Leave,
       Close, CloseSessions, CloseBackend, vars, ioVars

\* Every step keeps the types and the counts of the input.
LEMMA InputTypesStep ==
  ASSUME InputTypes, [Next]_vars
  PROVE  InputTypes'
<1>. USE DEF InputTypes
<1>w. ASSUME NEW d \in Sessions, NEW new \in Inputs, input' = [input EXCEPT ![d] = new],
             new.queued = new.pending, new.busy => new.pending > 0
      PROVE  InputTypes'
  BY <1>w
<1>i. ASSUME NEW d \in Sessions
      PROVE  /\ input[d] \in Inputs /\ input[d].pending \in Nat /\ input[d].queued = input[d].pending
             /\ input[d].busy => input[d].pending > 0
  BY <1>i DEF Inputs
<1>1. ASSUME NEW d \in Sessions, HandOver(d) PROVE InputTypes'
  <2>1. PICK new : new = [input[d] EXCEPT !.handed = TRUE]
    OBVIOUS
  <2>2. new \in Inputs /\ new.queued = new.pending /\ (new.busy => new.pending > 0)
    BY <1>i, <2>1 DEF Inputs
  <2>3. input' = input \/ input' = [input EXCEPT ![d] = new]
    BY <1>1, <2>1 DEF HandOver
  <2>. QED BY <1>w, <2>2, <2>3
<1>2. ASSUME NEW d \in Sessions, Write(d) PROVE InputTypes'
  <2>1. PICK new : new = [input[d] EXCEPT !.pending = input[d].pending + 1,
                                          !.queued = input[d].queued + 1,
                                          !.total = input[d].total + 1]
    OBVIOUS
  <2>n. PICK old : old = input[d]
    OBVIOUS
  <2>o. /\ old \in Inputs /\ old.queued = old.pending /\ old.pending \in Nat
        /\ old.pending + 1 \in Nat /\ old.pending + 1 > 0 /\ old.total + 1 \in Nat
    BY <1>i, <2>n DEF Inputs
  <2>p. new = [old EXCEPT !.pending = old.pending + 1, !.queued = old.pending + 1,
                          !.total = old.total + 1]
    BY <2>1, <2>n, <2>o
  <2>2. new \in Inputs /\ new.queued = new.pending /\ (new.busy => new.pending > 0)
    BY <2>o, <2>p DEF Inputs
  <2>3. input' = [input EXCEPT ![d] = new]
    BY <1>2, <2>1 DEF Write
  <2>. QED BY <1>w, <2>2, <2>3
<1>3. ASSUME NEW d \in Sessions, WriteTurn(d) PROVE InputTypes'
  <2>0. input[d].pending > 0 /\ input[d].busy = FALSE
    BY <1>3, <1>i DEF WriteTurn, Inputs
  <2>1. CASE settled(d)
    <3>1. PICK new : new = [input[d] EXCEPT !.pending = input[d].pending - 1,
                                            !.queued = input[d].queued - 1, !.whole = FALSE]
      OBVIOUS
    <3>n. PICK old : old = input[d]
      OBVIOUS
    <3>o. /\ old \in Inputs /\ old.queued = old.pending /\ old.busy = FALSE
          /\ old.pending - 1 \in Nat
      BY <1>i, <2>0, <3>n DEF Inputs
    <3>p. new = [old EXCEPT !.pending = old.pending - 1, !.queued = old.pending - 1,
                            !.whole = FALSE]
      BY <3>1, <3>n, <3>o
    <3>2. new \in Inputs /\ new.queued = new.pending /\ ~new.busy
      BY <3>o, <3>p DEF Inputs
    <3>3. input' = [input EXCEPT ![d] = new]
      BY <1>3, <2>1, <3>1 DEF WriteTurn
    <3>. QED BY <1>w, <3>2, <3>3
  <2>2. CASE ~settled(d)
    <3>1. PICK new : new = [input[d] EXCEPT !.busy = TRUE]
      OBVIOUS
    <3>2. new \in Inputs /\ new.queued = new.pending /\ new.pending > 0
      BY <1>i, <2>0, <3>1 DEF Inputs
    <3>3. input' = [input EXCEPT ![d] = new]
      BY <1>3, <2>2, <3>1 DEF WriteTurn
    <3>. QED BY <1>w, <3>2, <3>3
  <2>. QED BY <2>1, <2>2
<1>4. ASSUME NEW d \in Sessions, NEW ok \in BOOLEAN, WriteAnswered(d, ok) PROVE InputTypes'
  <2>0. input[d].pending > 0
    BY <1>4, <1>i DEF WriteAnswered
  <2>1. PICK new : new = [input[d] EXCEPT !.busy = FALSE, !.pending = input[d].pending - 1,
                                          !.queued = input[d].queued - 1,
                                          !.whole = input[d].whole /\ ok]
    OBVIOUS
  <2>n. PICK old : old = input[d]
    OBVIOUS
  <2>o. /\ old \in Inputs /\ old.queued = old.pending /\ old.pending - 1 \in Nat
        /\ (old.whole /\ ok) \in BOOLEAN
    BY <1>i, <2>0, <2>n DEF Inputs
  <2>p. new = [old EXCEPT !.busy = FALSE, !.pending = old.pending - 1,
                          !.queued = old.pending - 1, !.whole = old.whole /\ ok]
    BY <2>1, <2>n, <2>o
  <2>2. new \in Inputs /\ new.queued = new.pending /\ ~new.busy
    BY <2>o, <2>p DEF Inputs
  <2>3. input' = [input EXCEPT ![d] = new]
    BY <1>4, <2>1 DEF WriteAnswered
  <2>. QED BY <1>w, <2>2, <2>3
<1>5. ASSUME NEW d \in Sessions, CloseStdin(d) \/ StdinTurn(d) PROVE InputTypes'
  <2>1. PICK how \in {"closing", "dropped", "closed"} :
          input' = [input EXCEPT ![d] = [input[d] EXCEPT !.stdin = how]]
    BY <1>5 DEF CloseStdin, StdinTurn
  <2>2. PICK new : new = [input[d] EXCEPT !.stdin = how]
    OBVIOUS
  <2>3. new \in Inputs /\ new.queued = new.pending /\ (new.busy => new.pending > 0)
    BY <1>i, <2>2 DEF Inputs
  <2>. QED BY <1>w, <2>1, <2>2, <2>3
<1>6. CASE UNCHANGED input
  BY <1>6
<1>. QED BY <1>1, <1>2, <1>3, <1>4, <1>5, <1>6, InputSteps

\* Every step keeps the types of close().
LEMMA ClosingTypesStep ==
  ASSUME ClosingTypes, [Next]_vars
  PROVE  ClosingTypes'
<1>1. \/ UNCHANGED <<closing, awaits>>
      \/ Close \/ CloseSessions \/ CloseBackend
  BY DEF Next, Advance, Stop, Talk, Start, Admit, Prepare, Resolve, Spawn, HandOver, Unwind,
         Finalize, Deliver, Deadline, Lapse, EndLease, Abort, EndSession, Exit, Output, Read,
         Leave, Write, WriteTurn, WriteAnswered, CloseStdin, StdinTurn, vars, brokerVars
<1>. QED BY <1>1, SessionsAreCalls
         DEF ClosingTypes, Close, CloseSessions, CloseBackend, Listed, Inflight, Calls

-----------------------------------------------------------------------------
(* Stages                                                                  *)

\* Only sessions that were handed to their caller are ended by it or written to,
\* and they have a process.
LEMMA HandedHasProcess ==
  ASSUME InputTypes, InputInv, NEW d \in Sessions
  PROVE  /\ d \in Listed => pc[d] \in {"running", "disposing"}
         /\ input[d].busy \/ input[d].stdin = "closing" => pc[d] \notin Early
BY DEF InputTypes, InputInv, Writing, Listed, Early, Late

\* A step that only settles the outcome of a call with a process keeps its
\* stage: outcomes that are not the exit's own may come at any time.
LEMMA StageTerminate ==
  ASSUME CallTypes, StageInv, NEW d \in Calls, pc[d] \notin Early,
         NEW next \in TERMINAL_STATES \ {"succeeded", "failed"},
         TerminateWith(d, next) \/ UNCHANGED state,
         UNCHANGED <<pc, child, sandbox>>,
         \A e \in Calls : watch'[e] \subseteq watch[e]
  PROVE  StageInv'
<1>. SUFFICES ASSUME NEW c \in Calls PROVE Staged(c)'
  BY DEF StageInv
<1>1. Staged(c)
  BY DEF StageInv
<1>2. \/ state'[c] = state[c]
      \/ c = d /\ ~settled(c) /\ state'[c] = next
  BY TerminateEffect DEF CallTypes
<1>3. watch[c] = {} => watch'[c] = {}
  OBVIOUS
<1>4. CASE state'[c] = state[c]
  BY <1>1, <1>3, <1>4 DEF Staged, settled
<1>5. CASE c = d /\ ~settled(c) /\ state'[c] = next
  BY <1>1, <1>5 DEF Staged, settled, TERMINAL_STATES
<1>. QED BY <1>2, <1>4, <1>5

\* StageInv is inductive.
LEMMA StageStep ==
  ASSUME CallTypes, InputTypes, StageInv, InputInv, [Next]_vars
  PROVE  StageInv'
<1>. USE DEF CallTypes
<1>f. ASSUME NEW d \in Calls,
             \A c \in Calls \ {d} : /\ pc'[c] = pc[c] /\ child'[c] = child[c] /\ watch'[c] = watch[c]
                                    /\ state'[c] = state[c] /\ sandbox'[c] = sandbox[c],
             Staged(d)'
      PROVE  StageInv'
  BY <1>f DEF StageInv, Staged, settled
<1>d. ASSUME NEW d \in Calls PROVE Staged(d)
  BY <1>d DEF StageInv
<1>1. ASSUME NEW d \in Calls, Start(d) \/ Admit(d) \/ Prepare(d) \/ Resolve(d) \/ Unwind(d)
      PROVE  StageInv'
  <2>1. Staged(d)'
    BY <1>1, <1>d DEF Start, Admit, Prepare, Resolve, Unwind, Staged, settled, Early, Late, Over,
                      TERMINAL_STATES
  <2>. QED BY <1>1, <1>f, <2>1 DEF Start, Admit, Prepare, Resolve, Unwind
<1>2. ASSUME NEW d \in Calls, Spawn(d) PROVE StageInv'
  <2>1. Verdict(d) \in {"running", "lease-expired", "cancelled"}
    BY DEF Verdict
  <2>2. Staged(d)'
    BY <1>2, <1>d, <2>1, SessionsAreCalls
       DEF Spawn, Staged, settled, Early, Late, Over, TERMINAL_STATES
  <2>. QED BY <1>2, <1>f, <2>2 DEF Spawn
<1>3. ASSUME NEW d \in Sessions, HandOver(d) PROVE StageInv'
  <2>1. Staged(d) /\ d \in Calls
    BY <1>d, SessionsAreCalls
  <2>2. \/ state' = state
        \/ ~settled(d) /\ state' = [state EXCEPT ![d] = "closed"]
    BY <1>3, <2>1, TerminateEffect DEF HandOver
  <2>3. Staged(d)'
    BY <1>3, <2>1, <2>2 DEF HandOver, Staged, settled, Early, Late, Over, TERMINAL_STATES
  <2>. QED BY <1>3, <1>f, <2>1, <2>2, <2>3 DEF HandOver
<1>4. ASSUME NEW d \in Calls, Deadline(d) PROVE StageInv'
  <2>1. pc[d] \notin Early
    BY <1>4, <1>d DEF Deadline, Staged
  <2>. QED BY <1>4, <2>1, StageTerminate DEF Deadline, TERMINAL_STATES
<1>5. ASSUME NEW d \in Calls, EndLease(d) PROVE StageInv'
  <2>1. CASE "lease" \in watch[d]
    <3>1. pc[d] \notin Early
      BY <2>1, <1>d DEF Staged
    <3>. QED BY <1>5, <2>1, <3>1, StageTerminate DEF EndLease, TERMINAL_STATES
  <2>2. CASE "lease" \notin watch[d]
    <3>1. /\ UNCHANGED <<pc, child, sandbox, state>> /\ watch' = [watch EXCEPT ![d] = watch[d] \ {"lease"}]
      BY <1>5, <2>2 DEF EndLease
    <3>2. watch' = watch
      BY <2>2, <3>1
    <3>. QED BY <3>1, <3>2 DEF StageInv, Staged, settled
  <2>. QED BY <2>1, <2>2
<1>6. ASSUME NEW d \in Calls, Abort(d) PROVE StageInv'
  <2>1. CASE "signal" \in watch[d]
    <3>1. pc[d] \notin Early
      BY <2>1, <1>d DEF Staged
    <3>. QED BY <1>6, <2>1, <3>1, StageTerminate DEF Abort, TERMINAL_STATES
  <2>2. CASE "signal" \notin watch[d]
    <3>1. /\ UNCHANGED <<pc, child, sandbox, state>> /\ watch' = [watch EXCEPT ![d] = watch[d] \ {"signal"}]
      BY <1>6, <2>2 DEF Abort
    <3>2. watch' = watch
      BY <2>2, <3>1
    <3>. QED BY <3>1, <3>2 DEF StageInv, Staged, settled
  <2>. QED BY <2>1, <2>2
<1>7. ASSUME NEW d \in Calls, NEW next \in {"cancelled", "closed"}, EndSession(d, next)
      PROVE  StageInv'
  <2>1. pc[d] \notin Early
    BY <1>7, HandedHasProcess DEF EndSession, Listed, Early
  <2>. QED BY <1>7, <2>1, StageTerminate DEF EndSession, TERMINAL_STATES
<1>8. ASSUME NEW d \in Calls, NEW n \in 1..MaxChunk, Output(d, n) PROVE StageInv'
  <2>1. pc[d] \notin Early
    BY <1>8, <1>d DEF Output, Staged
  <2>. QED BY <1>8, <2>1, StageTerminate DEF Output, TERMINAL_STATES
<1>9. ASSUME NEW d \in Sessions, Talk(d) PROVE StageInv'
  <2>0. d \in Calls /\ UNCHANGED <<pc, child, sandbox, watch>>
    BY <1>9, SessionsAreCalls DEF Talk, Read, Leave, Write, WriteTurn, WriteAnswered, CloseStdin,
                                  StdinTurn, callVars
  <2>1. \/ UNCHANGED state
        \/ /\ TerminateWith(d, "backend-lost")
           /\ input[d].busy \/ input[d].stdin = "closing"
    BY <1>9 DEF Talk, Read, Leave, Write, WriteTurn, WriteAnswered, CloseStdin, StdinTurn, callVars
  <2>2. CASE UNCHANGED state
    BY <2>0, <2>2 DEF StageInv, Staged, settled
  <2>3. CASE TerminateWith(d, "backend-lost") /\ (input[d].busy \/ input[d].stdin = "closing")
    <3>1. pc[d] \notin Early
      BY <2>3, HandedHasProcess
    <3>. QED BY <2>0, <2>3, <3>1, StageTerminate DEF TERMINAL_STATES
  <2>. QED BY <2>1, <2>2, <2>3
<1>10. ASSUME NEW d \in Calls, Lapse(d) PROVE StageInv'
  BY <1>10 DEF Lapse, StageInv, Staged, settled
<1>11. ASSUME NEW d \in Calls, Exit(d) PROVE StageInv'
  <2>1. Staged(d)'
    BY <1>11, <1>d DEF Exit, Staged, settled, Early, Late
  <2>. QED BY <1>11, <1>f, <2>1 DEF Exit
<1>12. ASSUME NEW d \in Calls, Finalize(d) PROVE StageInv'
  <2>1. Outcome(d) \in TERMINAL_STATES
    BY DEF Outcome, TERMINAL_STATES
  <2>2. \/ settled(d) /\ state' = state
        \/ ~settled(d) /\ state' = [state EXCEPT ![d] = Outcome(d)]
    BY <1>12 DEF Finalize, Settled, settled
  <2>3. Staged(d)'
    BY <1>12, <1>d, <2>1, <2>2 DEF Finalize, Staged, settled, Early, Late, Over, TERMINAL_STATES
  <2>. QED BY <1>12, <1>f, <2>2, <2>3 DEF Finalize
<1>13. ASSUME NEW d \in Calls, Deliver(d) PROVE StageInv'
  <2>1. Staged(d)'
    BY <1>13, <1>d DEF Deliver, Staged, settled, Early, Late, Over
  <2>. QED BY <1>13, <1>f, <2>1 DEF Deliver
<1>14. CASE Close
  <2>. SUFFICES ASSUME NEW c \in Calls PROVE Staged(c)'
    BY DEF StageInv
  <2>1. /\ UNCHANGED <<pc, child, watch, sandbox>>
        /\ \/ state'[c] = state[c]
           \/ ~settled(c) /\ state'[c] = "closed" /\ c \in Listed
    BY <1>14 DEF Close
  <2>2. c \in Listed => pc[c] \in {"running", "disposing"}
    BY DEF Listed
  <2>. QED BY <1>d, <2>1, <2>2 DEF Staged, settled, Early, TERMINAL_STATES
<1>15. CASE CloseSessions \/ CloseBackend \/ UNCHANGED vars
  BY <1>15 DEF CloseSessions, CloseBackend, vars, callVars, StageInv, Staged, settled
<1>. QED
  BY <1>1, <1>2, <1>3, <1>4, <1>5, <1>6, <1>7, <1>8, <1>9, <1>10, <1>11, <1>12, <1>13, <1>14, <1>15
     DEF Next, Advance, Stop

-----------------------------------------------------------------------------
(* Reasons to stop                                                         *)

\* Whoever settles the outcome of a living process also tells it, so the step
\* may take any stopper of that call away.
LEMMA WatchTerminate ==
  ASSUME CallTypes, WatchInv, NEW d \in Calls, NEW next \in TERMINAL_STATES,
         TerminateWith(d, next), UNCHANGED child,
         \A c \in Calls \ {d} : /\ lease'[c] = lease[c] /\ watch'[c] = watch[c]
                                /\ c \in aborted' <=> c \in aborted
  PROVE  WatchInv'
<1>. SUFFICES ASSUME NEW c \in Calls PROVE Watched(c)'
  BY DEF WatchInv
<1>0. Watched(c)
  BY DEF WatchInv
<1>1. /\ \/ settled(d) /\ state' = state
         \/ ~settled(d) /\ state' = [state EXCEPT ![d] = next]
      /\ told' \in {told, told \cup {d}}
      /\ ~settled(d) => d \in told'
  BY TerminateEffect
<1>2. CASE c = d
  BY <1>0, <1>1, <1>2 DEF Watched, settled, CallTypes
<1>3. CASE c # d
  BY <1>0, <1>1, <1>3 DEF Watched, settled, CallTypes
<1>. QED BY <1>2, <1>3

\* WatchInv is inductive.
LEMMA WatchStep ==
  ASSUME CallTypes, StageInv, WatchInv, [Next]_vars
  PROVE  WatchInv'
<1>d. ASSUME NEW d \in Calls PROVE Staged(d) /\ Watched(d)
  BY <1>d DEF StageInv, WatchInv
<1>u. ASSUME UNCHANGED <<child, state, lease, aborted, watch, told>> PROVE WatchInv'
  BY <1>u DEF WatchInv, Watched, settled
<1>t. {"cancelled", "closed", "deadline-exceeded", "lease-expired", "quota-exceeded", "backend-lost"}
        \subseteq TERMINAL_STATES
  BY DEF TERMINAL_STATES
<1>1. ASSUME NEW d \in Calls, Start(d) PROVE WatchInv'
  <2>1. child[d] = "none" /\ child' = child /\ \A c \in Calls \ {d} : lease'[c] = lease[c]
    BY <1>1, <1>d DEF Start, Staged, Early, CallTypes
  <2>. QED BY <1>1, <2>1 DEF Start, WatchInv, Watched, settled
<1>2. ASSUME NEW d \in Calls, Admit(d) \/ Prepare(d) \/ Unwind(d) \/ Deliver(d) PROVE WatchInv'
  BY <1>2, <1>u DEF Admit, Prepare, Unwind, Deliver
<1>3. ASSUME NEW d \in Calls, Resolve(d) PROVE WatchInv'
  <2>1. child[d] = "none" /\ child' = child /\ \A c \in Calls \ {d} : state'[c] = state[c]
    BY <1>3, <1>d DEF Resolve, Staged, Early, CallTypes
  <2>. QED BY <1>3, <2>1 DEF Resolve, WatchInv, Watched, settled
<1>4. ASSUME NEW d \in Calls, Spawn(d) PROVE WatchInv'
  <2>1. CASE pc' = [pc EXCEPT ![d] = "unwinding"] /\ UNCHANGED <<child, state, told, watch>>
    BY <1>4, <2>1, <1>u DEF Spawn
  <2>2. CASE child' = [child EXCEPT ![d] = "alive"] /\ state' = [state EXCEPT ![d] = Verdict(d)]
             /\ told' = (IF Verdict(d) = "running" THEN told ELSE told \cup {d})
             /\ watch' = [watch EXCEPT ![d] = {"timer"}
                  \cup (IF lease[d] = "active" THEN {"lease"} ELSE {})
                  \cup (IF d \in aborted THEN {} ELSE {"signal"})]
    <3>1. lease' = lease /\ aborted' = aborted
      BY <1>4 DEF Spawn
    <3>2. /\ state'[d] = Verdict(d)
          /\ Verdict(d) # "running" => d \in told' /\ Verdict(d) \in TERMINAL_STATES
          /\ Verdict(d) = "running" => lease[d] = "active" /\ d \notin aborted
      BY <1>t, <2>2 DEF Verdict, CallTypes
    <3>3. Verdict(d) = "running" => "lease" \in watch'[d] /\ "signal" \in watch'[d]
      BY <2>2, <3>2 DEF CallTypes
    <3>4. Watched(d)'
      BY <3>1, <3>2, <3>3 DEF Watched, settled, TERMINAL_STATES
    <3>5. ASSUME NEW c \in Calls, c # d PROVE Watched(c)'
      BY <1>d, <2>2, <3>1, <3>5 DEF Watched, settled, CallTypes
    <3>. QED BY <3>4, <3>5 DEF WatchInv
  <2>. QED BY <1>4, <2>1, <2>2 DEF Spawn
<1>5. ASSUME NEW d \in Sessions, HandOver(d) PROVE WatchInv'
  <2>1. CASE UNCHANGED <<state, told>>
    BY <1>5, <1>u, <2>1 DEF HandOver
  <2>2. CASE TerminateWith(d, "closed")
    BY <1>5, <1>t, <2>2, WatchTerminate, SessionsAreCalls DEF HandOver
  <2>. QED BY <1>5, <2>1, <2>2 DEF HandOver
<1>6. ASSUME NEW d \in Calls, Deadline(d) PROVE WatchInv'
  <2>1. \A c \in Calls \ {d} : watch'[c] = watch[c]
    BY <1>6 DEF Deadline, CallTypes
  <2>. QED BY <1>6, <1>t, <2>1, WatchTerminate DEF Deadline
<1>7. ASSUME NEW d \in Calls, EndLease(d) PROVE WatchInv'
  <2>1. /\ \A c \in Calls \ {d} : watch'[c] = watch[c] /\ lease'[c] = lease[c]
        /\ UNCHANGED <<child, aborted>> /\ ~settled(d)
    BY <1>7 DEF EndLease, CallTypes
  <2>2. CASE "lease" \in watch[d]
    BY <1>7, <1>t, <2>1, <2>2, WatchTerminate DEF EndLease
  <2>3. CASE "lease" \notin watch[d]
    <3>1. child[d] # "alive" /\ UNCHANGED <<state, told>>
      BY <1>7, <1>d, <2>1, <2>3 DEF EndLease, Watched
    <3>. QED BY <2>1, <3>1 DEF WatchInv, Watched, settled
  <2>. QED BY <2>2, <2>3
<1>8. ASSUME NEW d \in Calls, Abort(d) PROVE WatchInv'
  <2>1. /\ \A c \in Calls \ {d} : watch'[c] = watch[c] /\ (c \in aborted' <=> c \in aborted)
        /\ UNCHANGED <<child, lease>> /\ ~settled(d)
    BY <1>8 DEF Abort, CallTypes
  <2>2. CASE "signal" \in watch[d]
    BY <1>8, <1>t, <2>1, <2>2, WatchTerminate DEF Abort
  <2>3. CASE "signal" \notin watch[d]
    <3>1. child[d] # "alive" /\ UNCHANGED <<state, told>>
      BY <1>8, <1>d, <2>1, <2>3 DEF Abort, Watched
    <3>. QED BY <2>1, <3>1 DEF WatchInv, Watched, settled
  <2>. QED BY <2>2, <2>3
<1>9. ASSUME NEW d \in Calls,
             \/ \E next \in {"cancelled", "closed"} : EndSession(d, next)
             \/ \E n \in 1..MaxChunk : Output(d, n)
      PROVE WatchInv'
  <2>1. UNCHANGED <<child, lease, aborted, watch>>
    BY <1>9 DEF EndSession, Output
  <2>2. \/ \E next \in TERMINAL_STATES : TerminateWith(d, next)
        \/ UNCHANGED <<state, told>>
    BY <1>9, <1>t DEF EndSession, Output
  <2>. QED BY <1>u, <2>1, <2>2, WatchTerminate
<1>10. ASSUME NEW d \in Sessions, Talk(d) PROVE WatchInv'
  <2>1. UNCHANGED <<child, lease, aborted, watch>>
    BY <1>10 DEF Talk, Read, Leave, Write, WriteTurn, WriteAnswered, CloseStdin, StdinTurn, callVars
  <2>2. \/ TerminateWith(d, "backend-lost")
        \/ UNCHANGED <<state, told>>
    BY <1>10 DEF Talk, Read, Leave, Write, WriteTurn, WriteAnswered, CloseStdin, StdinTurn, callVars
  <2>. QED BY <1>t, <1>u, <2>1, <2>2, WatchTerminate, SessionsAreCalls
<1>11. ASSUME NEW d \in Calls, Lapse(d) PROVE WatchInv'
  BY <1>11 DEF Lapse, WatchInv, Watched, settled, CallTypes
<1>12. ASSUME NEW d \in Calls, Exit(d) PROVE WatchInv'
  BY <1>12 DEF Exit, WatchInv, Watched, settled, CallTypes
<1>13. ASSUME NEW d \in Calls, Finalize(d) PROVE WatchInv'
  <2>1. child[d] # "alive" /\ UNCHANGED <<child, lease, aborted, told>>
    BY <1>13 DEF Finalize
  <2>2. \A c \in Calls \ {d} : watch'[c] = watch[c] /\ state'[c] = state[c]
    BY <1>13 DEF Finalize, Settled, CallTypes
  <2>. QED BY <2>1, <2>2 DEF WatchInv, Watched, settled
<1>14. CASE Close
  <2>. SUFFICES ASSUME NEW c \in Calls PROVE Watched(c)'
    BY DEF WatchInv
  <2>1. /\ UNCHANGED <<child, lease, aborted, watch>> /\ told \subseteq told'
        /\ \/ state'[c] = state[c]
           \/ state'[c] = "closed" /\ c \in told'
    BY <1>14 DEF Close
  <2>. QED BY <1>d, <1>t, <2>1 DEF Watched, settled
<1>15. CASE CloseSessions \/ CloseBackend \/ UNCHANGED vars
  BY <1>15 DEF CloseSessions, CloseBackend, vars, callVars, WatchInv, Watched, settled
<1>. QED
  BY <1>1, <1>2, <1>3, <1>4, <1>5, <1>6, <1>7, <1>8, <1>9, <1>10, <1>11, <1>12, <1>13, <1>14, <1>15
     DEF Next, Advance, Stop

-----------------------------------------------------------------------------
(* Moves                                                                   *)

\* The moves of a call from stage to stage.
Moves(c) ==
  \/ ~closed /\ pc[c] = "idle" /\ pc'[c] \in {"checking", "refused"}
  \/ pc[c] = "checking" /\ pc'[c] \in {"preparing", "refused"}
  \/ pc[c] = "preparing" /\ pc'[c] \in {"resolving", "refused"}
  \/ pc[c] = "resolving" /\ pc'[c] \in {"spawning", "unwinding"}
  \/ pc[c] = "spawning" /\ pc'[c] = (IF c \in Sessions THEN "opening" ELSE "running")
  \/ pc[c] = "spawning" /\ pc'[c] = "unwinding"
  \/ pc[c] = "opening" /\ pc'[c] = "running"
  \/ pc[c] = "unwinding" /\ pc'[c] = "refused"
  \/ pc[c] = "running" /\ pc'[c] = "disposing"
  \/ pc[c] = "disposing" /\ pc'[c] = "done"

\* No step moves a call in another way.
LEMMA StageMoves ==
  ASSUME CallTypes, [Next]_vars, NEW c \in Calls, pc'[c] # pc[c]
  PROVE  Moves(c)
<1>1. \/ UNCHANGED pc
      \/ \E d \in Calls : Start(d) \/ Advance(d)
  BY DEF Next, Stop, Talk, Deadline, Lapse, EndLease, Abort, EndSession, Exit, Output, Read,
         Leave, Write, WriteTurn, WriteAnswered, CloseStdin, StdinTurn, Close, CloseSessions,
         CloseBackend, vars, callVars
<1>2. ASSUME NEW d \in Calls, Start(d) \/ Advance(d) PROVE c = d
  BY <1>2 DEF Start, Advance, Admit, Prepare, Resolve, Spawn, HandOver, Unwind, Finalize, Deliver,
              CallTypes
<1>3. CASE Start(c)
  BY <1>3 DEF Start, CallTypes, Moves
<1>4. CASE Advance(c)
  BY <1>4 DEF Advance, Admit, Prepare, Resolve, Spawn, HandOver, Unwind, Finalize, Deliver,
              CallTypes, Moves
<1>. QED BY <1>1, <1>2, <1>3, <1>4

\* A settled outcome is final.
LEMMA OutcomeIsFinal ==
  ASSUME CallTypes, StageInv, [Next]_vars, NEW c \in Calls, settled(c)
  PROVE  state'[c] = state[c]
<1>s. Staged(c)
  BY DEF StageInv
<1>t. ASSUME NEW d \in Calls, NEW next, TerminateWith(d, next) PROVE state'[c] = state[c]
  <2>1. \/ state' = state
        \/ ~settled(d) /\ state' = [state EXCEPT ![d] = next]
    BY <1>t, TerminateEffect
  <2>. QED BY <2>1 DEF CallTypes
<1>1. ASSUME NEW d \in Calls, Resolve(d) \/ Spawn(d) PROVE state'[c] = state[c]
  <2>1. c # d
    BY <1>1, <1>s DEF Resolve, Spawn, Staged, Early, settled, TERMINAL_STATES
  <2>. QED BY <1>1, <2>1 DEF Resolve, Spawn, CallTypes
<1>2. ASSUME NEW d \in Calls, Finalize(d) PROVE state'[c] = state[c]
  BY <1>2 DEF Finalize, Settled, settled, CallTypes
<1>3. CASE Close
  BY <1>3 DEF Close
<1>4. \/ UNCHANGED state
      \/ \E d \in Calls : \/ Resolve(d) \/ Spawn(d) \/ Finalize(d)
                          \/ \E next : TerminateWith(d, next)
      \/ Close
  <2>1. ASSUME NEW d \in Calls, Advance(d), ~Resolve(d), ~Spawn(d), ~Finalize(d)
        PROVE  UNCHANGED state \/ \E next : TerminateWith(d, next)
    BY <2>1 DEF Advance, Admit, Prepare, HandOver, Unwind, Deliver
  <2>2. ASSUME NEW d \in Calls, Start(d) \/ Stop(d) \/ Exit(d) \/ \E n \in 1..MaxChunk : Output(d, n)
        PROVE  UNCHANGED state \/ \E next : TerminateWith(d, next)
    BY <2>2 DEF Start, Stop, Deadline, Lapse, EndLease, Abort, EndSession, Exit, Output
  <2>3. ASSUME NEW d \in Sessions, Talk(d)
        PROVE  d \in Calls /\ (UNCHANGED state \/ \E next : TerminateWith(d, next))
    BY <2>3, SessionsAreCalls
       DEF Talk, Read, Leave, Write, WriteTurn, WriteAnswered, CloseStdin, StdinTurn, callVars
  <2>4. ASSUME CloseSessions \/ CloseBackend \/ UNCHANGED vars PROVE UNCHANGED state
    BY <2>4 DEF CloseSessions, CloseBackend, vars, callVars
  <2>. QED BY <2>1, <2>2, <2>3, <2>4 DEF Next
<1>. QED BY <1>t, <1>1, <1>2, <1>3, <1>4

-----------------------------------------------------------------------------
(* Closing                                                                 *)

\* Once close() has begun nothing is listed or in flight that was not before.
LEMMA NothingJoins ==
  ASSUME CallTypes, InputTypes, StageInv, InputInv, closed, [Next]_vars
  PROVE  Listed' \subseteq Listed /\ Inflight' \subseteq Inflight
<1>d. ASSUME NEW d \in Calls PROVE Staged(d)
  BY <1>d DEF StageInv
<1>h. \A c \in Sessions : /\ input'[c].handed => input[c].handed
                          /\ input[c].handed => pc[c] \in {"running"} \cup Late
  <2>1. ASSUME NEW c \in Sessions PROVE input'[c].handed => input[c].handed
    <3>1. CASE UNCHANGED input
      BY <3>1
    <3>2. ASSUME NEW d \in Sessions, HandOver(d) PROVE input'[c].handed => input[c].handed
      BY <3>2 DEF HandOver
    <3>3. ASSUME NEW d \in Sessions,
                 \/ Write(d) \/ WriteTurn(d) \/ CloseStdin(d) \/ StdinTurn(d)
                 \/ \E ok \in BOOLEAN : WriteAnswered(d, ok)
          PROVE  input'[c].handed => input[c].handed
      BY <3>3 DEF Write, WriteTurn, CloseStdin, StdinTurn, WriteAnswered, InputTypes, Inputs
    <3>. QED BY <3>1, <3>2, <3>3, InputSteps
  <2>. QED BY <2>1 DEF InputInv, Writing
<1>p. \A c \in Calls : pc'[c] # pc[c] => Moves(c)
  BY StageMoves
<1>1. Listed' \subseteq Listed
  BY <1>h, <1>p, SessionsAreCalls DEF Listed, Late, Moves
<1>2. Inflight' \subseteq Inflight
  BY <1>p, <1>d, SessionsAreCalls, BrokerAssumption DEF Inflight, Over, Staged, Calls, Moves
<1>. QED BY <1>1, <1>2

\* CloseInv is inductive.
LEMMA CloseStep ==
  ASSUME CallTypes, InputTypes, ClosingTypes, StageInv, InputInv, CloseInv, [Next]_vars
  PROVE  CloseInv'
<1>1. CASE Close
  <2>1. Listed' = Listed
    BY <1>1 DEF Close, Listed, ioVars
  <2>. QED BY <1>1, <2>1 DEF Close, CloseInv
<1>2. CASE CloseSessions
  <2>1. Listed' = Listed /\ Inflight' = Inflight
    BY <1>2 DEF CloseSessions, Listed, Inflight, callVars, ioVars
  <2>2. Listed = {}
    BY <1>2 DEF CloseSessions, CloseInv, Listed
  <2>. QED BY <1>2, <2>1, <2>2 DEF CloseSessions, CloseInv
<1>3. CASE CloseBackend
  <2>1. Listed' = Listed /\ Inflight' = Inflight
    BY <1>3 DEF CloseBackend, Listed, Inflight, ioVars
  <2>2. Listed = {} /\ Inflight = {}
    BY <1>3 DEF CloseBackend, CloseInv
  <2>. QED BY <1>3, <2>1, <2>2 DEF CloseBackend, CloseInv
<1>4. CASE UNCHANGED <<closing, awaits>>
  <2>1. CASE closing = "open"
    BY <1>4, <2>1 DEF CloseInv
  <2>2. CASE closing # "open"
    <3>1. Listed' \subseteq Listed /\ Inflight' \subseteq Inflight
      BY <2>2, NothingJoins DEF closed
    <3>. QED BY <1>4, <3>1 DEF CloseInv
  <2>. QED BY <2>1, <2>2
<1>5. \/ UNCHANGED <<closing, awaits>>
      \/ Close \/ CloseSessions \/ CloseBackend
  BY DEF Next, Advance, Stop, Talk, Start, Admit, Prepare, Resolve, Spawn, HandOver, Unwind,
         Finalize, Deliver, Deadline, Lapse, EndLease, Abort, EndSession, Exit, Output, Read,
         Leave, Write, WriteTurn, WriteAnswered, CloseStdin, StdinTurn, vars, brokerVars
<1>. QED BY <1>1, <1>2, <1>3, <1>4, <1>5

-----------------------------------------------------------------------------
(* Streams                                                                 *)

\* The outcomes of a stream that nothing cut off.
Whole == {"running", "succeeded", "failed"}

\* A stream that is whole was whole before, or had not begun.
LEMMA WholeBefore ==
  ASSUME CallTypes, StageInv, [Next]_vars, NEW c \in Calls, state'[c] \in Whole
  PROVE  state[c] \in Whole \/ pc[c] \in Early
<1>1. state[c] \in ProcessStates /\ Staged(c)
  BY DEF CallTypes, StageInv
<1>2. CASE settled(c)
  BY <1>2, OutcomeIsFinal
<1>3. CASE ~settled(c)
  BY <1>1, <1>3 DEF Staged, ProcessStates, settled, Whole
<1>. QED BY <1>2, <1>3

\* A step that leaves the streams of a session alone keeps what is said of
\* them, wherever it moves the call.
LEMMA StreamQuiet ==
  ASSUME CallTypes, StageInv, [Next]_vars, NEW c \in Sessions, Streaming(c),
         output'[c] = output[c], queue'[c] = queue[c], reader'[c] = reader[c]
  PROVE  Streaming(c)'
<1>0. c \in Calls
  BY SessionsAreCalls
<1>1. /\ pc'[c] \in Early => pc[c] \in Early
      /\ pc[c] \in Late => pc'[c] \in Late
  BY <1>0, StageMoves DEF Moves, Early, Late
<1>2. state'[c] \in Whole => state[c] \in Whole \/ pc[c] \in Early
  BY <1>0, WholeBefore
<1>3. pc[c] \in Early =>
        /\ queue[c].events = [i \in 1..Len(queue[c].events) |-> reader[c].seen + i]
        /\ reader[c].seen + Len(queue[c].events) = output[c].bytes
        /\ queue[c].sequence = output[c].bytes
  <2>1. Len(<<>>) = 0 /\ \A x : <<>> = [i \in 1..0 |-> x + i]
    OBVIOUS
  <2>. QED BY <2>1 DEF Streaming
<1>. QED BY <1>1, <1>2, <1>3 DEF Streaming, Whole

\* Output of the child: what is queued and what is seen go on counting the
\* bytes, or the outcome is settled by a limit.
LEMMA StreamOutput ==
  ASSUME CallTypes, StreamTypes, StageInv, StreamInv, [Next]_vars,
         NEW d \in Sessions, NEW n \in 1..MaxChunk, Output(d, n)
  PROVE  Streaming(d)'
<1>0. d \in Calls
  BY SessionsAreCalls
<1>s. Staged(d) /\ Streaming(d)
  BY <1>0 DEF StageInv, StreamInv
<1>1. /\ child[d] = "alive" /\ pc' = pc /\ output' = [output EXCEPT ![d] = Kept(output[d], n)]
      /\ pc[d] \notin Early /\ pc[d] \notin Late /\ queue[d].finished = FALSE
      /\ state[d] \notin {"succeeded", "failed"}
  BY <1>0, <1>s DEF Output, Staged, Streaming, StreamTypes, Streams
<1>2. /\ output'[d] = Kept(output[d], n) /\ output[d] \in [bytes : 0..MaxOutput, overflow : BOOLEAN]
      /\ ~output'[d].overflow => output'[d].bytes = output[d].bytes + n
  BY <1>0, <1>1, KeptEffect DEF StreamTypes
<1>3. ASSUME TerminateWith(d, "quota-exceeded") PROVE state'[d] \notin Whole
  <2>1. \/ settled(d) /\ state' = state
        \/ ~settled(d) /\ state' = [state EXCEPT ![d] = "quota-exceeded"]
    BY <1>0, <1>3, TerminateEffect
  <2>. QED BY <1>0, <1>1, <2>1 DEF settled, TERMINAL_STATES, Whole, CallTypes
<1>4. CASE output'[d].overflow \/ reader[d].at = "closed"
  <2>1. UNCHANGED <<queue, reader>> /\ (output'[d].overflow => TerminateWith(d, "quota-exceeded"))
    BY <1>4, SessionsAreCalls, BrokerAssumption DEF Output
  <2>. QED BY <1>s, <1>1, <1>3, <1>4, <2>1 DEF Streaming, Whole
<1>5. CASE ~output'[d].overflow /\ reader[d].at # "closed"
  <2>0. d \notin Executions
    BY BrokerAssumption
  <2>1. /\ ~output'[d].overflow
        /\ queue' = [queue EXCEPT ![d] = Push(queue[d], reader[d], n).q]
        /\ reader' = [reader EXCEPT ![d] = Push(queue[d], reader[d], n).r]
        /\ ~Push(queue[d], reader[d], n).ok => TerminateWith(d, "quota-exceeded")
        /\ Push(queue[d], reader[d], n).ok => UNCHANGED state
        /\ reader[d].at # "closed"
    BY <1>1, <1>5, <2>0 DEF Output
  <2>2. PICK q, r, p : q = queue[d] /\ r = reader[d] /\ p = Push(q, r, n)
    OBVIOUS
  <2>3. /\ q \in Streams /\ r \in Readers /\ Len(q.events) <= MaxQueuedEvents
        /\ r.at = "waiting" => q.events = <<>>
    BY <1>s, <2>2 DEF StreamTypes, Streaming
  <2>4. /\ p.q.finished = q.finished /\ p.r.at # "waiting"
        /\ p.ok /\ r.seen + Len(q.events) = q.sequence
             /\ q.events = [i \in 1..Len(q.events) |-> r.seen + i]
             => /\ p.q.sequence = q.sequence + n
                /\ p.r.seen + Len(p.q.events) = q.sequence + n
                /\ p.q.events = [i \in 1..Len(p.q.events) |-> p.r.seen + i]
    BY <2>2, <2>3, PushEffect
  <2>5. queue'[d] = p.q /\ reader'[d] = p.r
    BY <2>1, <2>2 DEF StreamTypes
  <2>6. ASSUME state'[d] \in Whole
        PROVE  /\ p.q.sequence = output'[d].bytes
               /\ p.r.seen + Len(p.q.events) = output'[d].bytes
               /\ p.q.events = [i \in 1..Len(p.q.events) |-> p.r.seen + i]
    <3>1. p.ok /\ state[d] \in Whole
      BY <1>3, <2>1, <2>2, <2>6
    <3>2. /\ r.seen + Len(q.events) = output[d].bytes /\ q.sequence = output[d].bytes
          /\ q.events = [i \in 1..Len(q.events) |-> r.seen + i]
      BY <1>s, <2>1, <2>2, <3>1 DEF Streaming, Whole
    <3>. QED BY <1>2, <2>1, <2>4, <3>1, <3>2
  <2>. QED BY <1>1, <2>2, <2>4, <2>5, <2>6 DEF Streaming, Whole
<1>. QED BY <1>4, <1>5

\* The consumer takes the oldest event, or waits for the next one.
LEMMA StreamRead ==
  ASSUME StreamTypes, InputTypes, StreamInv, InputInv, NEW d \in Sessions, Read(d)
  PROVE  Streaming(d)'
<1>s. /\ Streaming(d) /\ pc[d] \notin Early
      /\ UNCHANGED <<pc, state, output>> /\ queue[d] \in Streams /\ reader[d] \in Readers
  BY DEF Read, StreamInv, StreamTypes, InputInv, Writing, callVars, Early, Late
<1>1. CASE queue[d].events = <<>>
  <2>1. /\ queue' = queue /\ reader'[d].seen = reader[d].seen
        /\ reader'[d].at # "closed"
    BY <1>1, <1>s DEF Read, StreamTypes, Readers
  <2>2. reader[d].at # "closed"
    BY DEF Read
  <2>. QED BY <1>1, <1>s, <2>1, <2>2 DEF Streaming
<1>2. CASE queue[d].events # <<>>
  <2>1. PICK e, seen : e = queue[d].events /\ seen = reader[d].seen
    OBVIOUS
  <2>2. /\ e \in Seq(Nat) /\ Len(e) \in Nat /\ Len(e) > 0 /\ seen \in Nat
        /\ Tail(e) \in Seq(Nat) /\ Len(Tail(e)) = Len(e) - 1
        /\ \A i \in 1..Len(Tail(e)) : Tail(e)[i] = e[i + 1]
        /\ Head(e) = e[1]
    BY <1>2, <1>s, <2>1, HeadTailProperties, EmptySeq DEF Streams, Readers
  <2>3. /\ queue'[d].events = Tail(e) /\ queue'[d].sequence = queue[d].sequence
        /\ queue'[d].finished = queue[d].finished
        /\ reader'[d].seen = Head(e) /\ reader'[d].at = "away"
    <3>1. /\ queue' = [queue EXCEPT ![d] = [queue[d] EXCEPT !.events = Tail(queue[d].events)]]
          /\ reader' = [reader EXCEPT ![d] = [reader[d] EXCEPT !.seen = Head(queue[d].events)]]
          /\ reader[d].at = "away"
      BY <1>2 DEF Read
    <3>. QED BY <1>s, <2>1, <3>1 DEF StreamTypes, Streams, Readers
  <2>4. ASSUME e = [i \in 1..Len(e) |-> seen + i]
        PROVE  /\ Tail(e) = [i \in 1..Len(Tail(e)) |-> Head(e) + i]
               /\ Head(e) = seen + 1 /\ Head(e) + Len(Tail(e)) = seen + Len(e)
    <3>1. \A i \in 1..Len(e) : e[i] = seen + i
      BY <2>4
    <3>2. Head(e) = seen + 1
      BY <2>2, <3>1
    <3>3. PICK rest, len, head : rest = Tail(e) /\ len = Len(Tail(e)) /\ head = Head(e)
      OBVIOUS
    <3>4. rest \in Seq(Nat) /\ Len(rest) = len /\ len \in Nat /\ head = seen + 1
      BY <2>2, <3>2, <3>3
    <3>5. ASSUME NEW i \in 1..len PROVE rest[i] = head + i
      <4>1. rest[i] = e[i + 1] /\ i + 1 \in 1..Len(e)
        BY <2>2, <3>3
      <4>2. e[i + 1] = seen + (i + 1)
        BY <3>1, <4>1
      <4>. QED BY <2>2, <3>4, <4>1, <4>2
    <3>6. rest = [i \in 1..len |-> head + i]
      BY <3>4, <3>5
    <3>7. head + len = seen + Len(e)
      BY <2>2, <3>3, <3>4
    <3>. QED BY <3>2, <3>3, <3>6, <3>7
  <2>5. reader[d].at # "closed"
    BY DEF Read
  <2>. QED BY <1>s, <2>1, <2>3, <2>4, <2>5 DEF Streaming
<1>. QED BY <1>1, <1>2

\* StreamInv is inductive.
LEMMA StreamStep ==
  ASSUME CallTypes, StreamTypes, InputTypes, StageInv, StreamInv, InputInv, [Next]_vars
  PROVE  StreamInv'
<1>. SUFFICES ASSUME NEW c \in Sessions PROVE Streaming(c)'
  BY DEF StreamInv
<1>c. Streaming(c) /\ c \in Calls /\ Staged(c)
  BY SessionsAreCalls DEF StreamInv, StageInv
<1>q. ASSUME output'[c] = output[c], queue'[c] = queue[c], reader'[c] = reader[c]
      PROVE  Streaming(c)'
  BY <1>c, <1>q, StreamQuiet
<1>1. ASSUME NEW d \in Calls, NEW n \in 1..MaxChunk, Output(d, n) PROVE Streaming(c)'
  <2>1. CASE c = d
    BY <1>1, <2>1, StreamOutput
  <2>2. CASE c # d
    BY <1>1, <1>c, <1>q, <2>2 DEF Output, StreamTypes
  <2>. QED BY <2>1, <2>2
<1>2. ASSUME NEW d \in Sessions, Read(d) PROVE Streaming(c)'
  <2>1. CASE c = d
    BY <1>2, <2>1, StreamRead
  <2>2. CASE c # d
    BY <1>2, <1>c, <1>q, <2>2 DEF Read, StreamTypes
  <2>. QED BY <2>1, <2>2
<1>3. ASSUME NEW d \in Sessions, Leave(d) PROVE Streaming(c)'
  <2>1. CASE c = d
    <3>1. /\ reader'[c].at = "closed" /\ queue'[c].finished = queue[c].finished
          /\ UNCHANGED pc /\ pc[c] \notin Early
      <4>1. /\ queue' = [queue EXCEPT ![c] = [queue[c] EXCEPT !.events = <<>>]]
            /\ reader' = [reader EXCEPT ![c] = [reader[c] EXCEPT !.at = "closed"]]
            /\ UNCHANGED pc /\ input[c].handed
        BY <1>3, <2>1 DEF Leave, callVars
      <4>2. reader'[c].at = "closed"
        BY <4>1 DEF StreamTypes, Readers
      <4>3. queue'[c].finished = queue[c].finished
        BY <4>1 DEF StreamTypes, Streams
      <4>. QED BY <4>1, <4>2, <4>3 DEF InputInv, Writing, Early, Late
    <3>. QED BY <1>c, <3>1 DEF Streaming
  <2>2. CASE c # d
    BY <1>3, <1>c, <1>q, <2>2 DEF Leave, StreamTypes
  <2>. QED BY <2>1, <2>2
<1>4. ASSUME NEW d \in Calls, Finalize(d) PROVE Streaming(c)'
  <2>1. CASE c = d
    <3>1. /\ output' = output /\ pc'[c] = "disposing"
          /\ queue' = [queue EXCEPT ![c] = Finished(queue[c])]
          /\ reader' = [reader EXCEPT ![c] = Released(reader[c], queue[c])]
      BY <1>4, <2>1, <1>c DEF Finalize, CallTypes
    <3>2. queue[c] \in Streams /\ reader[c] \in Readers
      BY DEF StreamTypes
    <3>3. /\ queue'[c].events = queue[c].events /\ queue'[c].sequence = queue[c].sequence
          /\ reader'[c].seen = reader[c].seen
      BY <3>1, <3>2 DEF Finished, Released, StreamTypes, Streams, Readers
    <3>4. /\ reader'[c].at # "waiting"
          /\ reader'[c].at = "closed" <=> reader[c].at = "closed"
      BY <1>c, <3>1, <3>2 DEF Released, StreamTypes, Readers, Streaming
    <3>5. state'[c] \in Whole => state[c] \in Whole
      BY <1>4, <1>c, <2>1, WholeBefore DEF Finalize, Early
    <3>. QED BY <1>c, <3>1, <3>3, <3>4, <3>5 DEF Streaming, Whole, Early, Late
  <2>2. CASE c # d
    BY <1>4, <1>c, <1>q, <2>2 DEF Finalize, StreamTypes
  <2>. QED BY <2>1, <2>2
<1>5. CASE UNCHANGED <<output, queue, reader>>
  BY <1>5, <1>q
<1>. QED BY <1>1, <1>2, <1>3, <1>4, <1>5, OtherSteps

\* InputInv is inductive.
LEMMA InputStep ==
  ASSUME CallTypes, InputTypes, StageInv, InputInv, [Next]_vars
  PROVE  InputInv'
<1>. SUFFICES ASSUME NEW c \in Sessions PROVE Writing(c)'
  BY DEF InputInv
<1>c. Writing(c) /\ c \in Calls /\ input[c] \in Inputs
  BY SessionsAreCalls DEF InputInv, InputTypes
<1>m. pc[c] \in {"running"} \cup Late => pc'[c] \in {"running"} \cup Late
  BY <1>c, StageMoves DEF Moves, Late
<1>o. settled(c) => settled(c)'
  BY <1>c, OutcomeIsFinal DEF settled
<1>q. ASSUME input'[c] = input[c] PROVE Writing(c)'
  BY <1>c, <1>m, <1>o, <1>q DEF Writing
<1>1. ASSUME NEW d \in Sessions, HandOver(d), c = d, input' # input PROVE Writing(c)'
  <2>1. pc'[c] = "running" /\ input' = [input EXCEPT ![c] = [input[c] EXCEPT !.handed = TRUE]]
    BY <1>1, <1>c DEF HandOver, CallTypes
  <2>2. /\ input'[c].pending = input[c].pending /\ input'[c].whole = input[c].whole
        /\ input'[c].stdin = input[c].stdin /\ input'[c].handed
    BY <1>c, <2>1 DEF InputTypes, Inputs
  <2>. QED BY <1>c, <1>o, <2>1, <2>2 DEF Writing
<1>2. ASSUME NEW d \in Sessions, Write(d), c = d PROVE Writing(c)'
  <2>1. /\ input'[c].handed = input[c].handed /\ input'[c].whole = input[c].whole
        /\ input'[c].stdin = "open" /\ input[c].handed
    BY <1>2, <1>c DEF Write, Listed, InputTypes, Inputs
  <2>. QED BY <1>c, <1>m, <1>o, <2>1 DEF Writing
<1>3. ASSUME NEW d \in Sessions, WriteTurn(d), c = d PROVE Writing(c)'
  <2>1. /\ input'[c].handed = input[c].handed /\ input'[c].stdin = input[c].stdin
        /\ input'[c].whole = input[c].whole \/ settled(c)
        /\ input[c].pending > 0
    BY <1>3, <1>c DEF WriteTurn, InputTypes, Inputs
  <2>. QED BY <1>c, <1>m, <1>o, <2>1 DEF Writing, Inputs
<1>4. ASSUME NEW d \in Sessions, NEW ok \in BOOLEAN, WriteAnswered(d, ok), c = d PROVE Writing(c)'
  <2>1. /\ input'[c].handed = input[c].handed /\ input'[c].stdin = input[c].stdin
        /\ input'[c].whole = (input[c].whole /\ ok)
        /\ input[c].pending > 0
    BY <1>4, <1>c DEF WriteAnswered, InputTypes, Inputs
  <2>2. ~ok => settled(c)'
    <3>1. ASSUME TerminateWith(c, "backend-lost") PROVE settled(c)'
      BY <1>c, <3>1, TerminateEffect DEF settled, CallTypes, TERMINAL_STATES
    <3>. QED BY <1>4, <3>1 DEF WriteAnswered
  <2>. QED BY <1>c, <1>m, <1>o, <2>1, <2>2 DEF Writing, Inputs
<1>5. ASSUME NEW d \in Sessions, CloseStdin(d), c = d PROVE Writing(c)'
  <2>1. /\ input'[c].handed = input[c].handed /\ input'[c].stdin = "closing"
        /\ input'[c].whole = input[c].whole /\ input[c].handed
    BY <1>5, <1>c DEF CloseStdin, Listed, InputTypes, Inputs
  <2>. QED BY <1>c, <1>m, <1>o, <2>1 DEF Writing
<1>6. ASSUME NEW d \in Sessions, StdinTurn(d), c = d PROVE Writing(c)'
  <2>1. /\ input'[c].handed = input[c].handed /\ input'[c].pending = input[c].pending
        /\ input'[c].whole = input[c].whole /\ input[c].pending = 0
        /\ input'[c].stdin = "dropped" \/ (input'[c].stdin = "closed" /\ ~settled(c))
        /\ input[c].stdin = "closing"
    BY <1>6, <1>c DEF StdinTurn, InputTypes, Inputs
  <2>. QED BY <1>c, <1>m, <1>o, <2>1 DEF Writing, Inputs
<1>7. ASSUME NEW d \in Sessions, c # d,
             \/ HandOver(d) \/ Write(d) \/ WriteTurn(d) \/ CloseStdin(d) \/ StdinTurn(d)
             \/ \E ok \in BOOLEAN : WriteAnswered(d, ok)
      PROVE  input'[c] = input[c]
  BY <1>7 DEF HandOver, Write, WriteTurn, CloseStdin, StdinTurn, WriteAnswered, InputTypes
<1>. QED BY <1>q, <1>1, <1>2, <1>3, <1>4, <1>5, <1>6, <1>7, InputSteps

-----------------------------------------------------------------------------
(* The theorems                                                            *)

\* The inductive invariant.
IInv ==
  /\ CallTypes /\ StreamTypes /\ InputTypes /\ ClosingTypes
  /\ StageInv /\ WatchInv /\ StreamInv /\ InputInv /\ CloseInv

\* A broker that was just made satisfies it.
LEMMA InvariantInit == Init => IInv
<1>. SUFFICES ASSUME Init PROVE IInv
  OBVIOUS
<1>. USE DEF Init
<1>0. PICK made \in Workloads : pc = [c \in Calls |-> IF c \in made THEN "idle" ELSE "refused"]
  OBVIOUS
<1>1. CallTypes
  BY <1>0 DEF CallTypes, Stages, ProcessStates
<1>2. StreamTypes
  <2>1. [bytes |-> 0, overflow |-> FALSE] \in [bytes : 0..MaxOutput, overflow : BOOLEAN]
    BY BrokerAssumption
  <2>2. <<>> \in Seq(Nat) /\ Len(<<>>) = 0 /\ 0 <= MaxQueuedEvents
    BY BrokerAssumption
  <2>3. [events |-> <<>>, sequence |-> 0, finished |-> FALSE] \in Streams
    BY <2>2 DEF Streams
  <2>4. [at |-> "away", seen |-> 0] \in Readers
    BY DEF Readers
  <2>. QED BY <2>1, <2>2, <2>3, <2>4 DEF StreamTypes
<1>3. InputTypes /\ ClosingTypes
  BY DEF InputTypes, ClosingTypes, Inputs, NoInput
<1>4. StageInv
  BY <1>0 DEF StageInv, Staged, settled, Early, Late, Over
<1>5. WatchInv
  BY DEF WatchInv, Watched
<1>6. StreamInv
  <2>1. ASSUME NEW c \in Sessions PROVE Streaming(c)
    <3>1. /\ c \in Calls /\ output[c].bytes = 0 /\ queue[c].events = <<>> /\ queue[c].sequence = 0
          /\ reader[c] = [at |-> "away", seen |-> 0] /\ ~queue[c].finished
          /\ state[c] = "requested"
      BY SessionsAreCalls
    <3>. QED BY <3>1 DEF Streaming
  <2>. QED BY <2>1 DEF StreamInv
<1>7. InputInv
  BY DEF InputInv, Writing, NoInput
<1>8. CloseInv
  BY DEF CloseInv
<1>. QED BY <1>1, <1>2, <1>3, <1>4, <1>5, <1>6, <1>7, <1>8 DEF IInv

\* Every step keeps it, and so does every behaviour.
LEMMA InvariantHolds == Spec => []IInv
<1>1. IInv /\ [Next]_vars => IInv'
  <2>. SUFFICES ASSUME IInv, [Next]_vars PROVE IInv'
    OBVIOUS
  <2>. USE DEF IInv
  <2>1. CallTypes' /\ StreamTypes' /\ InputTypes' /\ ClosingTypes'
    BY CallTypesStep, StreamTypesStep, InputTypesStep, ClosingTypesStep
  <2>2. StageInv' /\ WatchInv'
    BY StageStep, WatchStep
  <2>3. StreamInv' /\ InputInv'
    BY StreamStep, InputStep
  <2>4. CloseInv'
    BY CloseStep
  <2>. QED BY <2>1, <2>2, <2>3, <2>4
<1>. QED BY <1>1, InvariantInit, PTL DEF Spec

\* Calls, streams, inputs and the broker keep their types whatever the limits
\* and however the stoppers, the consumer and close() interleave.
THEOREM BrokerTypeCorrect == Spec => []TypeOK
<1>1. IInv => TypeOK
  BY TypeParts DEF IInv
<1>. QED BY <1>1, InvariantHolds, PTL

\* No process runs on against a reason to stop it: whatever came between the
\* checks of start() and the registration of the stoppers was looked at again.
THEOREM ReasonsToStopAreHeeded == Spec => []NothingRunsUnwatched
<1>1. IInv => NothingRunsUnwatched
  BY DEF IInv, WatchInv, Watched, NothingRunsUnwatched
<1>. QED BY <1>1, InvariantHolds, PTL

\* The sandbox outlives the process and is gone when the call is over, and
\* close() gives the backend up when nothing it answers for runs.
THEOREM SandboxOutlivesProcess == Spec => []ReleasedLast
<1>1. IInv => ReleasedLast
  <2>. SUFFICES ASSUME IInv PROVE ReleasedLast
    OBVIOUS
  <2>0. ASSUME NEW c \in Calls PROVE Staged(c) /\ pc[c] \in Stages
    BY <2>0 DEF IInv, StageInv, CallTypes
  <2>1. ASSUME NEW c \in Calls, child[c] = "alive" PROVE pc[c] \in {"opening", "running"}
    BY <2>0, <2>1 DEF Staged, Early, Late, Stages
  <2>2. ASSUME NEW c \in Calls
        PROVE  /\ child[c] = "alive" => sandbox[c] = "prepared"
               /\ pc[c] \in Over => sandbox[c] # "prepared"
    BY <2>0, <2>1 DEF Staged
  <2>3. ASSUME closing = "closed", NEW c \in Calls, child[c] = "alive"
        PROVE  c \in Sessions /\ ~input[c].handed
    <3>1. Listed = {} /\ Inflight = {}
      BY <2>3 DEF IInv, CloseInv
    <3>2. c \in Sessions
      BY <2>1, <2>3, <3>1, SessionsAreCalls DEF Inflight, Over
    <3>3. input[c].handed => pc[c] = "running"
      BY <2>1, <2>3, <3>2 DEF IInv, InputInv, Writing, Late
    <3>. QED BY <3>1, <3>2, <3>3 DEF Listed
  <2>. QED BY <2>2, <2>3 DEF ReleasedLast
<1>. QED BY <1>1, InvariantHolds, PTL

\* What the consumer of a session saw and what waits for it are all the output
\* there was, and what its caller wrote arrives before the end of input.
THEOREM NothingIsLostOrReordered == Spec => []StreamsAreWhole
<1>1. IInv => StreamsAreWhole
  <2>. SUFFICES ASSUME IInv PROVE NormalStreamIsWhole /\ InputIsWhole
    BY DEF StreamsAreWhole
  <2>1. NormalStreamIsWhole
    BY DEF IInv, StreamInv, Streaming, NormalStreamIsWhole
  <2>2. InputIsWhole
    BY DEF IInv, InputTypes, InputInv, Writing, InputIsWhole
  <2>. QED BY <2>1, <2>2
<1>. QED BY <1>1, InvariantHolds, PTL

=============================================================================
