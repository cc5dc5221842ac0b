---------------------------- MODULE ProcessBroker ----------------------------
(***************************************************************************)
(* The process broker of broker.ts: execute() and openDuplexSession(), the *)
(* deadline, lease, cancellation and output limits that race the exit of   *)
(* the child, the write queue and the event queue of a duplex session, and *)
(* close().  The lease is that of grant.ts, the event queue that of        *)
(* duplex.ts, the output limit that of output.ts.                          *)
(*                                                                         *)
(* Code between two awaits is one action.  What tools, policy, backend and *)
(* child do is a choice; bytes are counted, one byte to an event, and      *)
(* their content, the audit records and digests are left out.              *)
(***************************************************************************)
EXTENDS Integers, Sequences, FiniteSets

CONSTANTS
  Executions,       \* calls of execute()
  Sessions,         \* calls of openDuplexSession()
  MaxOutput,        \* maxCombinedBytes of the output limits
  MaxQueuedEvents,
  MaxQueuedWrites,  \* maxQueuedWriteBytes
  MaxTotalWrites,   \* maxTotalWriteBytes
  MaxChunk,         \* bound: the most bytes of one chunk of output
  Workloads         \* bound: the sets of calls to look at together

ASSUME BrokerAssumption ==
  /\ Executions \cap Sessions = {} /\ Workloads \subseteq SUBSET (Executions \cup Sessions)
  /\ MaxOutput \in Nat \ {0} /\ MaxQueuedEvents \in Nat \ {0} /\ MaxChunk \in Nat \ {0}
  /\ MaxQueuedWrites \in Nat \ {0} /\ MaxTotalWrites \in Nat \ {0}

Calls == Executions \cup Sessions

VARIABLES
  pc,        \* the await each call stands at
  state,     \* ProcessState
  lease,     \* the execution lease of the call
  watch,     \* stoppers that are registered: timer, lease, signal
  aborted,   \* calls whose signal is aborted
  child,     \* alive, or how it exited
  told,      \* children terminateTree was called for
  sandbox,   \* the backend's session
  output,    \* BoundedOutputCollector: bytes kept, and whether it overflowed
  queue,     \* BoundedDuplexEventQueue of a session
  reader,    \* the consumer of the queue: where it is and the last event it saw
  input,     \* the write queue and standard input of a session
  closing,   \* close() of the broker
  awaits     \* what close() waits for

callVars == <<pc, state, lease, watch, aborted, child, told, sandbox>>
ioVars == <<output, queue, reader, input>>
brokerVars == <<closing, awaits>>
vars == <<callVars, ioVars, brokerVars>>

Stages == {"idle", "checking", "preparing", "resolving", "spawning", "opening",
           "running", "disposing", "unwinding", "done", "refused"}
TERMINAL_STATES == {"succeeded", "failed", "cancelled", "deadline-exceeded",
                    "quota-exceeded", "lease-expired", "backend-lost", "closed"}
Over == {"done", "refused"}
Stoppers == {"timer", "lease", "signal"}

settled(c) == state[c] \in TERMINAL_STATES
closed == closing # "open"
\* the promises of inflight: for a session only until it has started
Inflight == {c \in Executions : pc[c] \notin {"idle"} \cup Over}
  \cup {c \in Sessions : pc[c] \in {"checking", "preparing", "resolving", "spawning", "unwinding"}}
\* the set sessions: handed to their caller and without a result
Listed == {c \in Sessions : pc[c] \in {"running", "disposing"} /\ input[c].handed}

NoInput == [handed |-> FALSE, pending |-> 0, busy |-> FALSE, queued |-> 0,
            total |-> 0, whole |-> TRUE, stdin |-> "open"]

Init ==
  /\ \E made \in Workloads : pc = [c \in Calls |-> IF c \in made THEN "idle" ELSE "refused"]
  /\ state = [c \in Calls |-> "requested"]
  /\ lease = [c \in Calls |-> "active"] /\ watch = [c \in Calls |-> {}]
  /\ aborted = {} /\ child = [c \in Calls |-> "none"] /\ told = {}
  /\ sandbox = [c \in Calls |-> "none"]
  /\ output = [c \in Calls |-> [bytes |-> 0, overflow |-> FALSE]]
  /\ queue = [c \in Sessions |-> [events |-> <<>>, sequence |-> 0, finished |-> FALSE]]
  /\ reader = [c \in Sessions |-> [at |-> "away", seen |-> 0]]
  /\ input = [c \in Sessions |-> NoInput]
  /\ closing = "open" /\ awaits = {}

-----------------------------------------------------------------------------
(* Ending a process                                                        *)

\* settle: the first terminal outcome wins
Settled(s, c, next) == IF s[c] \in TERMINAL_STATES THEN s ELSE [s EXCEPT ![c] = next]

\* terminate of runProcess asks for the stop every time, terminateWith only
\* when it decides the outcome
Asked(c) == IF c \in Executions \/ ~settled(c) THEN told \cup {c} ELSE told

TerminateWith(c, next) ==
  /\ state' = Settled(state, c, next)
  /\ told' = Asked(c)

\* Mutated form of Released: a reader that waits is forgotten.
NotReleased(r, q) == r

\* finish of the event queue: a waiting reader is released, unless there is
\* still something to read
Finished(q) == [q EXCEPT !.finished = TRUE]
Released(r, q) == IF r.at = "waiting" /\ q.events = <<>> THEN [r EXCEPT !.at = "ended"] ELSE r

-----------------------------------------------------------------------------
(* Starting                                                                *)

\* The checks before the first await.  assertValid settles a lease that has
\* lapsed.  What else is refused here is a choice.
Start(c) ==
  /\ pc[c] = "idle" /\ ~closed
  /\ \/ /\ lease[c] = "active" /\ (c \in Sessions => c \notin aborted)
        /\ pc' = [pc EXCEPT ![c] = "checking"] /\ UNCHANGED lease
     \/ /\ pc' = [pc EXCEPT ![c] = "refused"]
        /\ lease' = [lease EXCEPT ![c] = IF @ = "lapsed" THEN "ended" ELSE @]
  /\ UNCHANGED <<state, watch, aborted, child, told, sandbox, ioVars, brokerVars>>

\* evaluateAdmission after tool, policy and probe have answered, or one of
\* them failed
Admit(c) ==
  /\ pc[c] = "checking"
  /\ \/ lease[c] = "active" /\ closing # "closed" /\ pc' = [pc EXCEPT ![c] = "preparing"]
     \/ pc' = [pc EXCEPT ![c] = "refused"]
  /\ UNCHANGED <<state, lease, watch, aborted, child, told, sandbox, ioVars, brokerVars>>

Prepare(c) ==
  /\ pc[c] = "preparing"
  /\ \/ /\ closing # "closed"
        /\ pc' = [pc EXCEPT ![c] = "resolving"] /\ sandbox' = [sandbox EXCEPT ![c] = "prepared"]
     \/ pc' = [pc EXCEPT ![c] = "refused"] /\ UNCHANGED sandbox
  /\ UNCHANGED <<state, lease, watch, aborted, child, told, ioVars, brokerVars>>

\* the secrets and the environment
Resolve(c) ==
  /\ pc[c] = "resolving"
  /\ \E next \in {"spawning", "unwinding"} :
       /\ pc' = [pc EXCEPT ![c] = next]
       /\ state' = IF next = "spawning" THEN [state EXCEPT ![c] = "starting"] ELSE state
  /\ UNCHANGED <<lease, watch, aborted, child, told, sandbox, ioVars, brokerVars>>

\* Mutated form of Verdict: listeners are registered, their reason may be past.
VerdictForgotten(c) == "running"

\* What holds against the process before its first step: onInvalidated calls
\* back at once for a lease that has ended, and an aborted signal is looked at.
Verdict(c) ==
  IF lease[c] # "active" THEN "lease-expired"
  ELSE IF c \in aborted THEN "cancelled"
  ELSE "running"

Spawn(c) ==
  /\ pc[c] = "spawning"
  /\ \/ /\ closing # "closed"
        /\ child' = [child EXCEPT ![c] = "alive"]
        /\ state' = [state EXCEPT ![c] = Verdict(c)]
        /\ told' = IF Verdict(c) = "running" THEN told ELSE told \cup {c}
        /\ watch' = [watch EXCEPT ![c] = {"timer"}
             \cup (IF lease[c] = "active" THEN {"lease"} ELSE {})
             \cup (IF c \in aborted THEN {} ELSE {"signal"})]
        /\ pc' = [pc EXCEPT ![c] = IF c \in Sessions THEN "opening" ELSE "running"]
     \/ /\ pc' = [pc EXCEPT ![c] = "unwinding"]
        /\ UNCHANGED <<child, state, told, watch>>
  /\ UNCHANGED <<lease, aborted, sandbox, ioVars, brokerVars>>

\* The continuation of openDuplexSession.  A broker that was closed meanwhile
\* closes the session and does not hand it out.
HandOver(c) ==
  /\ pc[c] = "opening"
  /\ pc' = [pc EXCEPT ![c] = "running"]
  /\ IF closed
       THEN TerminateWith(c, "closed") /\ UNCHANGED input
       ELSE input' = [input EXCEPT ![c].handed = TRUE] /\ UNCHANGED <<state, told>>
  /\ UNCHANGED <<lease, watch, aborted, child, sandbox, output, queue, reader, brokerVars>>

\* dispose after a failed start; the call throws
Unwind(c) ==
  /\ pc[c] = "unwinding"
  /\ pc' = [pc EXCEPT ![c] = "refused"] /\ sandbox' = [sandbox EXCEPT ![c] = "disposed"]
  /\ UNCHANGED <<state, lease, watch, aborted, child, told, ioVars, brokerVars>>

-----------------------------------------------------------------------------
(* What may end a running process                                          *)

Deadline(c) ==
  /\ "timer" \in watch[c]
  /\ watch' = [watch EXCEPT ![c] = @ \ {"timer"}]
  /\ TerminateWith(c, "deadline-exceeded")
  /\ UNCHANGED <<pc, lease, aborted, child, sandbox, ioVars, brokerVars>>

\* A lease and a signal are left alone once the outcome is settled: the
\* deadline, the output and the calls of the session are late reasons enough.
\* The time of a lease runs out.  Nobody is told before somebody looks.
Lapse(c) ==
  /\ lease[c] = "active" /\ pc[c] \notin Over /\ ~settled(c)
  /\ lease' = [lease EXCEPT ![c] = "lapsed"]
  /\ UNCHANGED <<pc, state, watch, aborted, child, told, sandbox, ioVars, brokerVars>>

\* revoke, release, or assertValid of a lease that has lapsed: settle and notify
EndLease(c) ==
  /\ lease[c] \in {"active", "lapsed"} /\ pc[c] \notin Over /\ ~settled(c)
  /\ lease' = [lease EXCEPT ![c] = "ended"]
  /\ watch' = [watch EXCEPT ![c] = @ \ {"lease"}]
  /\ IF "lease" \in watch[c] THEN TerminateWith(c, "lease-expired") ELSE UNCHANGED <<state, told>>
  /\ UNCHANGED <<pc, aborted, child, sandbox, ioVars, brokerVars>>

Abort(c) ==
  /\ c \notin aborted /\ pc[c] \notin Over /\ ~settled(c)
  /\ aborted' = aborted \cup {c}
  /\ watch' = [watch EXCEPT ![c] = @ \ {"signal"}]
  /\ IF "signal" \in watch[c] THEN TerminateWith(c, "cancelled") ELSE UNCHANGED <<state, told>>
  /\ UNCHANGED <<pc, lease, child, sandbox, ioVars, brokerVars>>

\* terminate() and close() of a session
EndSession(c, next) ==
  /\ c \in Listed /\ TerminateWith(c, next)
  /\ UNCHANGED <<pc, lease, watch, aborted, child, sandbox, ioVars, brokerVars>>

-----------------------------------------------------------------------------
(* Output                                                                  *)

\* push of the collector: keeps what fits
Kept(o, n) ==
  IF o.overflow THEN o
  ELSE [bytes |-> IF o.bytes + n <= MaxOutput THEN o.bytes + n ELSE MaxOutput,
        overflow |-> o.bytes + n > MaxOutput]

\* Mutated form of Push: what does not fit is dropped silently.
PushSilently(q, r, n) ==
  LET direct == IF r.at = "waiting" THEN 1 ELSE 0
      room   == MaxQueuedEvents - Len(q.events)
      kept   == IF n - direct <= room THEN n - direct ELSE room
  IN [ok |-> TRUE,
      q  |-> [q EXCEPT !.sequence = @ + n,
                       !.events = @ \o [i \in 1..kept |-> q.sequence + direct + i]],
      r  |-> IF direct = 1 THEN [at |-> "away", seen |-> q.sequence + 1] ELSE r]

\* push of the event queue: the first event goes to a waiting reader, the
\* others are queued while there is room; the number of the first event
\* without room is used up, and the rest of the chunk is dropped
Push(q, r, n) ==
  LET direct == IF r.at = "waiting" THEN 1 ELSE 0
      room   == MaxQueuedEvents - Len(q.events)
      ok     == n - direct <= room
      kept   == IF ok THEN n - direct ELSE room
  IN [ok |-> ok,
      q  |-> [q EXCEPT !.sequence = @ + direct + kept + (IF ok THEN 0 ELSE 1),
                       !.events = @ \o [i \in 1..kept |-> q.sequence + direct + i]],
      r  |-> IF direct = 1 THEN [at |-> "away", seen |-> q.sequence + 1] ELSE r]

\* onOutput: also after the outcome is settled, until the child has exited
Output(c, n) ==
  /\ child[c] = "alive"
  /\ output' = [output EXCEPT ![c] = Kept(@, n)]
  /\ IF output'[c].overflow
       THEN TerminateWith(c, "quota-exceeded") /\ UNCHANGED <<queue, reader>>
       ELSE IF c \in Executions THEN UNCHANGED <<state, told, queue, reader>>
       ELSE IF queue[c].finished \/ reader[c].at = "closed" THEN UNCHANGED <<state, told, queue, reader>>
       ELSE LET p == Push(queue[c], reader[c], n) IN
            /\ queue' = [queue EXCEPT ![c] = p.q] /\ reader' = [reader EXCEPT ![c] = p.r]
            /\ IF p.ok THEN UNCHANGED <<state, told>> ELSE TerminateWith(c, "quota-exceeded")
  /\ UNCHANGED <<pc, lease, watch, aborted, child, sandbox, input, brokerVars>>

\* next() of the consumer
Read(c) ==
  /\ input[c].handed /\ reader[c].at = "away"
  /\ IF queue[c].events # <<>>
       THEN /\ reader' = [reader EXCEPT ![c].seen = Head(queue[c].events)]
            /\ queue' = [queue EXCEPT ![c].events = Tail(@)]
       ELSE /\ reader' = [reader EXCEPT ![c].at = IF queue[c].finished THEN "ended" ELSE "waiting"]
            /\ UNCHANGED queue
  /\ UNCHANGED <<callVars, output, input, brokerVars>>

\* return() of the consumer
Leave(c) ==
  /\ input[c].handed /\ reader[c].at \in {"away", "waiting"}
  /\ reader' = [reader EXCEPT ![c].at = "closed"]
  /\ queue' = [queue EXCEPT ![c].events = <<>>]
  /\ UNCHANGED <<callVars, output, input, brokerVars>>

-----------------------------------------------------------------------------
(* Input                                                                   *)

\* write(), of one byte: refused once settled or stdin is closed, and at the
\* two limits.  Writes wait for one another, so their number is all there is to
\* know about them.
Write(c) ==
  /\ c \in Listed /\ ~settled(c) /\ input[c].stdin = "open"
  /\ input[c].total + 1 <= MaxTotalWrites /\ input[c].queued + 1 <= MaxQueuedWrites
  /\ input' = [input EXCEPT ![c].pending = @ + 1, ![c].queued = @ + 1, ![c].total = @ + 1]
  /\ UNCHANGED <<callVars, output, queue, reader, brokerVars>>

\* The turn of the next write: it is handed to the backend, or refused
\* because the session has settled.
WriteTurn(c) ==
  /\ input[c].pending > 0 /\ ~input[c].busy
  /\ input' = IF settled(c)
                THEN [input EXCEPT ![c].pending = @ - 1, ![c].queued = @ - 1, ![c].whole = FALSE]
                ELSE [input EXCEPT ![c].busy = TRUE]
  /\ UNCHANGED <<callVars, output, queue, reader, brokerVars>>

\* The backend answers a write.
WriteAnswered(c, ok) ==
  /\ input[c].busy
  /\ input' = [input EXCEPT ![c].busy = FALSE, ![c].pending = @ - 1, ![c].queued = @ - 1,
                            ![c].whole = @ /\ ok]
  /\ IF ok THEN UNCHANGED <<state, told>> ELSE TerminateWith(c, "backend-lost")
  /\ UNCHANGED <<pc, lease, watch, aborted, child, sandbox, output, queue, reader, brokerVars>>

\* closeStdin(): idempotent, without effect once settled
CloseStdin(c) ==
  /\ c \in Listed /\ ~settled(c) /\ input[c].stdin = "open"
  /\ input' = [input EXCEPT ![c].stdin = "closing"]
  /\ UNCHANGED <<callVars, output, queue, reader, brokerVars>>

\* ... behind every accepted write
StdinTurn(c) ==
  /\ input[c].stdin = "closing" /\ input[c].pending = 0
  /\ \E ok \in BOOLEAN :
       /\ input' = [input EXCEPT ![c].stdin = IF settled(c) \/ ~ok THEN "dropped" ELSE "closed"]
       /\ IF settled(c) \/ ok THEN UNCHANGED <<state, told>> ELSE TerminateWith(c, "backend-lost")
  /\ UNCHANGED <<pc, lease, watch, aborted, child, sandbox, output, queue, reader, brokerVars>>

-----------------------------------------------------------------------------
(* Settling                                                                *)

\* The child exits, or the connection to it is lost (no code and no signal).
Exit(c) ==
  /\ child[c] = "alive" /\ pc[c] # "opening"
  /\ \E how \in {"success", "failure", "lost"} : child' = [child EXCEPT ![c] = how]
  /\ UNCHANGED <<pc, state, lease, watch, aborted, told, sandbox, ioVars, brokerVars>>

\* execute() takes a lost connection for a failing exit code
Outcome(c) ==
  CASE child[c] = "success" -> "succeeded"
    [] child[c] = "lost" /\ c \in Sessions -> "backend-lost"
    [] OTHER -> "failed"

\* finalize up to its await: the stoppers go, then the outcome is settled
Finalize(c) ==
  /\ pc[c] = "running" /\ child[c] \notin {"none", "alive"}
  /\ pc' = [pc EXCEPT ![c] = "disposing"]
  /\ watch' = [watch EXCEPT ![c] = {}]
  /\ state' = Settled(state, c, Outcome(c))
  /\ IF c \in Sessions
       THEN /\ queue' = [queue EXCEPT ![c] = Finished(@)]
            /\ reader' = [reader EXCEPT ![c] = Released(@, queue[c])]
       ELSE UNCHANGED <<queue, reader>>
  /\ UNCHANGED <<lease, aborted, child, told, sandbox, output, input, brokerVars>>

\* dispose of the sandbox, then the result is delivered
Deliver(c) ==
  /\ pc[c] = "disposing"
  /\ pc' = [pc EXCEPT ![c] = "done"] /\ sandbox' = [sandbox EXCEPT ![c] = "disposed"]
  /\ UNCHANGED <<state, lease, watch, aborted, child, told, ioVars, brokerVars>>

-----------------------------------------------------------------------------
(* close() of the broker: its sessions, then what is in flight, then the backend *)

Close ==
  /\ closing = "open"
  /\ closing' = "sessions" /\ awaits' = Listed
  /\ state' = [c \in Calls |-> IF c \in Listed /\ ~settled(c) THEN "closed" ELSE state[c]]
  /\ told' = told \cup {c \in Listed : ~settled(c)}
  /\ UNCHANGED <<pc, lease, watch, aborted, child, sandbox, ioVars>>

\* Mutated form of CloseSessions: what is in flight is not waited for.
CloseSessionsOnly ==
  /\ closing = "sessions" /\ \A c \in awaits : pc[c] = "done"
  /\ closing' = "inflight" /\ awaits' = {}
  /\ UNCHANGED <<callVars, ioVars>>

CloseSessions ==
  /\ closing = "sessions" /\ \A c \in awaits : pc[c] = "done"
  /\ closing' = "inflight" /\ awaits' = Inflight
  /\ UNCHANGED <<callVars, ioVars>>

\* the backend stops whatever is still alive
CloseBackend ==
  /\ closing = "inflight" /\ awaits \cap Inflight = {}
  /\ closing' = "closed" /\ awaits' = {}
  /\ told' = told \cup {c \in Calls : child[c] = "alive"}
  /\ UNCHANGED <<pc, state, lease, watch, aborted, child, sandbox, ioVars>>

-----------------------------------------------------------------------------
\* What a continuation of the broker does next for a call.
Advance(c) ==
  \/ Admit(c) \/ Prepare(c) \/ Resolve(c) \/ Spawn(c) \/ Unwind(c)
  \/ c \in Sessions /\ HandOver(c)
  \/ Finalize(c) \/ Deliver(c)

Stop(c) ==
  \/ Deadline(c) \/ Lapse(c) \/ EndLease(c) \/ Abort(c)
  \/ \E next \in {"cancelled", "closed"} : EndSession(c, next)

Talk(c) ==
  \/ Read(c) \/ Leave(c) \/ Write(c)
  \/ WriteTurn(c) \/ \E ok \in BOOLEAN : WriteAnswered(c, ok)
  \/ CloseStdin(c) \/ StdinTurn(c)

Next ==
  \/ \E c \in Calls : Start(c) \/ Advance(c) \/ Stop(c) \/ Exit(c)
  \/ \E c \in Calls, n \in 1..MaxChunk : Output(c, n)
  \/ \E c \in Sessions : Talk(c)
  \/ Close \/ CloseSessions \/ CloseBackend

\* Continuations run, and a process tree that was told to stop exits.
Fairness ==
  /\ \A c \in Calls : WF_vars(Advance(c)) /\ WF_vars(c \in told /\ Exit(c))
  /\ WF_vars(CloseSessions) /\ WF_vars(CloseBackend)

Spec == Init /\ [][Next]_vars /\ Fairness

-----------------------------------------------------------------------------
(* Properties                                                              *)

\* Sessions, leases, streams and the broker have the types broker.ts gives them.
TypeOK ==
  /\ pc \in [Calls -> Stages]
  /\ state \in [Calls -> {"requested", "starting", "running"} \cup TERMINAL_STATES]
  /\ lease \in [Calls -> {"active", "lapsed", "ended"}]
  /\ watch \in [Calls -> SUBSET Stoppers]
  /\ aborted \subseteq Calls /\ told \subseteq Calls
  /\ child \in [Calls -> {"none", "alive", "success", "failure", "lost"}]
  /\ sandbox \in [Calls -> {"none", "prepared", "disposed"}]
  /\ output \in [Calls -> [bytes : 0..MaxOutput, overflow : BOOLEAN]]
  /\ queue \in [Sessions -> [events : Seq(Nat), sequence : Nat, finished : BOOLEAN]]
  /\ reader \in [Sessions -> [at : {"away", "waiting", "ended", "closed"}, seen : Nat]]
  /\ input \in [Sessions ->
       [handed : BOOLEAN, pending : Nat, busy : BOOLEAN, queued : Nat, total : Nat,
        whole : BOOLEAN, stdin : {"open", "closing", "closed", "dropped"}]]
  /\ closing \in {"open", "sessions", "inflight", "closed"} /\ awaits \subseteq Calls

\* No process runs on against a reason to stop it: once its lease was ended or
\* its signal aborted, wherever start() stood at that time, or its outcome is
\* settled, a living child has been told to stop.
NothingRunsUnwatched ==
  \A c \in Calls : child[c] = "alive" /\ (lease[c] = "ended" \/ c \in aborted \/ settled(c))
    => settled(c) /\ c \in told

\* What a process needs is released after it and never kept: its sandbox is
\* there while the child lives and gone whenever a call has ended, however it
\* ended; close() releases the backend when nothing runs, but for a session
\* that was being opened when it began and was not handed out.
ReleasedLast ==
  /\ \A c \in Calls :
       /\ child[c] = "alive" => sandbox[c] = "prepared"
       /\ pc[c] \in Over => sandbox[c] # "prepared"
  /\ closing = "closed" => \A c \in Calls :
       child[c] = "alive" => c \in Sessions /\ ~input[c].handed

\* The events a consumer saw and those queued for it are numbered without a
\* gap while the session runs or when it ended by itself, and together they
\* are all the output its result reports.
NormalStreamIsWhole ==
  \A c \in Sessions : state[c] \in {"running", "succeeded", "failed"} /\ reader[c].at # "closed" =>
    /\ queue[c].events = [i \in 1..Len(queue[c].events) |-> reader[c].seen + i]
    /\ reader[c].seen + Len(queue[c].events) = output[c].bytes

\* The bytes counted against the limit are those of the writes not yet
\* answered, and the end of input arrives behind everything that was accepted.
\* "whole" says that every write so far that got its turn arrived.
InputIsWhole ==
  \A c \in Sessions :
    /\ input[c].queued = input[c].pending
    /\ input[c].stdin = "closed" => input[c].pending = 0 /\ input[c].whole

\* What the child writes and what is written to it arrives whole and in order
\* (the event queue of duplex.ts, and the chain of stdin turns).
StreamsAreWhole == NormalStreamIsWhole /\ InputIsWhole

\* A call whose process has a settled outcome delivers its result, and its
\* consumer is not left waiting for an event.
OutcomeIsDelivered ==
  \A c \in Calls : settled(c) ~> (pc[c] = "done" /\ (c \in Sessions => reader[c].at # "waiting"))
=============================================================================
