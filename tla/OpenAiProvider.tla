--------------------------- MODULE OpenAiProvider ---------------------------
(***************************************************************************)
(* Operations of packages/provider-openai/src/provider.ts against a        *)
(* response that lives on the server: a create request, then a stream that *)
(* a background response can resume after its end was missed, or polling;  *)
(* bounded retries of the reading requests; cancellation here and there;   *)
(* and close().                                                            *)
(*                                                                         *)
(* The events of a response are its sequence numbers 0 .. Last: 0 is the   *)
(* lifecycle event with the response id, Last the terminal one.  The       *)
(* server is external: it sends what lies between a stream's first event   *)
(* and its end without a gap, but a resumed stream may begin before or     *)
(* after the event that was asked for.  One action is what runs between    *)
(* two awaits.  Text, tools, usage and cost are left out.                  *)
(***************************************************************************)
EXTENDS Integers, Sequences

CONSTANTS
  Calls,         \* calls of start()
  Asks,          \* the execution modes each call may ask for
  Last,          \* sequence number of the terminal event
  MaxResumes,    \* background.maxResumeAttempts
  MaxAttempts,   \* retry.maxAttempts
  MaxPolls,      \* background.maxPollAttempts
  CancelRemote   \* background.cancelRemoteOnAbort

ASSUME OpenAiAssumption ==
  /\ \A c \in Calls : Asks[c] \subseteq {"synchronous", "background-streaming", "background"}
  /\ Last \in Nat \ {0} /\ MaxResumes \in Nat
  /\ MaxAttempts \in Nat \ {0} /\ MaxPolls \in Nat \ {0}
  /\ CancelRemote \in BOOLEAN

VARIABLES
  op,        \* one record per call: the state of start() and runOperation
  remote,    \* the server's response: none, running, completed or failed
  post,      \* cancelRemote: none, sent, settled, or cut off by close()
  closing,   \* close(): open, cancelling, waiting, closed
  toCancel,  \* close()'s copy of activeCancels that is still to be cancelled
  awaited    \* the pumps and remote cancellations close() waits for

openAiVars == <<op, remote, post, closing, toCancel, awaited>>

Streaming  == {"synchronous", "background-streaming"}
Background == {"background-streaming", "background"}

Idle == [stage |-> "idle", mode |-> "synchronous", outcome |-> "none", handle |-> FALSE,
         highest |-> -1, after |-> -1, checked |-> TRUE, next |-> 0, surfaced |-> <<>>,
         terminal |-> FALSE, tries |-> 0, attempt |-> 0, open |-> FALSE, late |-> FALSE]

OpenAiInit ==
  /\ op = [c \in Calls |-> Idle]
  /\ remote = [c \in Calls |-> "none"]
  /\ post = [c \in Calls |-> "none"]
  /\ closing = "open" /\ toCancel = {} /\ awaited = {}

Starting == {"idle", "admitted", "creating"}
Settled  == {"ended", "refused"}
\* In activeCancels and pumps.
Registered(c) == op[c].stage \notin Starting \cup Settled
Live(c) == op[c].outcome = "none"

Step(c, record) == op' = [op EXCEPT ![c] = record]
\* failOperation.  The catch block aborts the initial stream; whether a
\* resumed one stays connected afterwards is left out.
FailedCall(c) == [op[c] EXCEPT !.stage = "ended", !.outcome = "failed", !.open = FALSE]
\* reconcileTerminal and what follows it.
Concluded(c, record) ==
  [record EXCEPT !.stage = "ended", !.open = FALSE,
                 !.outcome = IF remote[c] = "completed" THEN "completed" ELSE "failed"]

\* The loop over isActiveStatus: poll again, give up, or replay the snapshot.
Looked(c, record) ==
  IF remote[c] # "running"
  THEN Concluded(c, [record EXCEPT !.terminal = TRUE, !.surfaced = [i \in 1 .. Last + 1 |-> i - 1]])
  ELSE IF record.tries < MaxPolls THEN [record EXCEPT !.stage = "delay"]
  ELSE FailedCall(c)

UnchangedElsewhere == UNCHANGED <<remote, post, closing, toCancel, awaited>>

-----------------------------------------------------------------------------
(* start().  Only its first line asks whether the provider is closed.      *)

Start(c, mode) ==
  /\ op[c].stage = "idle"
  /\ Step(c, [op[c] EXCEPT !.mode = mode, !.stage = IF closing = "open" THEN "admitted" ELSE "refused"])
  /\ UnchangedElsewhere

\* The request is checked, authorised, and handed to the transport if that is
\* open; anything else refuses it.
Create(c) ==
  /\ op[c].stage = "admitted"
  /\ \E stage \in (IF closing = "closed" THEN {} ELSE {"creating"}) \cup {"refused"} :
       Step(c, [op[c] EXCEPT !.stage = stage])
  /\ UnchangedElsewhere

\* The response arrives, and the operation is registered and handed out.
Created(c) ==
  /\ op[c].stage = "creating" /\ remote[c] # "none" /\ closing # "closed"
  /\ LET begun == [op[c] EXCEPT !.late = closing # "open"]
     IN IF op[c].mode \in Streaming
        THEN Step(c, [begun EXCEPT !.stage = "pump", !.open = TRUE])
        ELSE Step(c, Looked(c, [begun EXCEPT !.handle = TRUE]))
  /\ UnchangedElsewhere

\* Refused, timed out, lost, aborted by the caller's signal or the closed
\* transport; the request may have reached the server all the same.
CreateFails(c) ==
  /\ op[c].stage = "creating"
  /\ Step(c, [op[c] EXCEPT !.stage = "refused"])
  /\ UnchangedElsewhere

-----------------------------------------------------------------------------
(* pumpStream                                                              *)

\* Mutated form of Continuous: one event may be missing.
ContinuousButOne(after, n) == after = -1 \/ n <= after + 2

\* createSequenceGuard
Fresh(c, n) == n > op[c].highest

\* assertResumeContinuity
Continuous(after, n) == after = -1 \/ n <= after + 1

\* processEvent, when nothing is wrong with the event itself.
Surface(c, n) ==
  [op[c] EXCEPT !.highest = n, !.next = n + 1, !.checked = TRUE, !.surfaced = Append(@, n),
                !.handle = @ \/ (n = 0 /\ op[c].mode \in Background),
                !.terminal = @ \/ n = Last]

Receive(c) ==
  LET n == op[c].next
  IN /\ op[c].stage = "pump" /\ Live(c) /\ op[c].open
     /\ n <= Last + 1 /\ (n >= Last => remote[c] \in {"completed", "failed"})
     /\ \/ /\ ~op[c].checked /\ ~Continuous(op[c].after, n)
           /\ Step(c, FailedCall(c))
        \/ /\ op[c].checked \/ Continuous(op[c].after, n)
           /\ ~Fresh(c, n)
           /\ Step(c, [op[c] EXCEPT !.checked = TRUE, !.next = n + 1])
        \/ /\ op[c].checked \/ Continuous(op[c].after, n)
           /\ Fresh(c, n) /\ op[c].terminal
           /\ Step(c, FailedCall(c))
        \/ /\ op[c].checked \/ Continuous(op[c].after, n)
           /\ Fresh(c, n) /\ ~op[c].terminal
           /\ Step(c, Surface(c, n))
     /\ UnchangedElsewhere

\* The stream ends cleanly, before or after the terminal event.
EndOfStream(c) ==
  /\ op[c].stage = "pump" /\ Live(c) /\ op[c].open
  /\ \/ op[c].terminal /\ Step(c, Concluded(c, op[c]))
     \/ /\ ~op[c].terminal /\ op[c].handle /\ op[c].tries < MaxResumes
        /\ Step(c, [op[c] EXCEPT !.stage = "delay", !.open = FALSE, !.tries = @ + 1, !.after = op[c].highest])
     \/ /\ ~op[c].terminal /\ ~(op[c].handle /\ op[c].tries < MaxResumes)
        /\ Step(c, FailedCall(c))
  /\ UnchangedElsewhere

\* The connection breaks or is aborted by the closed transport, an event
\* cannot be accepted, or the idle bound or the deadline passes.  A broken
\* connection is never resumed.
Break(c) ==
  /\ op[c].stage = "pump" /\ Live(c)
  /\ Step(c, FailedCall(c))
  /\ UnchangedElsewhere

-----------------------------------------------------------------------------
(* Delays, and the reading requests with their retries                     *)

\* Mutated form of Resolve: the retries of one request are not counted.
ResolveUncounted(c) ==
  /\ op[c].stage \in {"delay", "backoff"} /\ Live(c)
  /\ Step(c, [op[c] EXCEPT !.stage = "reading"])
  /\ UnchangedElsewhere

\* waitForOperationDelay; then one more resume, poll or retry.
Resolve(c) ==
  /\ op[c].stage \in {"delay", "backoff"} /\ Live(c)
  /\ Step(c, [op[c] EXCEPT !.stage = "reading", !.attempt = @ + 1])
  /\ UnchangedElsewhere

\* The deadline passes, or the handle has expired, while waiting.
Expire(c) ==
  /\ op[c].stage \in {"delay", "backoff"} /\ Live(c)
  /\ Step(c, FailedCall(c))
  /\ UnchangedElsewhere

\* streamResponse is answered, from where the server pleases.
Resumed(c) ==
  /\ op[c].stage = "reading" /\ Live(c) /\ closing # "closed"
  /\ op[c].mode \in Streaming
  /\ \E n \in 0 .. Last :
       Step(c, [op[c] EXCEPT !.stage = "pump", !.attempt = 0, !.open = TRUE,
                             !.next = n, !.checked = op[c].after = -1])
  /\ UnchangedElsewhere

\* getResponse is answered.
Polled(c) ==
  /\ op[c].stage = "reading" /\ Live(c) /\ closing # "closed"
  /\ op[c].mode = "background"
  /\ Step(c, Looked(c, [op[c] EXCEPT !.attempt = 0, !.tries = @ + 1]))
  /\ UnchangedElsewhere

\* withIdempotentRetries, when the request failed: again, or not.
MayRetry(c) == op[c].attempt < MaxAttempts
ReadFails(c) ==
  /\ op[c].stage = "reading" /\ Live(c)
  /\ \/ MayRetry(c) /\ closing # "closed" /\ Step(c, [op[c] EXCEPT !.stage = "backoff"])
     \/ Step(c, FailedCall(c))
  /\ UnchangedElsewhere

-----------------------------------------------------------------------------
(* Cancellation and close()                                                *)

\* Mutated form of Sends: the handle is the one known when start() returned.
SendsKnownAtStart(c) == CancelRemote /\ op[c].handle /\ op[c].mode = "background"

\* The handlers of a cancellation: the streams and requests are aborted, and
\* the response is cancelled if its handle is known.
Sends(c) == CancelRemote /\ op[c].handle
Cancelling(c) ==
  /\ op' = [op EXCEPT ![c].outcome = "cancelled", ![c].open = FALSE]
  /\ post' = [post EXCEPT ![c] = IF ~Sends(c) THEN @ ELSE IF closing = "closed" THEN "settled" ELSE "sent"]

CancelCall(c) ==
  /\ Registered(c) /\ Live(c)
  /\ Cancelling(c)
  /\ UNCHANGED <<remote, closing, toCancel, awaited>>

\* The operation finds that it is cancelled and ends.
Notice(c) ==
  /\ Registered(c) /\ ~Live(c)
  /\ op' = [op EXCEPT ![c].stage = "ended"]
  /\ UnchangedElsewhere

Close ==
  /\ closing = "open"
  /\ closing' = "cancelling" /\ toCancel' = {c \in Calls : Registered(c)}
  /\ UNCHANGED <<op, remote, post, awaited>>

CloseCancels(c) ==
  /\ closing = "cancelling" /\ c \in toCancel
  /\ toCancel' = toCancel \ {c}
  /\ IF Live(c) THEN Cancelling(c) ELSE UNCHANGED <<op, post>>
  /\ UNCHANGED <<remote, closing, awaited>>

\* allSettled over the pumps and the remote cancellations there are now.
Pending == {c \in Calls : Registered(c) \/ post[c] = "sent"}
CloseWaits ==
  /\ closing = "cancelling" /\ toCancel = {}
  /\ closing' = "waiting" /\ awaited' = Pending
  /\ UNCHANGED <<op, remote, post, toCancel>>

\* transport.close() cuts off what is still under way.
CloseTransport ==
  /\ closing = "waiting" /\ awaited \cap Pending = {}
  /\ closing' = "closed"
  /\ op' = [c \in Calls |-> [op[c] EXCEPT !.open = FALSE]]
  /\ post' = [c \in Calls |-> IF post[c] = "sent" THEN "cut" ELSE post[c]]
  /\ UNCHANGED <<remote, toCancel, awaited>>

-----------------------------------------------------------------------------
(* The server                                                              *)

Accept(c) ==
  /\ op[c].stage = "creating" /\ remote[c] = "none"
  /\ remote' = [remote EXCEPT ![c] = "running"]
  /\ UNCHANGED <<op, post, closing, toCancel, awaited>>

Finish(c) ==
  /\ remote[c] = "running"
  /\ \E status \in {"completed", "failed"} : remote' = [remote EXCEPT ![c] = status]
  /\ UNCHANGED <<op, post, closing, toCancel, awaited>>

\* The cancel request is answered, or lost before or after it arrived.
Answer(c) ==
  /\ post[c] = "sent"
  /\ post' = [post EXCEPT ![c] = "settled"]
  /\ remote' \in {remote, IF remote[c] = "running" THEN [remote EXCEPT ![c] = "failed"] ELSE remote}
  /\ UNCHANGED <<op, closing, toCancel, awaited>>

-----------------------------------------------------------------------------
Run(c) ==
  \/ Create(c) \/ Created(c) \/ CreateFails(c)
  \/ Receive(c) \/ EndOfStream(c) \/ Break(c)
  \/ Resolve(c) \/ Expire(c) \/ Resumed(c) \/ Polled(c) \/ ReadFails(c)
  \/ Notice(c) \/ Answer(c)

OpenAiNext ==
  \/ \E c \in Calls : Run(c) \/ CancelCall(c) \/ CloseCancels(c) \/ Accept(c) \/ Finish(c)
  \/ \E c \in Calls : \E mode \in Asks[c] : Start(c, mode)
  \/ Close \/ CloseWaits \/ CloseTransport

\* Requests, idle bounds and delays have timers; what is awaited settles.
Fairness ==
  /\ \A c \in Calls : WF_openAiVars(Run(c)) /\ WF_openAiVars(CloseCancels(c))
  /\ WF_openAiVars(CloseWaits) /\ WF_openAiVars(CloseTransport)

OpenAiSpec == OpenAiInit /\ [][OpenAiNext]_openAiVars /\ Fairness

-----------------------------------------------------------------------------
(* Properties                                                              *)

\* Whatever a resumed stream replays or skips, the caller sees the events of
\* the response once each, in order and without a gap, and all of them if the
\* operation completes (createSequenceGuard and assertResumeContinuity).
AnswerIsWhole ==
  \A c \in Calls :
    /\ op[c].surfaced = [i \in 1 .. Len(op[c].surfaced) |-> i - 1]
    /\ op[c].outcome = "completed" => Len(op[c].surfaced) = Last + 1

\* A cancellation reaches the response on the server as soon as its id was
\* received, also when it arrived on the stream (the shared handle box); no
\* cancel request is sent for one that was not cancelled here.
CancelReachesRemote ==
  \A c \in Calls :
    /\ (CancelRemote /\ op[c].mode \in Background /\ op[c].outcome = "cancelled"
          /\ (op[c].highest >= 0 \/ op[c].mode = "background")) => post[c] # "none"
    /\ post[c] # "none" => op[c].outcome = "cancelled"

\* close() leaves the cancel requests of the operations it found time to
\* arrive: its transport cuts none of them off.  Only an operation whose
\* start() was under way when close() began can lose one.
CloseCutsNothing == \A c \in Calls : post[c] = "cut" => op[c].late

\* Cancelling an operation cancels its response.
CancelArrives == CancelReachesRemote /\ CloseCutsNothing

\* Every start() is answered and every operation ends: retries, resumes and
\* polls are bounded (withIdempotentRetries, maxResumeAttempts,
\* maxPollAttempts), and close() comes to its end.
EveryCallSettles ==
  /\ \A c \in Calls : (op[c].stage = "admitted") ~> (op[c].stage \in Settled)
  /\ (closing = "cancelling") ~> (closing = "closed")
=============================================================================
