------------------------- MODULE PersistenceProofs -------------------------
(***************************************************************************)
(* Theorems about the persistence packages: the outbox, for every set of   *)
(* messages and workers and every lease duration, and the adapters, which  *)
(* implement AtomicStore for every number of clients, every set of         *)
(* operations and whatever those operations do to the store.               *)
(***************************************************************************)
EXTENDS Outbox, PersistenceStore, TLAPS

-----------------------------------------------------------------------------
(* The outbox                                                              *)

\* Every operation keeps the stored messages and the handles in their types.
THEOREM OutboxTypeCorrect == OutboxSpec => []OutboxTypeOK
<1>. USE OutboxAssumption
<1>1. OutboxInit => OutboxTypeOK
  BY DEF OutboxInit, OutboxTypeOK, Live, Settled
<1>2. OutboxTypeOK /\ [OutboxNext]_outboxVars => OutboxTypeOK'
  <2>. SUFFICES ASSUME OutboxTypeOK, [OutboxNext]_outboxVars PROVE OutboxTypeOK'
    OBVIOUS
  <2>1. ASSUME NEW m \in Messages, NEW delay \in 0 .. MaxDelay, Enqueue(m, delay)
        PROVE  OutboxTypeOK'
    BY <2>1 DEF Enqueue, OutboxTypeOK, Live
  <2>2. ASSUME NEW w \in Owners, NEW limit \in 1 .. MaxLimit, NEW lease \in 1 .. MaxLease,
               Claim(w, limit, lease)
        PROVE  OutboxTypeOK'
    <3>1. status' \in [Messages -> {"absent"} \cup Live \cup Settled]
      BY <2>2 DEF Claim, OutboxTypeOK, Live
    <3>2. {[msg |-> m, left |-> LeaseExpiry(lease)] : m \in FirstClaimable(limit)} \subseteq Handles
      <4>1. FirstClaimable(limit) \subseteq Messages /\ LeaseExpiry(lease) \in 0 .. MaxLease
        BY DEF FirstClaimable, LeaseExpiry
      <4>. QED BY <4>1 DEF Handles
    <3>3. holds' \in [Owners -> SUBSET Handles]
      BY <2>2, <3>2 DEF Claim, OutboxTypeOK
    <3>. QED BY <2>2, <3>1, <3>3 DEF Claim, OutboxTypeOK, LeaseExpiry
  <2>3. ASSUME NEW w \in Owners, NEW h \in holds[w],
               Acknowledge(w, h) \/ DeadLetter(w, h)
        PROVE  OutboxTypeOK'
    BY <2>3 DEF Acknowledge, DeadLetter, Reports, ReleaseLease, OutboxTypeOK, Settled, Handles
  <2>4. ASSUME NEW w \in Owners, NEW h \in holds[w], NEW delay \in 0 .. MaxDelay,
               ScheduleRetry(w, h, delay)
        PROVE  OutboxTypeOK'
    BY <2>4 DEF ScheduleRetry, Reports, ReleaseLease, OutboxTypeOK, Live, Handles
  <2>5. ASSUME NEW w \in Owners, NEW h \in holds[w], ReportWithoutEffect(w, h)
        PROVE  OutboxTypeOK'
    BY <2>5 DEF ReportWithoutEffect, Reports, OutboxTypeOK, store
  <2>6. ASSUME NEW w \in Owners, WorkerCrash(w) PROVE OutboxTypeOK'
    BY <2>6 DEF WorkerCrash, OutboxTypeOK, store
  <2>7. ASSUME NEW m \in Messages, Damage(m) PROVE OutboxTypeOK'
    BY <2>7 DEF Damage, OutboxTypeOK, store
  <2>8. ASSUME Tick PROVE OutboxTypeOK'
    <3>1. \A n \in 0 .. MaxDelay : Less(n) \in 0 .. MaxDelay
      BY DEF Less
    <3>2. \A n \in 0 .. MaxLease : Less(n) \in 0 .. MaxLease
      BY DEF Less
    <3>3. availableIn' \in [Messages -> 0 .. MaxDelay] /\ leaseLeft' \in [Messages -> 0 .. MaxLease]
      BY <2>8, <3>1, <3>2 DEF Tick, OutboxTypeOK
    <3>4. \A h \in Handles : [h EXCEPT !.left = Less(h.left)] \in Handles
      BY <3>2 DEF Handles
    <3>5. holds' \in [Owners -> SUBSET Handles]
      BY <2>8, <3>4 DEF Tick, OutboxTypeOK
    <3>. QED BY <2>8, <3>3, <3>5 DEF Tick, OutboxTypeOK
  <2>9. CASE UNCHANGED outboxVars
    BY <2>9 DEF outboxVars, store, OutboxTypeOK
  <2>. QED
    BY <2>1, <2>2, <2>3, <2>4, <2>5, <2>6, <2>7, <2>8, <2>9 DEF OutboxNext
<1>. QED BY <1>1, <1>2, PTL DEF OutboxSpec

\* An acknowledged or dead-lettered message never changes: a claim passes it
\* over and every report needs a lease.
THEOREM SettledMessagesStay == OutboxSpec => SettledForGood
<1>. DEFINE Kept == \A m \in Messages : status[m] \in Settled => status'[m] = status[m]
<1>1. OutboxTypeOK /\ [OutboxNext]_outboxVars => [Kept]_outboxVars
  <2>. SUFFICES ASSUME OutboxTypeOK, OutboxNext, NEW m \in Messages, status[m] \in Settled
                PROVE  status'[m] = status[m]
    OBVIOUS
  <2>1. ASSUME NEW n \in Messages, NEW delay, Enqueue(n, delay)
        PROVE  status'[m] = status[m]
    BY <2>1 DEF Enqueue, OutboxTypeOK, Settled
  <2>2. ASSUME NEW w \in Owners, NEW limit, NEW lease, Claim(w, limit, lease)
        PROVE  status'[m] = status[m]
    BY <2>2 DEF Claim, FirstClaimable, IsClaimable, Settled
  <2>3. ASSUME NEW w \in Owners, NEW h \in holds[w], NEW delay,
               \/ Acknowledge(w, h) \/ DeadLetter(w, h) \/ ScheduleRetry(w, h, delay)
        PROVE  status'[m] = status[m]
    BY <2>3 DEF Acknowledge, DeadLetter, ScheduleRetry, RequireLeasedByOwner, OutboxTypeOK, Settled,
                Handles
  <2>. QED
    BY <2>1, <2>2, <2>3 DEF OutboxNext, ReportWithoutEffect, WorkerCrash, Damage, Tick, store
<1>. QED BY <1>1, OutboxTypeCorrect, PTL DEF OutboxSpec, SettledForGood

(***************************************************************************)
(* A lease that its worker still believes in is the lease in the store.    *)
(* This is what makes leases exclusive; it is inductive only as long as no *)
(* worker reports after its lease ran out, because the store compares      *)
(* owners and not leases.                                                  *)
(***************************************************************************)
LeaseBacked ==
  late = {} =>
    \A w \in Owners : \A h \in holds[w] :
      h.left > 0 => /\ status[h.msg] = "leased"
                    /\ leaseOwner[h.msg] = w
                    /\ leaseLeft[h.msg] = h.left

\* A report made in time takes the only live handle on its message with it.
LEMMA TimelyReport ==
  ASSUME OutboxTypeOK, LeaseBacked, late' = {}, NEW w \in Owners, NEW g \in holds[w],
         Reports(w, g), NEW v \in Owners, NEW h \in holds'[v], h.left > 0
  PROVE  h \in holds[v] /\ h.msg # g.msg
<1>1. late = {} /\ g.left > 0 /\ holds' = [holds EXCEPT ![w] = @ \ {g}]
  BY DEF Reports, OutboxTypeOK, Handles
<1>2. h \in holds[v] /\ ~(v = w /\ h = g)
  BY <1>1 DEF OutboxTypeOK
<1>3. g \in Handles /\ h \in Handles
  BY <1>2 DEF OutboxTypeOK
<1>4. ASSUME h.msg = g.msg PROVE FALSE
  <2>1. v = w /\ h.left = g.left
    BY <1>1, <1>2, <1>4 DEF LeaseBacked
  <2>2. h = g
    BY <1>3, <1>4, <2>1 DEF Handles
  <2>. QED BY <1>2, <2>1, <2>2
<1>. QED BY <1>2, <1>4

\* As long as no worker has reported late, two workers never hold live leases
\* on the same message.
THEOREM ExclusiveLeases == OutboxSpec => []LeasesExclusive
<1>. USE OutboxAssumption
<1>1. OutboxInit => LeaseBacked
  BY DEF OutboxInit, LeaseBacked
<1>2. OutboxTypeOK /\ OutboxTypeOK' /\ LeaseBacked /\ [OutboxNext]_outboxVars => LeaseBacked'
  <2>. SUFFICES ASSUME OutboxTypeOK, OutboxTypeOK', LeaseBacked, [OutboxNext]_outboxVars, late' = {},
                       NEW v \in Owners, NEW h \in holds'[v], h.left > 0
                PROVE  /\ status'[h.msg] = "leased"
                       /\ leaseOwner'[h.msg] = v
                       /\ leaseLeft'[h.msg] = h.left
    BY DEF LeaseBacked
  <2>. DEFINE Backed == /\ status'[h.msg] = "leased"
                        /\ leaseOwner'[h.msg] = v
                        /\ leaseLeft'[h.msg] = h.left
  <2>0. h.msg \in Messages
    BY DEF OutboxTypeOK, Handles
  <2>00. late = {}
    BY DEF OutboxNext, outboxVars, Enqueue, Claim, Acknowledge, DeadLetter, ScheduleRetry,
           ReportWithoutEffect, Reports, WorkerCrash, Damage, Tick
  <2>. USE <2>00
  <2>1. ASSUME NEW m \in Messages, NEW delay, Enqueue(m, delay)
        PROVE  Backed
    BY <2>0, <2>1 DEF Enqueue, OutboxTypeOK, LeaseBacked
  <2>2. ASSUME NEW w \in Owners, NEW limit, NEW lease \in 1 .. MaxLease, Claim(w, limit, lease)
        PROVE  Backed
    <3>. DEFINE chosen == FirstClaimable(limit)
    <3>1. CASE h \in holds[v]
      <4>1. h.msg \notin chosen
        BY <3>1 DEF LeaseBacked, FirstClaimable, IsClaimable
      <4>. QED BY <2>0, <2>2, <3>1, <4>1 DEF Claim, LeaseBacked
    <3>2. CASE h \notin holds[v]
      <4>1. v = w /\ \E m \in chosen : h = [msg |-> m, left |-> lease]
        BY <2>2, <3>2 DEF Claim, OutboxTypeOK, LeaseExpiry
      <4>. QED BY <2>0, <2>2, <4>1 DEF Claim, LeaseExpiry
    <3>. QED BY <3>1, <3>2
  <2>3. ASSUME NEW w \in Owners, NEW g \in holds[w], NEW delay,
               \/ Acknowledge(w, g) \/ DeadLetter(w, g) \/ ScheduleRetry(w, g, delay)
        PROVE  Backed
    <3>1. h \in holds[v] /\ h.msg # g.msg
      BY <2>3, TimelyReport DEF Acknowledge, DeadLetter, ScheduleRetry
    <3>2. /\ status'[h.msg] = status[h.msg] /\ leaseOwner'[h.msg] = leaseOwner[h.msg]
          /\ leaseLeft'[h.msg] = leaseLeft[h.msg]
      BY <2>0, <2>3, <3>1
      DEF Acknowledge, DeadLetter, ScheduleRetry, ReleaseLease, OutboxTypeOK
    <3>. QED BY <3>1, <3>2 DEF LeaseBacked
  <2>4. ASSUME NEW w \in Owners, NEW g \in holds[w], ReportWithoutEffect(w, g)
        PROVE  Backed
    <3>1. h \in holds[v]
      BY <2>4, TimelyReport DEF ReportWithoutEffect
    <3>. QED BY <2>4, <3>1 DEF ReportWithoutEffect, store, LeaseBacked
  <2>5. ASSUME NEW w \in Owners, WorkerCrash(w) PROVE Backed
    <3>1. h \in holds[v]
      BY <2>5 DEF WorkerCrash, OutboxTypeOK
    <3>. QED BY <2>5, <3>1 DEF WorkerCrash, store, LeaseBacked
  <2>6. ASSUME NEW m \in Messages, Damage(m) PROVE Backed
    BY <2>6 DEF Damage, store, LeaseBacked
  <2>7. ASSUME Tick PROVE Backed
    <3>1. PICK g \in holds[v] : h = [g EXCEPT !.left = Less(g.left)]
      BY <2>7 DEF Tick
    <3>2. g \in Handles
      BY DEF OutboxTypeOK
    <3>3. h.msg = g.msg /\ h.left = Less(g.left) /\ g.left \in 0 .. MaxLease
      BY <3>1, <3>2 DEF Handles
    <3>4. g.left > 0
      BY <3>3 DEF Less
    <3>5. /\ status[h.msg] = "leased" /\ leaseOwner[h.msg] = v /\ leaseLeft[h.msg] = g.left
      BY <3>3, <3>4 DEF LeaseBacked
    <3>. QED BY <2>0, <2>7, <3>3, <3>5 DEF Tick
  <2>8. CASE UNCHANGED outboxVars
    BY <2>8 DEF outboxVars, store, LeaseBacked
  <2>. QED
    BY <2>1, <2>2, <2>3, <2>4, <2>5, <2>6, <2>7, <2>8 DEF OutboxNext
<1>3. OutboxTypeOK /\ LeaseBacked => LeasesExclusive
  <2>. SUFFICES ASSUME OutboxTypeOK, LeaseBacked, late = {}, NEW v \in Owners, NEW w \in Owners,
                       NEW g \in holds[v], NEW h \in holds[w],
                       g.msg = h.msg, g.left > 0, h.left > 0
                PROVE  v = w /\ g = h
    BY DEF LeasesExclusive, Exclusive
  <2>1. g \in Handles /\ h \in Handles
    BY DEF OutboxTypeOK
  <2>2. v = w /\ g.left = h.left
    BY DEF LeaseBacked
  <2>. QED BY <2>1, <2>2 DEF Handles
<1>. QED BY <1>1, <1>2, <1>3, OutboxTypeCorrect, PTL DEF OutboxSpec

-----------------------------------------------------------------------------
(* The adapters                                                            *)

\* Who may write: an active context belongs to the one callback that holds
\* the mutex, and no callback runs on a closed adapter.
HolderInv ==
  /\ running \in Clients \cup {NoClient}
  /\ gate \in [Clients -> BOOLEAN]
  /\ closed \in BOOLEAN
  /\ pc \in [Clients -> {"idle", "queued", "inside", "stuck"}]
  /\ answer \in [Clients -> {"none", "committed", "failed"}]
  /\ \A c \in Clients : gate[c] => running = c
  /\ closed => running = NoClient

\* Nobody is inside an adapter that was just opened.
LEMMA HolderInit == Init => HolderInv
BY AdapterAssumption DEF Init, HolderInv

\* HolderInv is inductive.
LEMMA HolderStep == HolderInv /\ [Next]_vars => HolderInv'
<1>. SUFFICES ASSUME HolderInv, [Next]_vars PROVE HolderInv'
  OBVIOUS
<1>. USE DEF HolderInv
<1>1. ASSUME NEW c \in Clients, Transact(c) PROVE HolderInv'
  BY <1>1 DEF Transact
<1>2. ASSUME NEW c \in Clients, NEW kind, Ask(c, kind) PROVE HolderInv'
  BY <1>2 DEF Ask
<1>3. ASSUME NEW c \in Clients, Begin(c) PROVE HolderInv'
  BY <1>3, AdapterAssumption DEF Begin, Granted
<1>4. ASSUME NEW c \in Clients, BeginFails(c) PROVE HolderInv'
  BY <1>4 DEF BeginFails
<1>5. ASSUME NEW c \in Clients, Close(c) PROVE HolderInv'
  BY <1>5 DEF Close, Granted
<1>6. ASSUME NEW c \in Clients, MigrationStatus(c) PROVE HolderInv'
  BY <1>6 DEF MigrationStatus
<1>7. ASSUME NEW c \in Clients, NEW op \in Ops, Operate(c, op) PROVE HolderInv'
  BY <1>7 DEF Operate
<1>8. ASSUME NEW c \in Clients, NEW result \in {"committed", "failed"}, Finish(c, result)
      PROVE  HolderInv'
  BY <1>8, AdapterAssumption DEF Finish
<1>9. ASSUME Crash PROVE HolderInv'
  BY <1>9, AdapterAssumption DEF Crash
<1>10. ASSUME UNCHANGED vars PROVE HolderInv'
  BY <1>10 DEF vars
<1>. QED
  BY <1>1, <1>2, <1>3, <1>4, <1>5, <1>6, <1>7, <1>8, <1>9, <1>10
     DEF Next, Commit, RollBack

\* Only the holder of the mutex is inside, whatever the adapter does.
LEMMA HolderInvariance == Spec => []HolderInv
BY HolderInit, HolderStep, PTL DEF Spec

\* The refinement mapping: the committed store and the open transaction.
Db == IF running = NoClient THEN state ELSE snapshot
Tx == [c \in Clients |-> IF running = c THEN <<snapshot, state>> ELSE <<>>]

\* Every step of an adapter is a step of AtomicStore or changes nothing there.
LEMMA AtomicStep ==
  ASSUME HolderInv, [Next]_vars
  PROVE  [Atomic!Next]_(Atomic!vars)
<1>0. \A a, b : <<a, b>> # <<>>
  OBVIOUS
<1>. DEFINE Quiet == UNCHANGED <<Db, Tx, answer>>
<1>q. Quiet => [Atomic!Next]_(Atomic!vars)
  BY DEF Atomic!vars, Db, Tx
<1>1. ASSUME NEW c \in Clients, Transact(c) PROVE Quiet
  BY <1>1 DEF Transact, Db, Tx
<1>2. ASSUME NEW c \in Clients, NEW kind, Ask(c, kind) PROVE Quiet
  BY <1>2 DEF Ask, Db, Tx
<1>3. ASSUME NEW c \in Clients, Begin(c) PROVE Atomic!Begin(c)
  <2>1. /\ running = NoClient /\ running' = c /\ snapshot' = state /\ state' = state
        /\ c # NoClient
        /\ answer' = [answer EXCEPT ![c] = "none"]
    BY <1>3, AdapterAssumption DEF Begin, Granted
  <2>2. Db = state /\ Db' = state
    BY <2>1 DEF Db
  <2>3. Tx[c] = <<>> /\ Tx' = [Tx EXCEPT ![c] = <<state, state>>]
    BY <2>1, AdapterAssumption DEF Tx
  <2>. QED
    BY <2>1, <2>2, <2>3 DEF Atomic!Begin, Db, Tx
<1>4. ASSUME NEW c \in Clients, BeginFails(c) PROVE Atomic!Abort(c)
  <2>1. /\ running = NoClient /\ running' = running /\ snapshot' = snapshot
        /\ state' = state /\ answer' = [answer EXCEPT ![c] = "failed"]
    BY <1>4 DEF BeginFails, Granted
  <2>2. Tx' = [Tx EXCEPT ![c] = <<>>] /\ Db' = Db
    BY <2>1, AdapterAssumption DEF Tx, Db
  <2>. QED
    BY <2>1, <2>2 DEF Atomic!Abort, Db, Tx
<1>5. ASSUME NEW c \in Clients, Close(c) PROVE Quiet
  BY <1>5 DEF Close, Db, Tx
<1>6. ASSUME NEW c \in Clients, MigrationStatus(c) PROVE Quiet
  BY <1>6 DEF MigrationStatus, Db, Tx
<1>7. ASSUME NEW c \in Clients, NEW op \in Ops, Operate(c, op)
      PROVE  Atomic!Operate(c, op)
  <2>1. /\ running = c /\ running' = c /\ snapshot' = snapshot /\ answer' = answer
        /\ state' = Effect(op, state) /\ c # NoClient
    BY <1>7, AdapterAssumption DEF Operate, HolderInv
  <2>2. Db' = Db
    BY <2>1 DEF Db
  <2>3. /\ Tx[c] = <<snapshot, state>>
        /\ Tx' = [Tx EXCEPT ![c] = <<snapshot, Effect(op, state)>>]
    BY <2>1 DEF Tx
  <2>4. Tx[c] # <<>> /\ Tx[c][1] = snapshot /\ Tx[c][2] = state
    BY <2>3, <1>0
  <2>. QED
    BY <2>1, <2>2, <2>3, <2>4 DEF Atomic!Operate, Db, Tx
<1>8. ASSUME NEW c \in Clients, Commit(c) PROVE Atomic!Commit(c)
  <2>1. /\ running = c /\ running' = NoClient /\ snapshot' = snapshot
        /\ state' = state /\ answer' = [answer EXCEPT ![c] = "committed"]
        /\ c # NoClient
    BY <1>8, AdapterAssumption DEF Commit, Finish
  <2>2. Db = snapshot /\ Db' = state
    BY <2>1 DEF Db
  <2>3. /\ Tx[c] = <<snapshot, state>> /\ Tx' = [Tx EXCEPT ![c] = <<>>]
    BY <2>1, AdapterAssumption DEF Tx
  <2>4. Tx[c] # <<>> /\ Tx[c][1] = snapshot /\ Tx[c][2] = state
    BY <2>3, <1>0
  <2>. QED
    BY <2>1, <2>2, <2>3, <2>4 DEF Atomic!Commit, Db, Tx
<1>9. ASSUME NEW c \in Clients, RollBack(c) PROVE Atomic!Abort(c)
  <2>1. /\ running = c /\ running' = NoClient /\ snapshot' = snapshot
        /\ state' = snapshot /\ answer' = [answer EXCEPT ![c] = "failed"]
        /\ c # NoClient
    BY <1>9, AdapterAssumption DEF RollBack, Finish
  <2>2. Tx' = [Tx EXCEPT ![c] = <<>>] /\ Db' = Db
    BY <2>1, AdapterAssumption DEF Tx, Db
  <2>. QED
    BY <2>1, <2>2 DEF Atomic!Abort, Db, Tx
<1>10. ASSUME Crash PROVE Atomic!Crash
  <2>1. /\ running' = NoClient /\ state' = Db
        /\ answer' = [c \in Clients |-> "none"]
    BY <1>10 DEF Crash, Db
  <2>2. Db' = Db /\ Tx' = [c \in Clients |-> <<>>]
    BY <2>1, AdapterAssumption DEF Db, Tx
  <2>. QED
    BY <2>1, <2>2 DEF Atomic!Crash, Db, Tx
<1>11. ASSUME UNCHANGED vars PROVE Quiet
  BY <1>11 DEF vars, Db, Tx
<1>. QED
  BY <1>q, <1>1, <1>2, <1>3, <1>4, <1>5, <1>6, <1>7, <1>8, <1>9, <1>10, <1>11
     DEF Next, Atomic!Next

\* transact is atomic and isolated in both adapters: the mutex, the snapshot
\* and the gates implement a store whose transactions take effect as a whole
\* or not at all, and whose callers are told which.
THEOREM AdapterImplementsAtomicStore == Spec => ImplementsAtomicStore
<1>1. Init => Atomic!Init
  BY AdapterAssumption DEF Init, Atomic!Init
<1>2. HolderInv /\ [Next]_vars => [Atomic!Next]_(Atomic!vars)
  BY AtomicStep
<1>. QED
  BY <1>1, <1>2, HolderInvariance, PTL DEF Spec, ImplementsAtomicStore, Atomic!Spec

\* No step taken while the adapter is closed writes or starts a callback, not
\* even one through a context that outlived its transaction.
THEOREM ClosedAdapterIsQuiet == Spec => ClosedIsQuiet
<1>1. HolderInv /\ [Next]_vars => [closed => state' = state /\ running' = NoClient]_vars
  <2>. SUFFICES ASSUME HolderInv, Next, closed PROVE state' = state /\ running' = NoClient
    OBVIOUS
  <2>0. running = NoClient /\ \A c \in Clients : running # c /\ gate[c] = FALSE
    BY AdapterAssumption DEF HolderInv
  <2>. QED
    BY <2>0 DEF Next, Transact, Ask, Begin, BeginFails, Close, MigrationStatus, Operate,
                Commit, RollBack, Finish, Crash
<1>. QED
  BY <1>1, HolderInvariance, PTL DEF Spec, ClosedIsQuiet

-----------------------------------------------------------------------------
(* The store behind the adapters                                           *)

\* What a store holds.
Databases ==
  [version   : [Aggregates -> Nat],
   events    : Seq(Events),
   outbox    : Seq(MessageIds),
   status    : [MessageIds -> {"absent", "pending", "leased", "acknowledged"}],
   artifacts : SUBSET Artifacts]

\* The journal of one store and its outbox: what JournalHasNoDuplicates says
\* of the store the running callback sees.
NoDuplicates(db) ==
  /\ \A i, j \in DOMAIN db.events : db.events[i] = db.events[j] => i = j
  /\ \A i, j \in DOMAIN db.outbox :
       KeyOfMessage[db.outbox[i]] = KeyOfMessage[db.outbox[j]] => i = j

Sound(db) == db \in Databases /\ NoDuplicates(db)

\* A write to a field that holds neither events nor messages adds neither.
LEMMA WriteKeepsSound ==
  ASSUME NEW db, Sound(db), NEW new \in Databases,
         new.events = db.events, new.outbox = db.outbox
  PROVE  Sound(new)
BY DEF Sound, NoDuplicates

\* A write to one field is a store if the new value of the field is.
LEMMA WriteVersion ==
  ASSUME NEW db, Sound(db), NEW v \in [Aggregates -> Nat]
  PROVE  Sound([db EXCEPT !.version = v])
<1>1. /\ [db EXCEPT !.version = v] \in Databases
      /\ [db EXCEPT !.version = v].events = db.events
      /\ [db EXCEPT !.version = v].outbox = db.outbox
  BY DEF Sound, Databases
<1>. QED BY <1>1, WriteKeepsSound

\* The same for the states of the messages.
LEMMA WriteStatus ==
  ASSUME NEW db, Sound(db),
         NEW w \in [MessageIds -> {"absent", "pending", "leased", "acknowledged"}]
  PROVE  Sound([db EXCEPT !.status = w])
<1>1. /\ [db EXCEPT !.status = w] \in Databases
      /\ [db EXCEPT !.status = w].events = db.events
      /\ [db EXCEPT !.status = w].outbox = db.outbox
  BY DEF Sound, Databases
<1>. QED BY <1>1, WriteKeepsSound

\* The same for the artifact metadata.
LEMMA WriteArtifacts ==
  ASSUME NEW db, Sound(db), NEW v \in SUBSET Artifacts
  PROVE  Sound([db EXCEPT !.artifacts = v])
<1>1. /\ [db EXCEPT !.artifacts = v] \in Databases
      /\ [db EXCEPT !.artifacts = v].events = db.events
      /\ [db EXCEPT !.artifacts = v].outbox = db.outbox
  BY DEF Sound, Databases
<1>. QED BY <1>1, WriteKeepsSound

\* No call of a transaction context, whether it returns or throws, stores an
\* event or an idempotency key twice.
LEMMA CallsKeepSound ==
  ASSUME NEW db, Sound(db), NEW op \in StoreCalls
  PROVE  Sound(Apply(op, db))
<1>. USE StoreOpsAssumption
<1>0. db \in Databases /\ NoDuplicates(db)
  BY DEF Sound
<1>k. op.kind \in {"create", "update", "append", "enqueue", "claim", "acknowledge", "put"}
  BY DEF StoreCalls
<1>1. CASE op.kind = "create"
  <2>1. op.id \in Aggregates /\ Apply(op, db) = Create(op.id, db)
    BY <1>1 DEF StoreCalls, Apply
  <2>2. [db.version EXCEPT ![op.id] = 1] \in [Aggregates -> Nat]
    BY <1>0, <2>1 DEF Databases
  <2>3. Create(op.id, db) \in {db, [db EXCEPT !.version = [db.version EXCEPT ![op.id] = 1]]}
    BY DEF Create
  <2>4. Sound([db EXCEPT !.version = [db.version EXCEPT ![op.id] = 1]])
    BY <2>2, WriteVersion
  <2>. QED BY ONLY Sound(db), <2>1, <2>3, <2>4
<1>2. CASE op.kind = "update"
  <2>1. /\ op.id \in Aggregates /\ op.expected \in Nat
        /\ Apply(op, db) = Update(op.id, op.expected, db)
    BY <1>2 DEF StoreCalls, Apply
  <2>2. [db.version EXCEPT ![op.id] = op.expected + 1] \in [Aggregates -> Nat]
    BY <1>0, <2>1 DEF Databases
  <2>3. Update(op.id, op.expected, db)
          \in {db, [db EXCEPT !.version = [db.version EXCEPT ![op.id] = op.expected + 1]]}
    BY DEF Update
  <2>4. Sound([db EXCEPT !.version = [db.version EXCEPT ![op.id] = op.expected + 1]])
    BY <2>2, WriteVersion
  <2>. QED BY ONLY Sound(db), <2>1, <2>3, <2>4
<1>3. CASE op.kind = "append"
  <2>1. op.id \in Events /\ Apply(op, db) = AppendEvent(op.id, db)
    BY <1>3 DEF StoreCalls, Apply
  <2>2. CASE \E i \in DOMAIN db.events : db.events[i] = op.id
    BY <2>1, <2>2, <1>0 DEF AppendEvent, Sound
  <2>3. CASE \A i \in DOMAIN db.events : db.events[i] # op.id
    <3>1. Apply(op, db) = [db EXCEPT !.events = Append(db.events, op.id)]
      BY <2>1, <2>3 DEF AppendEvent
    <3>2. db.events \in Seq(Events) /\ Append(db.events, op.id) \in Seq(Events)
      BY <1>0, <2>1 DEF Databases
    <3>3. \A i, j \in DOMAIN Append(db.events, op.id) :
            Append(db.events, op.id)[i] = Append(db.events, op.id)[j] => i = j
      BY <1>0, <2>1, <2>3, <3>2 DEF NoDuplicates
    <3>4. PICK journal : journal = Append(db.events, op.id)
      OBVIOUS
    <3>5. /\ [db EXCEPT !.events = journal] \in Databases
          /\ [db EXCEPT !.events = journal].events = journal
          /\ [db EXCEPT !.events = journal].outbox = db.outbox
      BY <1>0, <3>2, <3>4 DEF Databases
    <3>6. \A i, j \in DOMAIN journal : journal[i] = journal[j] => i = j
      BY <3>3, <3>4
    <3>. QED BY <1>0, <3>1, <3>4, <3>5, <3>6 DEF Sound, NoDuplicates
  <2>. QED BY <2>2, <2>3
<1>4. CASE op.kind = "enqueue"
  <2>1. op.id \in MessageIds /\ Apply(op, db) = EnqueueMessage(op.id, db)
    BY <1>4 DEF StoreCalls, Apply
  <2>2. CASE \E i \in DOMAIN db.outbox :
               db.outbox[i] = op.id \/ KeyOfMessage[db.outbox[i]] = KeyOfMessage[op.id]
    BY <2>1, <2>2, <1>0 DEF EnqueueMessage, Sound
  <2>3. CASE \A i \in DOMAIN db.outbox : KeyOfMessage[db.outbox[i]] # KeyOfMessage[op.id]
    <3>0. ~ \E i \in DOMAIN db.outbox :
              db.outbox[i] = op.id \/ KeyOfMessage[db.outbox[i]] = KeyOfMessage[op.id]
      BY <2>3
    <3>1. Apply(op, db) = [db EXCEPT !.outbox = Append(db.outbox, op.id),
                                     !.status = [db.status EXCEPT ![op.id] = "pending"]]
      BY <2>1, <3>0 DEF EnqueueMessage
    <3>2. /\ db.outbox \in Seq(MessageIds) /\ Append(db.outbox, op.id) \in Seq(MessageIds)
          /\ [db.status EXCEPT ![op.id] = "pending"]
               \in [MessageIds -> {"absent", "pending", "leased", "acknowledged"}]
      BY <1>0, <2>1 DEF Databases
    <3>3. \A i, j \in DOMAIN Append(db.outbox, op.id) :
            KeyOfMessage[Append(db.outbox, op.id)[i]] = KeyOfMessage[Append(db.outbox, op.id)[j]]
              => i = j
      BY <1>0, <2>1, <2>3, <3>2 DEF NoDuplicates
    <3>4. PICK messages, marks : /\ messages = Append(db.outbox, op.id)
                                /\ marks = [db.status EXCEPT ![op.id] = "pending"]
      OBVIOUS
    <3>5. PICK new : new = [db EXCEPT !.outbox = messages, !.status = marks]
      OBVIOUS
    <3>6. new \in Databases /\ new.events = db.events /\ new.outbox = messages
      BY <1>0, <3>2, <3>4, <3>5 DEF Databases
    <3>7. \A i, j \in DOMAIN messages :
            KeyOfMessage[messages[i]] = KeyOfMessage[messages[j]] => i = j
      BY <3>3, <3>4
    <3>8. Sound(new)
      BY <1>0, <3>6, <3>7 DEF Sound, NoDuplicates
    <3>. QED BY <3>1, <3>4, <3>5, <3>8
  <2>. QED BY <2>2, <2>3
<1>5. CASE op.kind = "claim"
  <2>1. PICK leased :
          /\ leased \in [MessageIds -> {"absent", "pending", "leased", "acknowledged"}]
          /\ Apply(op, db) = [db EXCEPT !.status = leased]
    BY <1>0, <1>5 DEF Apply, ClaimMessages, Databases
  <2>2. Sound([db EXCEPT !.status = leased])
    BY <2>1, WriteStatus
  <2>. QED BY ONLY <2>1, <2>2
<1>6. CASE op.kind = "acknowledge"
  <2>1. op.id \in MessageIds /\ Apply(op, db) = AcknowledgeMessage(op.id, db)
    BY <1>6 DEF StoreCalls, Apply
  <2>2. [db.status EXCEPT ![op.id] = "acknowledged"]
          \in [MessageIds -> {"absent", "pending", "leased", "acknowledged"}]
    BY <1>0, <2>1 DEF Databases
  <2>3. AcknowledgeMessage(op.id, db)
          \in {db, [db EXCEPT !.status = [db.status EXCEPT ![op.id] = "acknowledged"]]}
    BY DEF AcknowledgeMessage
  <2>4. Sound([db EXCEPT !.status = [db.status EXCEPT ![op.id] = "acknowledged"]])
    BY <2>2, WriteStatus
  <2>. QED BY ONLY Sound(db), <2>1, <2>3, <2>4
<1>7. CASE op.kind = "put"
  <2>1. op.id \in Artifacts /\ Apply(op, db) = PutArtifact(op.id, db)
    BY <1>7 DEF StoreCalls, Apply
  <2>2. db.artifacts \cup {op.id} \in SUBSET Artifacts
    BY <1>0, <2>1 DEF Databases
  <2>3. PutArtifact(op.id, db) = [db EXCEPT !.artifacts = db.artifacts \cup {op.id}]
    BY DEF PutArtifact
  <2>4. Sound([db EXCEPT !.artifacts = db.artifacts \cup {op.id}])
    BY <2>2, WriteArtifacts
  <2>. QED BY ONLY <2>1, <2>3, <2>4
<1>. QED BY <1>k, <1>1, <1>2, <1>3, <1>4, <1>5, <1>6, <1>7

\* The adapter runs over the operations of StoreOps: what a run's .cfg says.
OverStoreOps ==
  /\ Ops = StoreCalls
  /\ InitialDb = EmptyDb
  /\ \A op, db : Effect(op, db) = Apply(op, db)

\* The journal and the outbox never hold an event or an idempotency key twice,
\* in the store a callback sees and in the one a rollback or a restart returns
\* to, whatever calls fail and whichever transaction is tried again.
THEOREM NothingIsStoredTwice == OverStoreOps /\ Spec => []JournalHasNoDuplicates
<1>. SUFFICES ASSUME OverStoreOps PROVE Spec => []JournalHasNoDuplicates
  OBVIOUS
<1>. DEFINE BothSound == Sound(state) /\ Sound(snapshot)
<1>1. Init => BothSound
  <2>1. EmptyDb \in Databases /\ NoDuplicates(EmptyDb)
    BY DEF EmptyDb, Databases, NoDuplicates
  <2>. QED BY <2>1 DEF Init, OverStoreOps, Sound
<1>2. BothSound /\ [Next]_vars => BothSound'
  <2>. SUFFICES ASSUME Sound(state), Sound(snapshot), [Next]_vars
                PROVE  Sound(state') /\ Sound(snapshot')
    OBVIOUS
  <2>1. ASSUME NEW c \in Clients, NEW op \in Ops, Operate(c, op)
        PROVE  Sound(state') /\ Sound(snapshot')
    <3>1. op \in StoreCalls /\ state' = Apply(op, state) /\ snapshot' = snapshot
      BY <2>1 DEF Operate, OverStoreOps
    <3>. QED BY <3>1, CallsKeepSound
  <2>2. \/ \E c \in Clients, op \in Ops : Operate(c, op)
        \/ state' \in {state, snapshot} /\ snapshot' \in {state, snapshot}
    BY DEF Next, Transact, Ask, Begin, BeginFails, Close, MigrationStatus, Commit,
           RollBack, Finish, Crash, vars
  <2>. QED BY <2>1, <2>2
<1>3. BothSound => JournalHasNoDuplicates
  BY DEF Sound, NoDuplicates, JournalHasNoDuplicates
<1>. QED BY <1>1, <1>2, <1>3, PTL DEF Spec

=============================================================================
