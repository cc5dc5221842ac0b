----------------------- MODULE LocalArtifactStoreProofs -----------------------
(* Theorems about the local artifact store, for every set of keys and calls, *)
(* every workload and durability mode, and any number of crashes.            *)
EXTENDS LocalArtifactStore, TLAPS

Calls == [at : WriteStages, key : Keys \cup {None}, result : Succeeded \cup {"none", "failed", "lost"}]
ReadCalls == [at : {"idle", "opening", "streaming", "over"}, key : Keys \cup {None},
              file : Writes \cup {None}, result : {"none", "whole", "corrupted", "closed", "left"}]
DeleteCalls == [at : {"idle", "unlinking", "over"}, key : Keys \cup {None}]
CleanupCalls == [at : {"idle", "listing", "looking", "unlinking", "over"},
                 todo : SUBSET Writes, file : Writes \cup {None}]

\* A call that has started has its key, and only a placed write a success.
Keyed ==
  /\ \A w \in Writes : /\ UnderWay(w) \/ write[w].result \in Succeeded => write[w].key \in Keys
                       /\ write[w].result = "none" \/ write[w].at \in {"syncing", "cleaning", "over"}
  /\ \A r \in Reads : read[r].at = "opening" => read[r].key \in Keys
  /\ \A d \in Deletes : delete[d].at = "unlinking" => delete[d].key \in Keys

TypeInv == TypeOK /\ Keyed

\* The state starts within its types.
LEMMA TypeInit == Init => TypeInv
<1>. SUFFICES ASSUME Init PROVE TypeInv
  OBVIOUS
<1>. PICK made \in Workloads :
       /\ write = [w \in Writes |-> [at |-> First(w, made), key |-> None, result |-> "none"]]
       /\ read = [r \in Reads |-> [at |-> First(r, made), key |-> None, file |-> None, result |-> "none"]]
       /\ delete = [d \in Deletes |-> [at |-> First(d, made), key |-> None]]
       /\ cleanup = [c \in Cleanups |-> [at |-> First(c, made), todo |-> {}, file |-> None]]
  BY DEF Init
<1>1. write \in [Writes -> Calls]
  BY DEF First, Calls, WriteStages
<1>2. read \in [Reads -> ReadCalls]
  BY DEF First, ReadCalls
<1>3. delete \in [Deletes -> DeleteCalls]
  BY DEF First, DeleteCalls
<1>4. cleanup \in [Cleanups -> CleanupCalls]
  BY DEF First, CleanupCalls
<1>5. TypeOK
  BY <1>1, <1>2, <1>3, <1>4, StoreAssumption DEF Init, TypeOK, Calls, ReadCalls, DeleteCalls, CleanupCalls
<1>6. Keyed
  BY DEF Keyed, First, UnderWay, Succeeded
<1>. QED BY <1>5, <1>6 DEF TypeInv

\* What a restart does to the calls.
LEMMA RestartType ==
  ASSUME TypeInv, Restart
  PROVE  /\ write' \in [Writes -> Calls] /\ read' \in [Reads -> ReadCalls]
         /\ delete' \in [Deletes -> DeleteCalls] /\ cleanup' \in [Cleanups -> CleanupCalls]
         /\ closing' = "open" /\ awaits' = {} /\ crashes' \in Nat
         /\ \A w \in Writes : /\ write'[w].key = write[w].key
                              /\ write'[w].at \in {"idle", "over"}
                              /\ \/ UnderWay(w) /\ write'[w].result = "lost" /\ write'[w].at = "over"
                                 \/ ~UnderWay(w) /\ write'[w] = write[w]
         /\ \A r \in Reads : read'[r].at \in {"idle", "over"}
         /\ \A d \in Deletes : delete'[d].at \in {"idle", "over"}
<1>. DEFINE Ended(w) == [write[w] EXCEPT !.at = "over", !.result = "lost"]
<1>1. /\ write \in [Writes -> Calls] /\ read \in [Reads -> ReadCalls]
      /\ delete \in [Deletes -> DeleteCalls] /\ cleanup \in [Cleanups -> CleanupCalls]
      /\ crashes \in Nat
  BY DEF TypeInv, TypeOK, Calls, ReadCalls, DeleteCalls, CleanupCalls
<1>2. write' = [w \in Writes |-> IF UnderWay(w) THEN Ended(w) ELSE write[w]]
  BY DEF Restart
<1>3. \A w \in Writes : /\ Ended(w) \in Calls /\ Ended(w).key = write[w].key
                        /\ Ended(w).at = "over" /\ Ended(w).result = "lost"
  BY <1>1 DEF Calls, WriteStages
<1>4. write' \in [Writes -> Calls]
  BY <1>1, <1>2, <1>3
<1>5. \A w \in Writes : /\ write'[w].key = write[w].key
                        /\ write'[w].at \in {"idle", "over"}
                        /\ \/ UnderWay(w) /\ write'[w].result = "lost" /\ write'[w].at = "over"
                           \/ ~UnderWay(w) /\ write'[w] = write[w]
  BY <1>2, <1>3 DEF UnderWay
<1>6. read' \in [Reads -> ReadCalls] /\ \A r \in Reads : read'[r].at \in {"idle", "over"}
  <2>1. read' = [r \in Reads |-> IF read[r].at = "idle" THEN read[r] ELSE [read[r] EXCEPT !.at = "over"]]
    BY DEF Restart
  <2>2. \A r \in Reads : [read[r] EXCEPT !.at = "over"] \in ReadCalls /\ [read[r] EXCEPT !.at = "over"].at = "over"
    BY <1>1 DEF ReadCalls
  <2>. QED BY <1>1, <2>1, <2>2
<1>7. delete' \in [Deletes -> DeleteCalls] /\ \A d \in Deletes : delete'[d].at \in {"idle", "over"}
  BY <1>1 DEF Restart, DeleteCalls
<1>8. cleanup' \in [Cleanups -> CleanupCalls]
  BY <1>1 DEF Restart, CleanupCalls
<1>9. crashes' = crashes + 1 /\ closing' = "open" /\ awaits' = {}
  BY DEF Restart
<1>. QED BY <1>1, <1>4, <1>5, <1>6, <1>7, <1>8, <1>9

\* A call of write() that moves, or ends, is still one.
LEMMA CallMoves ==
  ASSUME write \in [Writes -> Calls], NEW w \in Writes
  PROVE  /\ \A at \in WriteStages : At(w, at) => write' \in [Writes -> Calls]
         /\ \A result \in Succeeded \cup {"failed"} : Ends(w, result) => write' \in [Writes -> Calls]
         /\ \A at \in WriteStages, result \in Succeeded \cup {"failed"} :
              [write EXCEPT ![w].at = at, ![w].result = result] \in [Writes -> Calls]
<1>1. "cleaning" \in WriteStages
  BY DEF WriteStages
<1>2. ASSUME NEW at \in WriteStages PROVE [write EXCEPT ![w].at = at] \in [Writes -> Calls]
  <2>1. [write[w] EXCEPT !.at = at] \in Calls
    BY DEF Calls
  <2>. QED BY <2>1
<1>3. ASSUME NEW at \in WriteStages, NEW result \in Succeeded \cup {"failed"}
      PROVE  [write EXCEPT ![w].at = at, ![w].result = result] \in [Writes -> Calls]
  <2>1. [write[w] EXCEPT !.at = at, !.result = result] \in Calls
    BY DEF Calls
  <2>. QED BY <2>1
<1>4. ASSUME NEW at \in WriteStages, At(w, at) PROVE write' \in [Writes -> Calls]
  BY <1>2, <1>4 DEF At
<1>5. ASSUME NEW result \in Succeeded \cup {"failed"}, Ends(w, result) PROVE write' \in [Writes -> Calls]
  BY <1>1, <1>3, <1>5 DEF Ends
<1>. QED BY <1>3, <1>4, <1>5

\* Every step keeps the types.
LEMMA TypeStep == TypeInv /\ [Next]_vars => TypeOK'
<1>. SUFFICES ASSUME TypeInv, [Next]_vars PROVE TypeOK'
  OBVIOUS
<1>. USE DEF fileVars, callVars, historyVars
<1>a. /\ TypeOK
      /\ write \in [Writes -> Calls] /\ read \in [Reads -> ReadCalls]
      /\ delete \in [Deletes -> DeleteCalls] /\ cleanup \in [Cleanups -> CleanupCalls]
  BY DEF TypeInv, TypeOK, Calls, ReadCalls, DeleteCalls, CleanupCalls
<1>b. /\ \A at \in {"creating", "streaming", "flushing", "looking", "placing", "relooking", "syncing",
                    "cleaning", "over"} : at \in WriteStages
      /\ \A result \in {"stored", "deduplicated", "failed"} : result \in Succeeded \cup {"failed"}
  BY DEF WriteStages, Succeeded
<1>1. ASSUME NEW w \in Writes, Step(w) PROVE TypeOK'
  <2>1. write' \in [Writes -> Calls]
    <3>1. CASE CreateTemp(w)
      <4>1. CASE At(w, "streaming")
        BY <1>a, <1>b, <4>1, CallMoves
      <4>2. CASE write' = [write EXCEPT ![w].at = "over", ![w].result = "failed"]
        BY <1>a, <1>b, <4>2, CallMoves
      <4>. QED BY <3>1, <4>1, <4>2 DEF CreateTemp
    <3>2. CASE Stream(w)
      BY <1>a, <1>b, <3>2, CallMoves DEF Stream
    <3>3. CASE Flush(w)
      BY <1>a, <1>b, <3>3, CallMoves DEF Flush
    <3>4. CASE Look(w)
      BY <1>a, <1>b, <3>4, CallMoves DEF Look
    <3>5. CASE Place(w)
      <4>1. CASE At(w, "relooking") \/ Ends(w, "failed")
        BY <1>a, <1>b, <4>1, CallMoves
      <4>2. CASE write' = [write EXCEPT ![w].result = "stored",
                             ![w].at = IF mode.flush /\ mode.posix THEN "syncing" ELSE "cleaning"]
        BY <1>a, <1>b, <4>2 DEF Calls
      <4>. QED BY <3>5, <4>1, <4>2 DEF Place
    <3>6. CASE Relook(w)
      BY <1>a, <1>b, <3>6, CallMoves DEF Relook
    <3>7. CASE SyncDir(w)
      BY <1>a, <1>b, <3>7, CallMoves DEF SyncDir
    <3>8. CASE Clean(w)
      BY <1>a, <1>b, <3>8, CallMoves DEF Clean
    <3>. QED BY <1>1, <3>1, <3>2, <3>3, <3>4, <3>5, <3>6, <3>7, <3>8 DEF Step
  <2>2. CASE CreateTemp(w)
    BY <1>a, <2>1, <2>2 DEF TypeOK, Calls, CreateTemp
  <2>3. CASE Stream(w)
    BY <1>a, <2>1, <2>3 DEF TypeOK, Calls, Stream
  <2>4. CASE Flush(w)
    BY <1>a, <2>1, <2>4 DEF TypeOK, Calls, Flush
  <2>5. CASE Look(w)
    BY <1>a, <2>1, <2>5 DEF TypeOK, Calls, Look
  <2>6. CASE Place(w)
    BY <1>a, <2>1, <2>6 DEF TypeOK, Calls, Place
  <2>7. CASE Relook(w)
    BY <1>a, <2>1, <2>7 DEF TypeOK, Calls, Relook
  <2>8. CASE SyncDir(w)
    BY <1>a, <2>1, <2>8 DEF TypeOK, Calls, SyncDir
  <2>9. CASE Clean(w)
    BY <1>a, <2>1, <2>9 DEF TypeOK, Calls, Clean
  <2>. QED BY <1>1, <2>2, <2>3, <2>4, <2>5, <2>6, <2>7, <2>8, <2>9 DEF Step
<1>2. ASSUME NEW w \in Writes, NEW k \in Keys, StartWrite(w, k) PROVE TypeOK'
  <2>1. write' \in [Writes -> Calls]
    BY <1>a, <1>b, <1>2 DEF StartWrite, Calls
  <2>. QED BY <1>a, <1>2, <2>1 DEF TypeOK, Calls, StartWrite
<1>3. ASSUME NEW d \in Deletes, Unlink(d) PROVE TypeOK'
  <2>1. delete' \in [Deletes -> DeleteCalls]
    BY <1>a, <1>3 DEF Unlink, DeleteCalls
  <2>2. object' \in [Keys -> Writes \cup {None}] /\ survivor' \in [Keys -> SUBSET (Writes \cup {None})]
    BY <1>a, <1>3 DEF Unlink, TypeOK
  <2>3. gone' \subseteq Writes
    BY <1>a, <1>3 DEF Unlink, TypeOK
  <2>. QED BY <1>a, <1>3, <2>1, <2>2, <2>3 DEF TypeOK, DeleteCalls, Unlink
<1>4. ASSUME NEW d \in Deletes, NEW k \in Keys, StartDelete(d, k) PROVE TypeOK'
  <2>1. delete' \in [Deletes -> DeleteCalls]
    BY <1>a, <1>4 DEF StartDelete, DeleteCalls
  <2>. QED BY <1>a, <1>4, <2>1 DEF TypeOK, DeleteCalls, StartDelete
<1>5. ASSUME NEW r \in Reads, NEW k \in Keys, StartRead(r, k) PROVE TypeOK'
  <2>1. read' \in [Reads -> ReadCalls]
    BY <1>a, <1>5 DEF StartRead, ReadCalls
  <2>. QED BY <1>a, <1>5, <2>1 DEF TypeOK, ReadCalls, StartRead
<1>6. ASSUME NEW r \in Reads, Open(r) \/ Pull(r) PROVE TypeOK'
  <2>1. CASE Open(r)
    <3>1. object[read[r].key] \in Writes \cup {None}
      BY <1>a, <2>1 DEF Open, TypeInv, TypeOK, Keyed
    <3>2. read' \in [Reads -> ReadCalls]
      <4>1. read' = [read EXCEPT ![r].at = IF object[read[r].key] = None THEN "over" ELSE "streaming",
                                 ![r].file = object[read[r].key]]
        BY <2>1 DEF Open
      <4>2. [read[r] EXCEPT !.at = IF object[read[r].key] = None THEN "over" ELSE "streaming",
                            !.file = object[read[r].key]] \in ReadCalls
        BY <1>a, <3>1 DEF ReadCalls
      <4>3. read' = [read EXCEPT ![r] = [read[r] EXCEPT
                       !.at = IF object[read[r].key] = None THEN "over" ELSE "streaming",
                       !.file = object[read[r].key]]]
        BY <1>a, <4>1
      <4>. QED BY <1>a, <4>2, <4>3
    <3>. QED BY <1>a, <2>1, <3>2 DEF TypeOK, ReadCalls, Open
  <2>2. CASE Pull(r)
    <3>1. read' \in [Reads -> ReadCalls]
      <4>1. PICK result \in {"left", "whole", "corrupted", "closed"} :
              read' = [read EXCEPT ![r].at = "over", ![r].result = result]
        BY <2>2 DEF Pull
      <4>2. [read[r] EXCEPT !.at = "over", !.result = result] \in ReadCalls
        BY <1>a DEF ReadCalls
      <4>3. read' = [read EXCEPT ![r] = [read[r] EXCEPT !.at = "over", !.result = result]]
        BY <1>a, <4>1
      <4>. QED BY <1>a, <4>2, <4>3
    <3>. QED BY <1>a, <2>2, <3>1 DEF TypeOK, ReadCalls, Pull
  <2>. QED BY <1>6, <2>1, <2>2
<1>7. ASSUME NEW c \in Cleanups, StartCleanup(c) \/ Sweep(c) PROVE TypeOK'
  <2>1. temps \subseteq Writes /\ temps' \subseteq temps
    BY <1>a, <1>7 DEF TypeOK, StartCleanup, Sweep, List, LookAt, Remove
  <2>2. cleanup' \in [Cleanups -> CleanupCalls]
    <3>1. CASE StartCleanup(c)
      BY <1>a, <3>1 DEF StartCleanup, CleanupCalls
    <3>2. CASE List(c)
      BY <1>a, <2>1, <3>2 DEF List, CleanupCalls
    <3>3. CASE LookAt(c)
      <4>1. CASE cleanup[c].todo = {}
        BY <1>a, <3>3, <4>1 DEF LookAt, CleanupCalls
      <4>2. ASSUME NEW file \in cleanup[c].todo, NEW old \in BOOLEAN,
                   cleanup' = [cleanup EXCEPT ![c].todo = @ \ {file},
                                 ![c].file = IF old THEN file ELSE None,
                                 ![c].at = IF old /\ file \in temps THEN "unlinking" ELSE "looking"]
            PROVE  cleanup' \in [Cleanups -> CleanupCalls]
        <5>1. file \in Writes /\ cleanup[c].todo \ {file} \in SUBSET Writes
          BY <1>a DEF CleanupCalls
        <5>2. /\ (IF old THEN file ELSE None) \in Writes \cup {None}
              /\ (IF old /\ file \in temps THEN "unlinking" ELSE "looking") \in {"unlinking", "looking"}
          BY <5>1
        <5>3. cleanup' = [cleanup EXCEPT ![c] =
                            [cleanup[c] EXCEPT !.todo = @ \ {file}, !.file = IF old THEN file ELSE None,
                               !.at = IF old /\ file \in temps THEN "unlinking" ELSE "looking"]]
          BY <1>a, <4>2
        <5>4. [cleanup[c] EXCEPT !.todo = @ \ {file}, !.file = IF old THEN file ELSE None,
                 !.at = IF old /\ file \in temps THEN "unlinking" ELSE "looking"] \in CleanupCalls
          BY <1>a, <5>1, <5>2 DEF CleanupCalls
        <5>. QED BY <1>a, <5>3, <5>4
      <4>. QED BY <3>3, <4>1, <4>2 DEF LookAt
    <3>4. CASE Remove(c)
      BY <1>a, <3>4 DEF Remove, CleanupCalls
    <3>. QED BY <1>7, <3>1, <3>2, <3>3, <3>4 DEF Sweep
  <2>3. UNCHANGED <<mode, data, synced, object, survivor, write, read, delete, closing, awaits, historyVars>>
    BY <1>7 DEF StartCleanup, Sweep, List, LookAt, Remove
  <2>. QED BY <1>a, <2>1, <2>2, <2>3 DEF TypeOK, CleanupCalls
<1>8. CASE Close \/ Drained
  <2>1. awaits' \subseteq Writes \cup Cleanups /\ closing' \in {"open", "draining", "closed"}
    BY <1>a, <1>8 DEF TypeOK, Close, Drained, Inflight
  <2>2. UNCHANGED <<mode, fileVars, callVars, historyVars>>
    BY <1>8 DEF Close, Drained
  <2>. QED BY <1>a, <2>1, <2>2 DEF TypeOK
<1>9. CASE Kill
  <2>1. orphans' \subseteq Writes
    BY <1>a, <1>9 DEF Kill, TypeOK
  <2>. QED BY <1>a, <1>9, <2>1, RestartType DEF TypeOK, Kill, Calls, ReadCalls, DeleteCalls, CleanupCalls
<1>10. CASE LosePower
  <2>1. object' \in [Keys -> Writes \cup {None}] /\ survivor' \in [Keys -> SUBSET (Writes \cup {None})]
    <3>1. PICK now \in [Keys -> UNION {survivor[k] : k \in Keys}] :
            object' = now /\ survivor' = [k \in Keys |-> {now[k]}]
      BY <1>10 DEF LosePower
    <3>2. UNION {survivor[k] : k \in Keys} \subseteq Writes \cup {None}
      BY <1>a DEF TypeOK
    <3>3. now \in [Keys -> Writes \cup {None}]
      BY <3>2
    <3>. QED BY <3>1, <3>3
  <2>2. data' \in [Writes -> {"none", "short", "whole", "damaged"}]
    BY <1>10 DEF LosePower
  <2>3. temps' \subseteq Writes /\ orphans' \subseteq Writes /\ gone' \subseteq Writes
    BY <1>a, <1>10 DEF LosePower, TypeOK
  <2>4. Restart /\ power' = TRUE /\ UNCHANGED <<mode, synced, kept>>
    BY <1>10 DEF LosePower
  <2>. QED BY <1>a, <2>1, <2>2, <2>3, <2>4, RestartType DEF TypeOK, Calls, ReadCalls, DeleteCalls, CleanupCalls
<1>11. CASE UNCHANGED vars
  BY <1>a, <1>11 DEF TypeOK, vars
<1>. QED BY <1>1, <1>2, <1>3, <1>4, <1>5, <1>6, <1>7, <1>8, <1>9, <1>10, <1>11 DEF Next

\* Every step keeps the keys of the calls that go on.
LEMMA KeyedStep == TypeInv /\ [Next]_vars => Keyed'
<1>. SUFFICES ASSUME TypeInv, [Next]_vars PROVE Keyed'
  OBVIOUS
<1>. USE DEF fileVars, callVars, historyVars
<1>a. /\ Keyed
      /\ write \in [Writes -> Calls] /\ read \in [Reads -> ReadCalls] /\ delete \in [Deletes -> DeleteCalls]
  BY DEF TypeInv, TypeOK, Calls, ReadCalls, DeleteCalls
<1>1. ASSUME NEW w \in Writes, Step(w) PROVE Keyed'
  <2>1. CASE CreateTemp(w)
    BY <1>a, <2>1 DEF Keyed, Calls, UnderWay, Succeeded, CreateTemp, At
  <2>2. CASE Stream(w)
    BY <1>a, <2>2 DEF Keyed, Calls, UnderWay, Succeeded, Stream, At, Ends
  <2>3. CASE Flush(w)
    BY <1>a, <2>3 DEF Keyed, Calls, UnderWay, Succeeded, Flush, At, Ends
  <2>4. CASE Look(w)
    BY <1>a, <2>4 DEF Keyed, Calls, UnderWay, Succeeded, Look, At, Ends
  <2>5. CASE Place(w)
    BY <1>a, <2>5 DEF Keyed, Calls, UnderWay, Succeeded, Place, At, Ends
  <2>6. CASE Relook(w)
    BY <1>a, <2>6 DEF Keyed, Calls, UnderWay, Succeeded, Relook, Ends
  <2>7. CASE SyncDir(w)
    BY <1>a, <2>7 DEF Keyed, Calls, UnderWay, Succeeded, SyncDir, At
  <2>8. CASE Clean(w)
    BY <1>a, <2>8 DEF Keyed, Calls, UnderWay, Succeeded, Clean, At
  <2>. QED BY <1>1, <2>1, <2>2, <2>3, <2>4, <2>5, <2>6, <2>7, <2>8 DEF Step
<1>2. ASSUME NEW w \in Writes, NEW k \in Keys, StartWrite(w, k) PROVE Keyed'
  BY <1>a, <1>2 DEF Keyed, Calls, UnderWay, Succeeded, StartWrite
<1>3. ASSUME NEW d \in Deletes, Unlink(d) \/ \E k \in Keys : StartDelete(d, k) PROVE Keyed'
  BY <1>a, <1>3 DEF Keyed, DeleteCalls, UnderWay, Unlink, StartDelete
<1>4. ASSUME NEW r \in Reads, Open(r) \/ Pull(r) \/ \E k \in Keys : StartRead(r, k) PROVE Keyed'
  BY <1>a, <1>4 DEF Keyed, ReadCalls, UnderWay, Open, Pull, StartRead
<1>5. ASSUME NEW c \in Cleanups, StartCleanup(c) \/ Sweep(c) PROVE Keyed'
  BY <1>a, <1>5 DEF Keyed, UnderWay, StartCleanup, Sweep, List, LookAt, Remove
<1>6. CASE Close \/ Drained
  BY <1>a, <1>6 DEF Keyed, UnderWay, Close, Drained
<1>7. CASE Kill \/ LosePower
  <2>1. Restart
    BY <1>7 DEF Kill, LosePower
  <2>. QED BY <1>a, <2>1, RestartType DEF Keyed, UnderWay, Succeeded
<1>8. CASE UNCHANGED vars
  BY <1>a, <1>8 DEF Keyed, UnderWay, vars
<1>. QED BY <1>1, <1>2, <1>3, <1>4, <1>5, <1>6, <1>7, <1>8 DEF Next

\* Every variable keeps its type, through any number of crashes.
THEOREM TypeCorrect == Spec => []TypeInv
<1>1. TypeInv /\ [Next]_vars => TypeInv'
  BY TypeStep, KeyedStep DEF TypeInv
<1>. QED BY <1>1, TypeInit, PTL DEF Spec

-----------------------------------------------------------------------------
(* Objects are whole                                                        *)

\* The stages at which the file of a write may still change.
Raw == {"idle", "creating", "streaming", "flushing"}

\* A file that is complete, will stay so, and outlives what the mode promises.
Sound(f) ==
  /\ f \in Writes /\ write[f].at \notin Raw
  /\ data[f] = "whole" /\ (mode.flush => f \in synced)

\* Whatever may stand at the place of a key, now or after a loss of power,
\* may be read or is about to be placed, is sound.
WholeInv ==
  mode.flush \/ ~power =>
    /\ \A w \in Writes : /\ write[w].at = "flushing" => data[w] = "whole"
                         /\ write[w].at \in {"looking", "placing", "relooking"} => Sound(w)
    /\ \A k \in Keys : \A f \in survivor[k] \cup {object[k]} : f # None => Sound(f)
    /\ \A r \in Reads : read[r].at = "streaming" => Sound(read[r].file)

\* Short of a loss of power, a sound file stays sound.
LEMMA SoundStays ==
  ASSUME TypeInv, [Next]_vars, ~LosePower, NEW f, Sound(f) PROVE Sound(f)'
<1>. USE DEF Sound, fileVars, callVars, historyVars
<1>a. write \in [Writes -> Calls] /\ data \in [Writes -> {"none", "short", "whole", "damaged"}]
  BY DEF TypeInv, TypeOK, Calls
<1>1. ASSUME NEW w \in Writes, Step(w) PROVE Sound(f)'
  <2>1. CASE CreateTemp(w)
    BY <1>a, <2>1 DEF Raw, Calls, CreateTemp, At
  <2>2. CASE Stream(w)
    BY <1>a, <2>2 DEF Raw, Calls, Stream, At, Ends
  <2>3. CASE Flush(w)
    BY <1>a, <2>3 DEF Raw, Calls, Flush, At, Ends
  <2>4. CASE Look(w)
    BY <1>a, <2>4 DEF Raw, Calls, Look, At, Ends
  <2>5. CASE Place(w)
    BY <1>a, <2>5 DEF Raw, Calls, Place, At, Ends
  <2>6. CASE Relook(w)
    BY <1>a, <2>6 DEF Raw, Calls, Relook, Ends
  <2>7. CASE SyncDir(w)
    BY <1>a, <2>7 DEF Raw, Calls, SyncDir, At
  <2>8. CASE Clean(w)
    BY <1>a, <2>8 DEF Raw, Calls, Clean, At
  <2>. QED BY <1>1, <2>1, <2>2, <2>3, <2>4, <2>5, <2>6, <2>7, <2>8 DEF Step
<1>2. ASSUME NEW w \in Writes, NEW k \in Keys, StartWrite(w, k) PROVE Sound(f)'
  BY <1>a, <1>2 DEF StartWrite, Raw, Calls
<1>3. ASSUME NEW d \in Deletes, Unlink(d) \/ \E k \in Keys : StartDelete(d, k) PROVE Sound(f)'
  BY <1>3 DEF Unlink, StartDelete
<1>4. ASSUME NEW r \in Reads, Open(r) \/ Pull(r) \/ \E k \in Keys : StartRead(r, k) PROVE Sound(f)'
  BY <1>4 DEF Open, Pull, StartRead
<1>5. ASSUME NEW c \in Cleanups, StartCleanup(c) \/ Sweep(c) PROVE Sound(f)'
  BY <1>5 DEF StartCleanup, Sweep, List, LookAt, Remove
<1>6. CASE Close \/ Drained
  BY <1>6 DEF Close, Drained
<1>7. CASE Kill
  <2>1. write'[f].at \notin Raw
    BY <1>7, RestartType DEF Kill, Raw
  <2>. QED BY <1>7, <2>1 DEF Kill
<1>8. CASE UNCHANGED vars
  BY <1>8 DEF vars
<1>. QED BY <1>1, <1>2, <1>3, <1>4, <1>5, <1>6, <1>7, <1>8 DEF Next

\* Every step keeps all of them sound.
LEMMA WholeStep == TypeInv /\ WholeInv /\ [Next]_vars => WholeInv'
<1>. SUFFICES ASSUME TypeInv, WholeInv, [Next]_vars, (mode.flush \/ ~power)' PROVE WholeInv'
  BY DEF WholeInv
<1>. USE DEF fileVars, callVars, historyVars
<1>a. /\ write \in [Writes -> Calls] /\ read \in [Reads -> ReadCalls]
      /\ data \in [Writes -> {"none", "short", "whole", "damaged"}]
      /\ object \in [Keys -> Writes \cup {None}] /\ survivor \in [Keys -> SUBSET (Writes \cup {None})]
  BY DEF TypeInv, TypeOK, Calls, ReadCalls
<1>1. CASE LosePower
  <2>1. mode' = mode /\ mode.flush /\ synced' = synced /\ Restart
    BY <1>1 DEF LosePower
  <2>2. \A f : Sound(f) => Sound(f)'
    <3>1. \A w \in Writes : w \in synced => data'[w] = data[w]
      BY <1>1 DEF LosePower
    <3>2. \A w \in Writes : write[w].at \notin Raw => write'[w].at \notin Raw
      BY <2>1, RestartType DEF Raw
    <3>. QED BY <2>1, <3>1, <3>2 DEF Sound
  <2>3. \A k \in Keys : object'[k] \in survivor[k] /\ survivor'[k] = {object'[k]}
    BY <1>1 DEF LosePower
  <2>4. \A k \in Keys : \A f \in survivor'[k] \cup {object'[k]} : f # None => Sound(f)'
    BY <2>1, <2>2, <2>3 DEF WholeInv
  <2>. QED BY <2>1, <2>4, RestartType DEF WholeInv
<1>2. CASE ~LosePower
  <2>1. mode' = mode /\ power' = power
    <3>1. \A w \in Writes : Step(w) => mode' = mode /\ power' = power
      BY DEF Step, CreateTemp, Stream, Flush, Look, Place, Relook, SyncDir, Clean
    <3>2. \A c \in Cleanups : Sweep(c) => mode' = mode /\ power' = power
      BY DEF Sweep, List, LookAt, Remove
    <3>. QED
      BY <1>2, <3>1, <3>2 DEF Next, vars, StartWrite, Unlink, StartDelete, Open, Pull, StartRead, StartCleanup,
         Close, Drained, Kill
  <2>2. \A f : Sound(f) => Sound(f)'
    BY <1>2, SoundStays
  <2>3. /\ \A w \in Writes : /\ write[w].at = "flushing" => data[w] = "whole"
                             /\ write[w].at \in {"looking", "placing", "relooking"} => Sound(w)
        /\ \A k \in Keys : \A f \in survivor[k] \cup {object[k]} : f # None => Sound(f)
        /\ \A r \in Reads : read[r].at = "streaming" => Sound(read[r].file)
    BY <2>1 DEF WholeInv
  <2>. DEFINE Good(w) == /\ write[w].at = "flushing" => data[w] = "whole"
                         /\ write[w].at \in {"looking", "placing", "relooking"} => Sound(w)
  <2>4. ASSUME NEW w \in Writes PROVE Good(w)'
    <3>a. Good(w)
      BY <2>3
    <3>1. ASSUME NEW v \in Writes, Step(v) PROVE Good(w)'
      <4>1. CASE CreateTemp(v)
        BY <1>a, <2>2, <3>a, <4>1 DEF Calls, CreateTemp, At
      <4>2. CASE Stream(v)
        BY <1>a, <2>2, <3>a, <4>2 DEF Calls, Stream, At, Ends
      <4>3. CASE Flush(v)
        BY <1>a, <2>2, <3>a, <4>3 DEF Calls, Flush, At, Ends, Sound, Raw
      <4>4. CASE Look(v)
        BY <1>a, <2>2, <3>a, <4>4 DEF Calls, Look, At, Ends
      <4>5. CASE Place(v)
        BY <1>a, <2>2, <3>a, <4>5 DEF Calls, Place, At, Ends
      <4>6. CASE Relook(v)
        BY <1>a, <2>2, <3>a, <4>6 DEF Calls, Relook, Ends
      <4>7. CASE SyncDir(v)
        BY <1>a, <2>2, <3>a, <4>7 DEF Calls, SyncDir, At
      <4>8. CASE Clean(v)
        BY <1>a, <2>2, <3>a, <4>8 DEF Calls, Clean, At
      <4>. QED BY <3>1, <4>1, <4>2, <4>3, <4>4, <4>5, <4>6, <4>7, <4>8 DEF Step
    <3>2. ASSUME NEW v \in Writes, NEW k \in Keys, StartWrite(v, k) PROVE Good(w)'
      BY <1>a, <2>2, <3>a, <3>2 DEF StartWrite, Calls
    <3>3. CASE Kill
      BY <3>3, RestartType DEF Kill
    <3>4. CASE UNCHANGED <<write, data>>
      BY <2>2, <3>a, <3>4
    <3>. QED
      BY <1>2, <3>1, <3>2, <3>3, <3>4 DEF Next, vars, Unlink, StartDelete, Open, Pull, StartRead, StartCleanup,
         Sweep, List, LookAt, Remove, Close, Drained
  <2>. DEFINE Objects(k) == \A f \in survivor[k] \cup {object[k]} : f # None => Sound(f)
  <2>5. ASSUME NEW k \in Keys PROVE Objects(k)'
    <3>1. ASSUME NEW v \in Writes, Place(v) PROVE Objects(k)'
      <4>1. survivor'[k] \cup {object'[k]} \subseteq survivor[k] \cup {object[k], v}
        BY <1>a, <3>1 DEF Place
      <4>2. Sound(v)
        BY <2>3, <3>1 DEF Place
      <4>. QED BY <2>2, <2>3, <4>1, <4>2
    <3>2. ASSUME NEW v \in Writes, SyncDir(v) PROVE Objects(k)'
      <4>1. survivor'[k] \cup {object'[k]} \subseteq survivor[k] \cup {object[k]}
        BY <1>a, <3>2 DEF SyncDir
      <4>. QED BY <2>2, <2>3, <4>1
    <3>3. ASSUME NEW d \in Deletes, Unlink(d) PROVE Objects(k)'
      <4>1. survivor'[k] \cup {object'[k]} \subseteq survivor[k] \cup {object[k], None}
        BY <1>a, <3>3 DEF Unlink
      <4>. QED BY <2>2, <2>3, <4>1
    <3>4. CASE UNCHANGED <<object, survivor>>
      BY <2>2, <2>3, <3>4
    <3>. QED
      BY <1>2, <3>1, <3>2, <3>3, <3>4 DEF Next, vars, Step, CreateTemp, Stream, Flush, Look, Relook, Clean,
         StartWrite, StartDelete, Open, Pull, StartRead, StartCleanup, Sweep, List, LookAt, Remove,
         Close, Drained, Kill
  <2>. DEFINE Served(r) == read[r].at = "streaming" => Sound(read[r].file)
  <2>6. ASSUME NEW r \in Reads PROVE Served(r)'
    <3>1. ASSUME NEW q \in Reads, Open(q) PROVE Served(r)'
      <4>1. CASE r = q
        <5>. SUFFICES ASSUME read'[r].at = "streaming" PROVE Sound(read[r].file)'
          OBVIOUS
        <5>1. read[q].key \in Keys /\ object[read[q].key] # None /\ read'[q].file = object[read[q].key]
          BY <1>a, <3>1, <4>1 DEF Open, ReadCalls, TypeInv, Keyed
        <5>. QED BY <2>2, <2>3, <4>1, <5>1
      <4>2. CASE r # q
        BY <1>a, <2>2, <2>3, <3>1, <4>2 DEF Open, ReadCalls
      <4>. QED BY <4>1, <4>2
    <3>2. ASSUME NEW q \in Reads, Pull(q) \/ \E k \in Keys : StartRead(q, k) PROVE Served(r)'
      BY <1>a, <2>2, <2>3, <3>2 DEF Pull, StartRead, ReadCalls
    <3>3. CASE Kill
      BY <3>3, RestartType DEF Kill
    <3>4. CASE UNCHANGED read
      BY <2>2, <2>3, <3>4
    <3>. QED
      BY <1>2, <3>1, <3>2, <3>3, <3>4 DEF Next, vars, Step, CreateTemp, Stream, Flush, Look, Place, Relook, SyncDir,
         Clean, StartWrite, Unlink, StartDelete, StartCleanup, Sweep, List, LookAt, Remove, Close, Drained
  <2>. QED BY <2>4, <2>5, <2>6 DEF WholeInv
<1>. QED BY <1>1, <1>2

\* Whatever is interrupted, and whenever: what stands at the place of a key,
\* and what a reader has open, is whole.
THEOREM ObjectsStayWhole == Spec => []ObjectsAreWhole
<1>1. Init => WholeInv
  <2>1. ASSUME Init PROVE WholeInv
    <3>1. PICK made \in Workloads :
            /\ write = [w \in Writes |-> [at |-> First(w, made), key |-> None, result |-> "none"]]
            /\ read = [r \in Reads |-> [at |-> First(r, made), key |-> None, file |-> None, result |-> "none"]]
      BY <2>1 DEF Init
    <3>. QED BY <2>1, <3>1 DEF Init, First, WholeInv
  <2>. QED BY <2>1
<1>2. TypeInv /\ WholeInv => ObjectsAreWhole
  BY DEF WholeInv, ObjectsAreWhole, Sound
<1>. QED BY <1>1, <1>2, TypeCorrect, WholeStep, PTL DEF Spec
-----------------------------------------------------------------------------
(* Successes stand                                                          *)

\* The object of a success that nobody deleted stands, and survives a loss of
\* power if the entry was synced.
Stands(w) ==
  write[w].result \in Succeeded /\ w \notin gone =>
    /\ object[write[w].key] # None
    /\ w \in kept => None \notin survivor[write[w].key]

StandsInv == \A w \in Writes : /\ Stands(w)
                               /\ w \in kept => write[w].at \in {"cleaning", "over"}

\* Every step leaves the successes standing.
LEMMA StandsStep == TypeInv /\ StandsInv /\ [Next]_vars => StandsInv'
<1>. SUFFICES ASSUME TypeInv, StandsInv, [Next]_vars PROVE StandsInv'
  OBVIOUS
<1>. USE DEF fileVars, callVars, historyVars
<1>. DEFINE Good(v) == Stands(v) /\ (v \in kept => write[v].at \in {"cleaning", "over"})
<1>a. /\ write \in [Writes -> Calls]
      /\ object \in [Keys -> Writes \cup {None}] /\ survivor \in [Keys -> SUBSET (Writes \cup {None})]
      /\ None \notin Writes
  BY StoreAssumption DEF TypeInv, TypeOK, Calls
<1>b. \A v \in Writes : Good(v)
  BY DEF StandsInv
<1>c. \A v \in Writes : UnderWay(v) \/ write[v].result \in Succeeded => write[v].key \in Keys
  BY DEF TypeInv, Keyed
<1>d. \A v \in Writes : write[v].result = "none" \/ write[v].at \in {"syncing", "cleaning", "over"}
  BY DEF TypeInv, Keyed
<1>. SUFFICES ASSUME NEW v \in Writes PROVE Good(v)'
  BY DEF StandsInv
<1>1. ASSUME NEW w \in Writes, Step(w) PROVE Good(v)'
  <2>1. CASE CreateTemp(w)
    BY <1>a, <1>b, <1>c, <1>d, <2>1 DEF Stands, Calls, UnderWay, Succeeded, Found, CreateTemp, At
  <2>2. CASE Stream(w)
    BY <1>a, <1>b, <1>c, <1>d, <2>2 DEF Stands, Calls, UnderWay, Succeeded, Found, Stream, At, Ends
  <2>3. CASE Flush(w)
    BY <1>a, <1>b, <1>c, <1>d, <2>3 DEF Stands, Calls, UnderWay, Succeeded, Found, Flush, At, Ends
  <2>4. CASE Look(w)
    BY <1>a, <1>b, <1>c, <1>d, <2>4 DEF Stands, Calls, UnderWay, Succeeded, Found, Look, At, Ends
  <2>5. CASE Place(w)
    BY <1>a, <1>b, <1>c, <1>d, <2>5 DEF Stands, Calls, UnderWay, Succeeded, Found, Place, At, Ends
  <2>6. CASE Relook(w)
    BY <1>a, <1>b, <1>c, <1>d, <2>6 DEF Stands, Calls, UnderWay, Succeeded, Found, Relook, Ends
  <2>7. CASE SyncDir(w)
    BY <1>a, <1>b, <1>c, <1>d, <2>7 DEF Stands, Calls, UnderWay, Succeeded, Found, SyncDir, At
  <2>8. CASE Clean(w)
    BY <1>a, <1>b, <1>c, <1>d, <2>8 DEF Stands, Calls, UnderWay, Succeeded, Found, Clean, At
  <2>. QED BY <1>1, <2>1, <2>2, <2>3, <2>4, <2>5, <2>6, <2>7, <2>8 DEF Step
<1>2. ASSUME NEW w \in Writes, NEW k \in Keys, StartWrite(w, k) PROVE Good(v)'
  BY <1>a, <1>b, <1>d, <1>2 DEF Stands, Calls, Succeeded, StartWrite
<1>3. ASSUME NEW d \in Deletes, Unlink(d) PROVE Good(v)'
  BY <1>a, <1>b, <1>c, <1>3 DEF Stands, Succeeded, Unlink
<1>4. CASE Kill
  <2>1. \/ write'[v].result = "lost" /\ write'[v].at = "over"
        \/ write'[v] = write[v]
    BY <1>4, RestartType DEF Kill
  <2>. QED BY <1>b, <1>4, <2>1 DEF Stands, Succeeded, Kill
<1>5. CASE LosePower
  <2>1. \/ write'[v].result = "lost" /\ write'[v].at = "over"
        \/ write'[v] = write[v]
    BY <1>5, RestartType DEF LosePower
  <2>2. PICK now \in [Keys -> UNION {survivor[k] : k \in Keys}] :
          /\ \A k \in Keys : now[k] \in survivor[k]
          /\ object' = now /\ survivor' = [k \in Keys |-> {now[k]}]
          /\ gone' = gone \cup {w \in Writes \ kept : /\ write[w].result \in Succeeded
                                                       /\ now[write[w].key] = None}
    BY <1>5 DEF LosePower
  <2>3. kept' = kept
    BY <1>5 DEF LosePower
  <2>4. ASSUME write'[v] = write[v], write[v].result \in Succeeded, v \notin gone'
        PROVE  object'[write[v].key] # None /\ survivor'[write[v].key] = {object'[write[v].key]}
    BY <1>b, <1>c, <2>2, <2>4 DEF Stands
  <2>. QED BY <1>a, <1>b, <2>1, <2>3, <2>4 DEF Stands, Succeeded
<1>6. CASE UNCHANGED <<write, object, survivor, kept, gone>>
  BY <1>b, <1>6 DEF Stands
<1>. QED
  BY <1>1, <1>2, <1>3, <1>4, <1>5, <1>6 DEF Next, vars, StartDelete, Open, Pull, StartRead, StartCleanup,
     Sweep, List, LookAt, Remove, Close, Drained

\* A successful write is stored until somebody deletes it, whatever cleanup,
\* another writer or a crash does in between.
THEOREM SuccessesStand == Spec => []StoredUntilDeleted
<1>1. Init => StandsInv
  <2>1. ASSUME Init PROVE StandsInv
    <3>1. PICK made \in Workloads :
            write = [w \in Writes |-> [at |-> First(w, made), key |-> None, result |-> "none"]]
      BY <2>1 DEF Init
    <3>. QED BY <2>1, <3>1 DEF Init, Stands, StandsInv, Succeeded
  <2>. QED BY <2>1
<1>2. StandsInv => StoredUntilDeleted
  BY DEF StandsInv, Stands, StoredUntilDeleted
<1>. QED BY <1>1, <1>2, TypeCorrect, StandsStep, PTL DEF Spec

-----------------------------------------------------------------------------
(* Nothing is left behind                                                   *)

\* Temporary files have an owner, and close() knows of every call under way.
OwnedInv ==
  /\ \A w \in Writes : /\ w \in temps => UnderWay(w) \/ w \in orphans
                       /\ write[w].at \in {"idle", "creating"} => w \notin temps
  /\ closing = "draining" => Inflight \subseteq awaits
  /\ closing = "closed" => Inflight = {}

\* Once close() was called, no call starts.
LEMMA NothingStarts ==
  ASSUME TypeInv, [Next]_vars, closing # "open" PROVE Inflight' \subseteq Inflight
<1>. USE DEF fileVars, callVars, historyVars
<1>a. write \in [Writes -> Calls] /\ cleanup \in [Cleanups -> CleanupCalls]
  BY DEF TypeInv, TypeOK, Calls, CleanupCalls
<1>1. \A w \in Writes : UnderWay(w)' => UnderWay(w)
  <2>. SUFFICES ASSUME NEW v \in Writes PROVE UnderWay(v)' => UnderWay(v)
    OBVIOUS
  <2>1. ASSUME NEW w \in Writes, Step(w) PROVE UnderWay(v)' => UnderWay(v)
    BY <1>a, <2>1 DEF UnderWay, Calls, Step, CreateTemp, Stream, Flush, Look, Place, Relook, SyncDir, Clean, At, Ends
  <2>2. CASE Kill \/ LosePower
    BY <2>2, RestartType DEF Kill, LosePower, UnderWay
  <2>3. CASE UNCHANGED write
    BY <2>3 DEF UnderWay
  <2>. QED
    BY <2>1, <2>2, <2>3 DEF Next, vars, StartWrite, Unlink, StartDelete, Open, Pull, StartRead, StartCleanup,
       Sweep, List, LookAt, Remove, Close, Drained
<1>2. \A c \in Cleanups : cleanup'[c].at \notin {"idle", "over"} => cleanup[c].at \notin {"idle", "over"}
  <2>. SUFFICES ASSUME NEW b \in Cleanups
                PROVE  cleanup'[b].at \notin {"idle", "over"} => cleanup[b].at \notin {"idle", "over"}
    OBVIOUS
  <2>1. ASSUME NEW c \in Cleanups, Sweep(c)
        PROVE  cleanup'[b].at \notin {"idle", "over"} => cleanup[b].at \notin {"idle", "over"}
    BY <1>a, <2>1 DEF Sweep, List, LookAt, Remove, CleanupCalls
  <2>2. CASE Kill \/ LosePower
    <3>1. cleanup' = [c \in Cleanups |-> IF cleanup[c].at = "idle" THEN cleanup[c]
                                         ELSE [at |-> "over", todo |-> {}, file |-> None]]
      BY <2>2 DEF Kill, LosePower, Restart
    <3>. QED BY <3>1
  <2>3. CASE UNCHANGED cleanup
    BY <2>3
  <2>. QED
    BY <2>1, <2>2, <2>3 DEF Next, vars, Step, CreateTemp, Stream, Flush, Look, Place, Relook, SyncDir, Clean,
       StartWrite, Unlink, StartDelete, Open, Pull, StartRead, StartCleanup, Close, Drained
<1>. QED BY <1>1, <1>2 DEF Inflight

\* Every step leaves the temporary files with an owner.
LEMMA OwnedStep == TypeInv /\ OwnedInv /\ [Next]_vars => OwnedInv'
<1>. SUFFICES ASSUME TypeInv, OwnedInv, [Next]_vars PROVE OwnedInv'
  OBVIOUS
<1>. USE DEF fileVars, callVars, historyVars
<1>a. write \in [Writes -> Calls] /\ closing \in {"open", "draining", "closed"} /\ temps \subseteq Writes
  BY DEF TypeInv, TypeOK, Calls
<1>. DEFINE Owned(v) == /\ v \in temps => UnderWay(v) \/ v \in orphans
                        /\ write[v].at \in {"idle", "creating"} => v \notin temps
<1>b. \A v \in Writes : Owned(v)
  BY DEF OwnedInv
<1>1. \A v \in Writes : Owned(v)'
  <2>. SUFFICES ASSUME NEW v \in Writes PROVE Owned(v)'
    OBVIOUS
  <2>1. ASSUME NEW w \in Writes, Step(w) PROVE Owned(v)'
    <3>1. CASE CreateTemp(w)
      BY <1>a, <1>b, <3>1 DEF Calls, UnderWay, CreateTemp, At
    <3>2. CASE Stream(w)
      BY <1>a, <1>b, <3>2 DEF Calls, UnderWay, Stream, At, Ends
    <3>3. CASE Flush(w)
      BY <1>a, <1>b, <3>3 DEF Calls, UnderWay, Flush, At, Ends
    <3>4. CASE Look(w)
      BY <1>a, <1>b, <3>4 DEF Calls, UnderWay, Look, At, Ends
    <3>5. CASE Place(w)
      BY <1>a, <1>b, <3>5 DEF Calls, UnderWay, Place, At, Ends
    <3>6. CASE Relook(w)
      BY <1>a, <1>b, <3>6 DEF Calls, UnderWay, Relook, Ends
    <3>7. CASE SyncDir(w)
      BY <1>a, <1>b, <3>7 DEF Calls, UnderWay, SyncDir, At
    <3>8. CASE Clean(w)
      BY <1>a, <1>b, <3>8 DEF Calls, UnderWay, Clean, At
    <3>. QED BY <2>1, <3>1, <3>2, <3>3, <3>4, <3>5, <3>6, <3>7, <3>8 DEF Step
  <2>2. ASSUME NEW w \in Writes, NEW k \in Keys, StartWrite(w, k) PROVE Owned(v)'
    BY <1>a, <1>b, <2>2 DEF Calls, UnderWay, StartWrite
  <2>3. CASE Kill \/ LosePower
    <3>1. temps' \subseteq temps /\ temps' \subseteq orphans'
      BY <2>3 DEF Kill, LosePower
    <3>2. write'[v].at \in {"idle", "over"} /\ (write'[v].at = "idle" => write[v].at = "idle")
      BY <2>3, RestartType DEF Kill, LosePower
    <3>. QED BY <1>b, <3>1, <3>2
  <2>4. CASE temps' \subseteq temps /\ UNCHANGED <<write, orphans>>
    BY <1>b, <2>4 DEF UnderWay
  <2>. QED
    BY <2>1, <2>2, <2>3, <2>4 DEF Next, vars, Unlink, StartDelete, Open, Pull, StartRead, StartCleanup,
       Sweep, List, LookAt, Remove, Close, Drained
<1>2. (closing' = "draining" => Inflight' \subseteq awaits') /\ (closing' = "closed" => Inflight' = {})
  <2>1. CASE Kill \/ LosePower
    BY <2>1, RestartType DEF Kill, LosePower
  <2>2. CASE Close
    BY <2>2 DEF Close, Inflight, UnderWay
  <2>3. CASE Drained
    BY <2>3, NothingStarts DEF OwnedInv, Drained
  <2>4. CASE UNCHANGED <<closing, awaits>>
    BY <1>a, <2>4, NothingStarts DEF OwnedInv
  <2>. QED
    BY <2>1, <2>2, <2>3, <2>4 DEF Next, vars, Step, CreateTemp, Stream, Flush, Look, Place, Relook, SyncDir, Clean,
       StartWrite, Unlink, StartDelete, Open, Pull, StartRead, StartCleanup, Sweep, List, LookAt, Remove
<1>. QED BY <1>1, <1>2 DEF OwnedInv

\* A temporary file belongs to a write under way or to a process that is gone,
\* and a closed store has nothing under way.
THEOREM NothingStaysBehind == Spec => []NothingIsLeftBehind
<1>1. Init => OwnedInv
  BY DEF Init, OwnedInv
<1>2. TypeInv /\ OwnedInv => NothingIsLeftBehind
  BY DEF TypeInv, TypeOK, OwnedInv, NothingIsLeftBehind
<1>. QED BY <1>1, <1>2, TypeCorrect, OwnedStep, PTL DEF Spec
=============================================================================
