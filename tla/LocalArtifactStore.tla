-------------------------- MODULE LocalArtifactStore --------------------------
(***************************************************************************)
(* The content-addressed byte store of artifact-store-local/local-store.ts *)
(* over a file system that may lose what was not synced: writes through a  *)
(* temporary file, deletions, read streams, cleanup and close(), each cut  *)
(* at its awaits, with the process killed or the power lost in between.    *)
(*                                                                         *)
(* A file is named after the write that created it, a content after its    *)
(* digest.  Temporary names are 128 random bits and taken as unique; a     *)
(* file that is to be unlinked is unlinked.                                *)
(***************************************************************************)
EXTENDS Naturals, FiniteSets

CONSTANTS
  Keys,       \* content keys
  Writes, Reads, Deletes, Cleanups,  \* calls
  Modes,      \* bound: the durability modes and platforms to look at
  Workloads,  \* bound: the sets of calls to look at together
  MaxCrashes, \* bound
  None

ASSUME StoreAssumption ==
  /\ None \notin Writes
  /\ Modes \subseteq [flush : BOOLEAN, posix : BOOLEAN]
  /\ MaxCrashes \in Nat

VARIABLES
  mode,     \* durability, and whether directories can be synced
  write,    \* calls of write(): the await they stand at, key, outcome
  data,     \* what the file of a write holds
  synced,   \* files that were synced
  temps,    \* files that have a temporary name
  object,   \* the file at the place of each key
  survivor, \* what the place of a key may hold after a loss of power
  read, delete, cleanup,
  closing,  \* close(): open, draining, closed
  awaits,   \* calls close() waits for
  crashes,
  power,    \* history: power was lost
  orphans,  \* history: files whose process is gone
  kept,     \* history: writes whose directory entry was synced
  gone      \* history: successful writes whose object was deleted since

fileVars == <<data, synced, temps, object, survivor>>
callVars == <<write, read, delete, cleanup>>
historyVars == <<crashes, power, orphans, kept, gone>>
vars == <<mode, fileVars, callVars, closing, awaits, historyVars>>

Succeeded == {"stored", "deduplicated"}
WriteStages == {"idle", "creating", "streaming", "flushing", "looking", "placing",
                "relooking", "syncing", "cleaning", "over"}

\* A call that is not made is over from the start.
First(call, made) == IF call \in made THEN "idle" ELSE "over"

Init ==
  /\ mode \in Modes
  /\ \E made \in Workloads :
       /\ write = [w \in Writes |-> [at |-> First(w, made), key |-> None, result |-> "none"]]
       /\ read = [r \in Reads |-> [at |-> First(r, made), key |-> None, file |-> None, result |-> "none"]]
       /\ delete = [d \in Deletes |-> [at |-> First(d, made), key |-> None]]
       /\ cleanup = [c \in Cleanups |-> [at |-> First(c, made), todo |-> {}, file |-> None]]
  /\ data = [w \in Writes |-> "none"] /\ synced = {} /\ temps = {}
  /\ object = [k \in Keys |-> None] /\ survivor = [k \in Keys |-> {None}]
  /\ closing = "open" /\ awaits = {}
  /\ crashes = 0 /\ power = FALSE /\ orphans = {} /\ kept = {} /\ gone = {}

UnderWay(w) == write[w].at \notin {"idle", "over"}

\* the promises of #inflight: writes and cleanups, not reads and deletions
Inflight == {w \in Writes : UnderWay(w)} \cup {c \in Cleanups : cleanup[c].at \notin {"idle", "over"}}

At(w, stage) == write' = [write EXCEPT ![w].at = stage]
\* The call has its outcome; the finally block is still to run.
Ends(w, result) == write' = [write EXCEPT ![w].at = "cleaning", ![w].result = result]

-----------------------------------------------------------------------------
(* write()                                                                 *)

StartWrite(w, k) ==
  /\ closing = "open" /\ write[w].at = "idle"
  /\ write' = [write EXCEPT ![w].at = "creating", ![w].key = k]
  /\ UNCHANGED <<mode, fileVars, read, delete, cleanup, closing, awaits, historyVars>>

\* #createTempFile: exclusive creation, or a failure that leaves nothing
CreateTemp(w) ==
  /\ write[w].at = "creating"
  /\ \/ At(w, "streaming") /\ temps' = temps \cup {w} /\ data' = [data EXCEPT ![w] = "short"]
     \/ /\ write' = [write EXCEPT ![w].at = "over", ![w].result = "failed"]
        /\ UNCHANGED <<temps, data>>
  /\ UNCHANGED <<mode, synced, object, survivor, read, delete, cleanup, closing, awaits, historyVars>>

\* The source ends, or it fails, exceeds the limit or cannot be written.
Stream(w) ==
  /\ write[w].at = "streaming"
  /\ \/ At(w, "flushing") /\ data' = [data EXCEPT ![w] = "whole"]
     \/ Ends(w, "failed") /\ UNCHANGED data
  /\ UNCHANGED <<mode, synced, temps, object, survivor, read, delete, cleanup, closing, awaits, historyVars>>

\* Mutated form of Flush: the file is closed without being synced.
FlushNothing(w) ==
  /\ write[w].at = "flushing"
  /\ At(w, "looking") \/ Ends(w, "failed")
  /\ UNCHANGED <<mode, fileVars, read, delete, cleanup, closing, awaits, historyVars>>

\* Sync and close, then the expectations of size and digest: any may fail.
Flush(w) ==
  /\ write[w].at = "flushing"
  /\ \/ At(w, "looking") /\ synced' = IF mode.flush THEN synced \cup {w} ELSE synced
     \/ Ends(w, "failed") /\ UNCHANGED synced
  /\ UNCHANGED <<mode, data, temps, object, survivor, read, delete, cleanup, closing, awaits, historyVars>>

\* #statObject compares the size only.
Found(k) == object[k] # None /\ data[object[k]] # "short"

Look(w) ==
  /\ write[w].at = "looking"
  /\ \/ /\ Found(write[w].key)
        /\ Ends(w, "deduplicated")
     \/ /\ object[write[w].key] = None
        /\ At(w, "placing")
     \/ Ends(w, "failed")
  /\ UNCHANGED <<mode, fileVars, read, delete, cleanup, closing, awaits, historyVars>>

\* #ensureSafeParent and rename, which fails for a file that was cleaned up.
\* Windows may refuse to replace a file.
Place(w) ==
  LET k == write[w].key
  IN /\ write[w].at = "placing"
     /\ \/ /\ w \in temps
           /\ temps' = temps \ {w}
           /\ object' = [object EXCEPT ![k] = w]
           /\ survivor' = [survivor EXCEPT ![k] = @ \cup {w}]
           /\ write' = [write EXCEPT ![w].result = "stored",
                          ![w].at = IF mode.flush /\ mode.posix THEN "syncing" ELSE "cleaning"]
        \/ /\ ~mode.posix /\ object[k] # None /\ At(w, "relooking")
           /\ UNCHANGED <<temps, object, survivor>>
        \/ Ends(w, "failed") /\ UNCHANGED <<temps, object, survivor>>
     /\ UNCHANGED <<mode, data, synced, read, delete, cleanup, closing, awaits, historyVars>>

\* Mutated form of Relook: the refusal itself is taken for a duplicate.
RelookNot(w) ==
  /\ write[w].at = "relooking"
  /\ Ends(w, "deduplicated")
  /\ UNCHANGED <<mode, fileVars, read, delete, cleanup, closing, awaits, historyVars>>

Relook(w) ==
  /\ write[w].at = "relooking"
  /\ \/ /\ Found(write[w].key)
        /\ Ends(w, "deduplicated")
     \/ Ends(w, "failed")
  /\ UNCHANGED <<mode, fileVars, read, delete, cleanup, closing, awaits, historyVars>>

\* The sync of the directory is best effort.
SyncDir(w) ==
  LET k == write[w].key
  IN /\ write[w].at = "syncing" /\ At(w, "cleaning")
     /\ \/ /\ survivor' = [survivor EXCEPT ![k] = {object[k]}]
           /\ kept' = kept \cup {w}
        \/ UNCHANGED <<survivor, kept>>
     /\ UNCHANGED <<mode, data, synced, temps, object, read, delete, cleanup, closing, awaits,
                    crashes, power, orphans, gone>>

\* Mutated form of Clean: only a failed write removes its temporary file.
CleanFailed(w) ==
  /\ write[w].at = "cleaning" /\ At(w, "over")
  /\ temps' = IF write[w].result = "failed" THEN temps \ {w} ELSE temps
  /\ UNCHANGED <<mode, data, synced, object, survivor, read, delete, cleanup, closing, awaits, historyVars>>

Clean(w) ==
  /\ write[w].at = "cleaning" /\ At(w, "over")
  /\ temps' = temps \ {w}
  /\ UNCHANGED <<mode, data, synced, object, survivor, read, delete, cleanup, closing, awaits, historyVars>>

-----------------------------------------------------------------------------
(* delete()                                                                *)

StartDelete(d, k) ==
  /\ closing = "open" /\ delete[d].at = "idle"
  /\ delete' = [delete EXCEPT ![d] = [at |-> "unlinking", key |-> k]]
  /\ UNCHANGED <<mode, fileVars, write, read, cleanup, closing, awaits, historyVars>>

Unlink(d) ==
  LET k == delete[d].key
  IN /\ delete[d].at = "unlinking"
     /\ delete' = [delete EXCEPT ![d].at = "over"]
     /\ object' = [object EXCEPT ![k] = None]
     /\ survivor' = [survivor EXCEPT ![k] = @ \cup {None}]
     /\ gone' = gone \cup {w \in Writes : write[w].key = k /\ write[w].result \in Succeeded}
     /\ UNCHANGED <<mode, data, synced, temps, write, read, cleanup, closing, awaits,
                    crashes, power, orphans, kept>>

-----------------------------------------------------------------------------
(* openRead() and the stream it returns, verified                          *)

StartRead(r, k) ==
  /\ closing = "open" /\ read[r].at = "idle"
  /\ read' = [read EXCEPT ![r].at = "opening", ![r].key = k]
  /\ UNCHANGED <<mode, fileVars, write, delete, cleanup, closing, awaits, historyVars>>

Open(r) ==
  LET file == object[read[r].key]
  IN /\ read[r].at = "opening"
     /\ read' = [read EXCEPT ![r].at = IF file = None THEN "over" ELSE "streaming", ![r].file = file]
     /\ UNCHANGED <<mode, fileVars, write, delete, cleanup, closing, awaits, historyVars>>

\* The consumer pulls to the end, which a closed store refuses, or leaves.
Pull(r) ==
  /\ read[r].at = "streaming"
  /\ \E result \in IF closing # "open" THEN {"closed"}
                    ELSE {"left", IF data[read[r].file] = "whole" THEN "whole" ELSE "corrupted"} :
       read' = [read EXCEPT ![r].at = "over", ![r].result = result]
  /\ UNCHANGED <<mode, fileVars, write, delete, cleanup, closing, awaits, historyVars>>

-----------------------------------------------------------------------------
(* cleanupTemporaryFiles()                                                 *)

StartCleanup(c) ==
  /\ closing = "open" /\ cleanup[c].at = "idle"
  /\ cleanup' = [cleanup EXCEPT ![c].at = "listing"]
  /\ UNCHANGED <<mode, fileVars, write, read, delete, closing, awaits, historyVars>>

List(c) ==
  /\ cleanup[c].at = "listing"
  /\ cleanup' = [cleanup EXCEPT ![c].at = "looking", ![c].todo = temps]
  /\ UNCHANGED <<mode, fileVars, write, read, delete, closing, awaits, historyVars>>

\* stat of the next file: it is old enough, and will be unlinked, or it is left
LookAt(c) ==
  /\ cleanup[c].at = "looking"
  /\ IF cleanup[c].todo = {} THEN cleanup' = [cleanup EXCEPT ![c].at = "over"]
     ELSE \E file \in cleanup[c].todo, old \in BOOLEAN :
            cleanup' = [cleanup EXCEPT ![c].todo = @ \ {file},
                          ![c].file = IF old THEN file ELSE None,
                          ![c].at = IF old /\ file \in temps THEN "unlinking" ELSE "looking"]
  /\ UNCHANGED <<mode, fileVars, write, read, delete, closing, awaits, historyVars>>

Remove(c) ==
  /\ cleanup[c].at = "unlinking"
  /\ cleanup' = [cleanup EXCEPT ![c].at = "looking", ![c].file = None]
  /\ temps' = temps \ {cleanup[c].file}
  /\ UNCHANGED <<mode, data, synced, object, survivor, write, read, delete, closing, awaits, historyVars>>

-----------------------------------------------------------------------------
(* close(), and the end of the process                                     *)

Close ==
  /\ closing = "open" /\ closing' = "draining" /\ awaits' = Inflight
  /\ UNCHANGED <<mode, fileVars, callVars, historyVars>>

\* Mutated form of Drained: close() waits for the readers, too.
DrainedByReaders ==
  /\ closing = "draining" /\ awaits \cap Inflight = {}
  /\ \A r \in Reads : read[r].at \in {"idle", "over"}
  /\ closing' = "closed" /\ awaits' = {}
  /\ UNCHANGED <<mode, fileVars, callVars, historyVars>>

Drained ==
  /\ closing = "draining" /\ awaits \cap Inflight = {}
  /\ closing' = "closed" /\ awaits' = {}
  /\ UNCHANGED <<mode, fileVars, callVars, historyVars>>

\* The process ends at any point; the next one opens the same directory.
Restart ==
  /\ crashes < MaxCrashes /\ crashes' = crashes + 1
  /\ write' = [w \in Writes |-> IF UnderWay(w) THEN [write[w] EXCEPT !.at = "over", !.result = "lost"]
                                ELSE write[w]]
  /\ read' = [r \in Reads |-> IF read[r].at = "idle" THEN read[r] ELSE [read[r] EXCEPT !.at = "over"]]
  /\ delete' = [d \in Deletes |-> IF delete[d].at = "idle" THEN delete[d] ELSE [delete[d] EXCEPT !.at = "over"]]
  /\ cleanup' = [c \in Cleanups |-> IF cleanup[c].at = "idle" THEN cleanup[c]
                                    ELSE [at |-> "over", todo |-> {}, file |-> None]]
  /\ closing' = "open" /\ awaits' = {}

Kill ==
  /\ Restart
  /\ orphans' = orphans \cup temps
  /\ UNCHANGED <<mode, fileVars, power, kept, gone>>

\* What was not synced may be older than it seemed, or damaged.  A success
\* that is lost although its directory entry was synced counts as kept.
LosePower ==
  /\ Restart /\ power' = TRUE
  /\ \E now \in [Keys -> UNION {survivor[k] : k \in Keys}] :
       /\ \A k \in Keys : now[k] \in survivor[k]
       /\ object' = now /\ survivor' = [k \in Keys |-> {now[k]}]
       /\ gone' = gone \cup {w \in Writes \ kept : /\ write[w].result \in Succeeded
                                                   /\ now[write[w].key] = None}
  /\ \E contents \in [Writes -> {"none", "short", "whole", "damaged"}] :
       /\ \A w \in Writes : data[w] = "none" \/ w \in synced => contents[w] = data[w]
       /\ \A w \in Writes : data[w] # "none" => contents[w] # "none"
       /\ data' = contents
  /\ temps' \in SUBSET temps /\ orphans' = orphans \cup temps'
  /\ UNCHANGED <<mode, synced, kept>>

-----------------------------------------------------------------------------
Step(w) ==
  \/ CreateTemp(w) \/ Stream(w) \/ Flush(w) \/ Look(w) \/ Place(w) \/ Relook(w)
  \/ SyncDir(w) \/ Clean(w)

Sweep(c) == List(c) \/ LookAt(c) \/ Remove(c)

Next ==
  \/ \E w \in Writes : Step(w) \/ \E k \in Keys : StartWrite(w, k)
  \/ \E d \in Deletes : Unlink(d) \/ \E k \in Keys : StartDelete(d, k)
  \/ \E r \in Reads : Open(r) \/ Pull(r) \/ \E k \in Keys : StartRead(r, k)
  \/ \E c \in Cleanups : StartCleanup(c) \/ Sweep(c)
  \/ Close \/ Drained
  \/ Kill \/ LosePower

\* Sources end and the file system answers; consumers may stop pulling.
Fairness ==
  /\ \A w \in Writes : WF_vars(Step(w))
  /\ \A c \in Cleanups : WF_vars(Sweep(c))
  /\ WF_vars(Drained)

Spec == Init /\ [][Next]_vars /\ Fairness

-----------------------------------------------------------------------------
(* Properties                                                              *)

\* Every variable keeps its type.
TypeOK ==
  /\ mode \in Modes
  /\ write \in [Writes -> [at : WriteStages, key : Keys \cup {None},
                           result : Succeeded \cup {"none", "failed", "lost"}]]
  /\ data \in [Writes -> {"none", "short", "whole", "damaged"}]
  /\ synced \subseteq Writes /\ temps \subseteq Writes
  /\ object \in [Keys -> Writes \cup {None}]
  /\ survivor \in [Keys -> SUBSET (Writes \cup {None})]
  /\ read \in [Reads -> [at : {"idle", "opening", "streaming", "over"}, key : Keys \cup {None},
                         file : Writes \cup {None}, result : {"none", "whole", "corrupted", "closed", "left"}]]
  /\ delete \in [Deletes -> [at : {"idle", "unlinking", "over"}, key : Keys \cup {None}]]
  /\ cleanup \in [Cleanups -> [at : {"idle", "listing", "looking", "unlinking", "over"},
                               todo : SUBSET Writes, file : Writes \cup {None}]]
  /\ closing \in {"open", "draining", "closed"} /\ awaits \subseteq Writes \cup Cleanups
  /\ crashes \in Nat /\ power \in BOOLEAN
  /\ orphans \subseteq Writes /\ kept \subseteq Writes /\ gone \subseteq Writes

\* Whatever is interrupted, and whenever: what stands at the place of a key,
\* and what a reader has open, is whole.  Only a store that does not sync may
\* be left with something else, by a loss of power.
ObjectsAreWhole ==
  mode.flush \/ ~power =>
    /\ \A k \in Keys : object[k] # None => data[object[k]] = "whole"
    /\ \A r \in Reads : read[r].at = "streaming" => data[read[r].file] = "whole"

\* The object of a successful write is there until somebody deletes it, also
\* when cleanup, another writer or a crash comes in between; a loss of power
\* may take it only if its directory entry was not synced by this write.
StoredUntilDeleted ==
  \A w \in Writes : write[w].result \in Succeeded /\ w \notin gone => object[write[w].key] # None

\* A temporary file belongs to a write under way or to a process that is gone,
\* and after close() has returned nothing writes to the store.
NothingIsLeftBehind ==
  /\ \A w \in temps : UnderWay(w) \/ w \in orphans
  /\ closing = "closed" => Inflight = {}

\* close() returns unless the process ends first, whatever the readers do.
CloseReturns == closing = "draining" ~> closing # "draining"
=============================================================================
