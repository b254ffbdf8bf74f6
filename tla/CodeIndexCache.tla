--------------------------- MODULE CodeIndexCache ---------------------------
(***************************************************************************)
(* How one repository's index is read into memory and how it goes stale.   *)
(*                                                                         *)
(* Three copies of the index exist in a serving process: the SQLite rows,  *)
(* the storage-level cache keyed by PRAGMA data_version (index-cache.ts),  *)
(* and the resident index in `codeIndexes` (index-tools/state.ts), which   *)
(* is answered without consulting the database.  getCodeIndex (registry.ts)*)
(* fills the last two through the load gate (load-gate.ts); index_file,    *)
(* index_folder and the index children change the rows and drop the        *)
(* copies.                                                                 *)
(*                                                                         *)
(* The index is its version: every commit makes a new one.                 *)
(***************************************************************************)
EXTENDS Naturals, Sequences, FiniteSets

CONSTANTS
    Callers,      \* concurrent getCodeIndex calls
    Limit,        \* CODESIFT_INDEX_LOAD_CONCURRENCY
    Writers,      \* concurrent indexing calls of this process
    MaxVersion    \* bound on the number of commits

ASSUME GateAssumption ==
    Limit \in Nat \ {0} /\ MaxVersion \in Nat \ {0} /\ IsFiniteSet(Callers)

\* A copy of the index: its version, the data_version it was read under, and,
\* for the properties only, whether its load raced a local writer: overlapped the
\* writer's commit, or its invalidation of the storage copy.
None == [there |-> FALSE, ver |-> 0, dv |-> 0, raced |-> FALSE]
Copy(v, d) == [there |-> TRUE, ver |-> v, dv |-> d, raced |-> FALSE]

VARIABLES
    rows,         \* version committed in the database
    dataVersion,  \* PRAGMA data_version as the shared connection sees it
    stored,       \* index-cache.ts: the storage-level copy, with its data_version
    resident,     \* state.ts codeIndexes: the copy every caller is answered from
    active,       \* load-gate.ts: loads counted as running
    waiting,      \* load-gate.ts: callers parked for a slot, oldest first
    call,         \* per caller: where it is and what it has read
    write,        \* per writer: where it is and the version it committed
    done          \* newest version whose writer has returned to its caller

vars == <<rows, dataVersion, stored, resident, active, waiting, call, write, done>>

\* A caller's record: `copy` is what it was given, `floor` the newest finished
\* write when it began.
Idle == [at |-> "idle", copy |-> None, floor |-> 0]
Begun(s, copy) == [at |-> s, copy |-> copy, floor |-> done]
\* A copy once its data_version no longer matters.
Plain(copy) == [copy EXCEPT !.dv = 0]

NoWrite == [at |-> "idle", ver |-> 0]

\* Holding (or about to give back) a slot: from active++ to active--.
Admitted == {"entered", "reading", "read", "loaded", "shared"}
\* A load in flight: from its look at the caches to the publication of its copy.
InFlight == {"reading", "read", "loaded", "released"}

Init ==
    /\ rows = 1 /\ dataVersion = 1 /\ done = 1
    /\ stored = None /\ resident = None
    /\ active = 0 /\ waiting = <<>>
    /\ call = [c \in Callers |-> Idle]
    /\ write = [w \in Writers |-> NoWrite]

\* codeIndexes.delete, and its mutant.
KeepResident == UNCHANGED resident
DropResident == resident' = None

\* invalidateIndexCache, and its mutant.
KeepStored == UNCHANGED stored
ForgetStored == stored' = None

-----------------------------------------------------------------------------
(* getCodeIndex *)

At(c, s) == call[c].at = s
Go(c, s) == call' = [call EXCEPT ![c].at = s]
Begin(c, s, copy) == call' = [call EXCEPT ![c] = Begun(s, copy)]
\* The next step of a call, with the copy it has by then.
GoWith(c, s, copy) == call' = [call EXCEPT ![c] =
                                 [at |-> s, copy |-> copy, floor |-> call[c].floor]]

\* A resident index is returned as it is: no look at the database.
AnswerResident(c) ==
    /\ At(c, "idle") /\ resident.there
    /\ Begin(c, "answered", resident)
    /\ UNCHANGED <<rows, dataVersion, stored, resident, active, waiting, write, done>>

\* A cold call takes a free slot, or is parked.  (An overloaded process refuses
\* it instead, which changes nothing.)
TakeSlot(c) ==
    /\ At(c, "idle") /\ ~resident.there /\ active < Limit
    /\ active' = active + 1
    /\ Begin(c, "entered", None)
    /\ UNCHANGED <<rows, dataVersion, stored, resident, waiting, write, done>>

Park(c) ==
    /\ At(c, "idle") /\ ~resident.there /\ active >= Limit
    /\ waiting' = Append(waiting, c)
    /\ Begin(c, "parked", None)
    /\ UNCHANGED <<rows, dataVersion, stored, resident, active, write, done>>

\* The continuation of a call whose promise was resolved: it counts itself in
\* without looking at the limit again.
Resume(c) ==
    /\ At(c, "woken")
    /\ active' = active + 1
    /\ Go(c, "entered")
    /\ UNCHANGED <<rows, dataVersion, stored, resident, waiting, write, done>>

\* Re-check under the slot: another call may have published meanwhile, and its
\* copy is returned without being published again.
Recheck(c) ==
    /\ At(c, "entered") /\ resident.there
    /\ GoWith(c, "shared", resident)
    /\ UNCHANGED <<rows, dataVersion, stored, resident, active, waiting, write, done>>

\* readIndex reads the data_version first, then either takes the storage copy of
\* that data_version or goes to the database.
HitStored(c) ==
    /\ At(c, "entered") /\ ~resident.there
    /\ stored.there /\ stored.dv = dataVersion
    /\ GoWith(c, "loaded", Plain(stored))
    /\ UNCHANGED <<rows, dataVersion, stored, resident, active, waiting, write, done>>

MissStored(c) ==
    /\ At(c, "entered") /\ ~resident.there
    /\ ~(stored.there /\ stored.dv = dataVersion)
    /\ GoWith(c, "reading", Copy(0, dataVersion))
    /\ UNCHANGED <<rows, dataVersion, stored, resident, active, waiting, write, done>>

\* The paged read opens its own snapshot: every page is of this one version.
ReadSnapshot(c) ==
    /\ At(c, "reading")
    /\ GoWith(c, "read", [call[c].copy EXCEPT !.ver = rows])
    /\ UNCHANGED <<rows, dataVersion, stored, resident, active, waiting, write, done>>

\* Mutant: the data_version is read again when the copy is cached.
CacheStoredLate(c) ==
    /\ At(c, "read")
    /\ stored' = [call[c].copy EXCEPT !.dv = dataVersion]
    /\ GoWith(c, "loaded", Plain(call[c].copy))
    /\ UNCHANGED <<rows, dataVersion, resident, active, waiting, write, done>>

\* The last page is in: cacheLoadedIndex, under the data_version read at the start.
CacheStored(c) ==
    /\ At(c, "read")
    /\ stored' = call[c].copy
    /\ GoWith(c, "loaded", Plain(call[c].copy))
    /\ UNCHANGED <<rows, dataVersion, resident, active, waiting, write, done>>

\* Mutants: the decrement is lost; the next parked call is not resolved.
GiveBackLeaks(c, next) ==
    /\ UNCHANGED active
    /\ IF waiting = <<>>
       THEN call' = [call EXCEPT ![c] = next] /\ UNCHANGED waiting
       ELSE /\ waiting' = Tail(waiting)
            /\ call' = [call EXCEPT ![c] = next, ![Head(waiting)].at = "woken"]

GiveBackSilent(c, next) ==
    /\ active' = active - 1
    /\ call' = [call EXCEPT ![c] = next]
    /\ UNCHANGED waiting

\* The slot goes back in `finally`, whether the load worked or threw, and the
\* oldest parked call is resolved.
GiveBack(c, next) ==
    /\ active' = active - 1
    /\ IF waiting = <<>>
       THEN call' = [call EXCEPT ![c] = next] /\ UNCHANGED waiting
       ELSE /\ waiting' = Tail(waiting)
            /\ call' = [call EXCEPT ![c] = next, ![Head(waiting)].at = "woken"]

\* Mutant: a load that throws keeps its slot.
LoadFailsLeaks(c) ==
    /\ call[c].at \in {"reading", "read", "loaded"}
    /\ call' = [call EXCEPT ![c] = Idle]
    /\ UNCHANGED <<rows, dataVersion, stored, resident, active, waiting, write, done>>

\* The load throws (a locked or corrupt store), finds no index, or finds one of
\* another extractor version: the caller gets null or an error, nothing is published.
LoadFails(c) ==
    /\ call[c].at \in {"reading", "read", "loaded"}
    /\ GiveBack(c, Idle)
    /\ UNCHANGED <<rows, dataVersion, stored, resident, write, done>>

Release(c) ==
    /\ call[c].at \in {"loaded", "shared"}
    /\ GiveBack(c, [call[c] EXCEPT !.at = IF At(c, "loaded") THEN "released" ELSE "answered"])
    /\ UNCHANGED <<rows, dataVersion, stored, resident, write, done>>

\* Back in getCodeIndex: rememberCodeIndex.  Nothing is compared with what
\* happened since the load began.
Publish(c) ==
    /\ At(c, "released")
    /\ resident' = call[c].copy
    /\ Go(c, "answered")
    /\ UNCHANGED <<rows, dataVersion, stored, active, waiting, write, done>>

\* The tool has used its answer; the caller may call again.
Finish(c) ==
    /\ At(c, "answered")
    /\ call' = [call EXCEPT ![c] = Idle]
    /\ UNCHANGED <<rows, dataVersion, stored, resident, active, waiting, write, done>>

-----------------------------------------------------------------------------
(* Eviction: rememberCodeIndex and cacheIndex of other repositories, and    *)
(* releaseCachedIndexes of an idle process.                                 *)

EvictResident ==
    /\ resident.there /\ DropResident
    /\ UNCHANGED <<rows, dataVersion, stored, active, waiting, call, write, done>>

EvictStored ==
    /\ stored.there /\ ForgetStored
    /\ UNCHANGED <<rows, dataVersion, resident, active, waiting, call, write, done>>

-----------------------------------------------------------------------------
(* Writers *)

\* History only: the loads in flight overlap this step of a local writer.
RaceLoads ==
    call' = [c \in Callers |->
               IF call[c].at \in InFlight
               THEN [call[c] EXCEPT !.copy.raced = TRUE] ELSE call[c]]

Raced(copy) == [copy EXCEPT !.raced = copy.there]

Step(w, from, to) == write[w].at = from /\ write' = [write EXCEPT ![w].at = to]

Commit == rows < MaxVersion /\ rows' = rows + 1

CommitBy(w, from, to) ==
    /\ write[w].at = from
    /\ write' = [write EXCEPT ![w] = [at |-> to, ver |-> rows + 1]]
    /\ Commit /\ RaceLoads

\* The tool call behind the write returns: from here on its caller may rely on it.
Return(w, from) ==
    /\ write[w].at = from
    /\ write' = [write EXCEPT ![w] = NoWrite]
    /\ done' = IF write[w].ver > done THEN write[w].ver ELSE done

\* index_file or the watcher: saveIncremental on the shared connection, whose own
\* commits do not move its data_version; the storage copy is dropped by name.
FileCommit(w) ==
    /\ CommitBy(w, "idle", "fileCommitted")
    /\ UNCHANGED <<dataVersion, stored, resident, active, waiting, done>>

FileForgetStored(w) ==
    /\ Step(w, "fileCommitted", "fileForgotten")
    /\ ForgetStored /\ RaceLoads
    /\ UNCHANGED <<rows, dataVersion, resident, active, waiting, done>>

\* After the secret scan, codeIndexes.delete; then the tool returns.
FileReturn(w) ==
    /\ Return(w, "fileForgotten")
    /\ DropResident
    /\ UNCHANGED <<rows, dataVersion, stored, active, waiting, call>>

\* indexFolder drops the resident index BEFORE the merge, the BM25 build and
\* saveIndex, and returns early when the merge rejects the walk.
FolderDrop(w) ==
    /\ Step(w, "idle", "folderDropped")
    /\ DropResident
    /\ UNCHANGED <<rows, dataVersion, stored, active, waiting, call, done>>

FolderReject(w) ==
    /\ Step(w, "folderDropped", "idle")
    /\ UNCHANGED <<rows, dataVersion, stored, resident, active, waiting, call, done>>

\* saveIndex: on the shared connection, or (native core) on one of its own.
FolderCommit(w) ==
    /\ CommitBy(w, "folderDropped", "folderCommitted")
    /\ dataVersion' \in {dataVersion, dataVersion + 1}
    /\ resident' = Raced(resident)
    /\ UNCHANGED <<stored, active, waiting, done>>

\* invalidateIndexCache, and no second drop of the resident index.
FolderReturn(w) ==
    /\ Return(w, "folderCommitted")
    /\ ForgetStored /\ resident' = Raced(resident) /\ RaceLoads
    /\ UNCHANGED <<rows, dataVersion, active, waiting>>

\* An index child is another process: another connection.
ChildCommit(w) ==
    /\ CommitBy(w, "idle", "childCommitted")
    /\ dataVersion' = dataVersion + 1
    /\ UNCHANGED <<stored, resident, active, waiting, done>>

\* adoptChildIndex on success, dropResidentCaches in the catch when the child
\* died after its commit: the same drop.  Only then does the tool return.
ChildAdopt(w) ==
    /\ Return(w, "childCommitted")
    /\ DropResident
    /\ UNCHANGED <<rows, dataVersion, stored, active, waiting, call>>

\* A writer this process is never told of: the CLI hook, another daemon.
OutsideCommit ==
    /\ Commit
    /\ dataVersion' = dataVersion + 1
    /\ UNCHANGED <<stored, resident, active, waiting, call, write, done>>

-----------------------------------------------------------------------------

\* Steps the event loop runs by itself once a call is admitted or woken.
Serve(c) ==
    \/ Resume(c) \/ Recheck(c) \/ HitStored(c) \/ MissStored(c)
    \/ ReadSnapshot(c) \/ CacheStored(c) \/ Release(c) \/ Publish(c)

Next ==
    \/ \E c \in Callers :
         \/ AnswerResident(c) \/ TakeSlot(c) \/ Park(c)
         \/ Serve(c) \/ LoadFails(c) \/ Finish(c)
    \/ EvictResident \/ EvictStored \/ OutsideCommit
    \/ \E w \in Writers :
         \/ FileCommit(w) \/ FileForgetStored(w) \/ FileReturn(w)
         \/ FolderDrop(w) \/ FolderReject(w) \/ FolderCommit(w) \/ FolderReturn(w)
         \/ ChildCommit(w) \/ ChildAdopt(w)

\* The event loop runs every continuation that is ready; callers and writers
\* come and go as they please.
Fairness == \A c \in Callers : WF_vars(Serve(c))

Spec == Init /\ [][Next]_vars /\ Fairness

-----------------------------------------------------------------------------
(* Invariants *)

TypeOK ==
    /\ rows \in 1 .. MaxVersion /\ dataVersion \in 1 .. rows /\ done \in 1 .. rows
    /\ {stored.ver, resident.ver} \subseteq 0 .. rows
    /\ active \in 0 .. Cardinality(Callers)
    /\ waiting \in Seq(Callers)
    /\ \A c \in Callers : call[c].at \in Admitted \cup
            {"idle", "parked", "woken", "released", "answered"}

\* A resident index whose load overlapped no local commit contains every write
\* that has returned (index_file, index_folder, an adopted index child).
CleanResidentIsCurrent ==
    resident.there /\ ~resident.raced => resident.ver >= done

\* Reading PRAGMA data_version BEFORE the rows makes the storage copy safe: one
\* that still matches is the committed index, if its load raced no local writer,
\* and but for the instant between a commit on the shared connection and
\* invalidateIndexCache.  Not meant is a copy whose load did race one: with its
\* snapshot before the commit and its cacheLoadedIndex after the invalidation it
\* is old and matches, as own commits do not move data_version (index-store.ts
\* :386-392), until another process commits or the copy is dropped again.
StoredMatchesRows ==
    stored.there /\ ~stored.raced /\ stored.dv = dataVersion =>
        \/ stored.ver = rows
        \/ \E w \in Writers : write[w].at \in {"fileCommitted", "folderCommitted"}

\* A call that raced no local commit is given every write that had returned
\* before it began, through whichever of the three copies it was answered.
CleanAnswerReadsWrites ==
    \A c \in Callers :
        At(c, "answered") /\ ~call[c].copy.raced => call[c].copy.ver >= call[c].floor

\* The gate neither leaks a slot (a load that throws gives it back) nor loses a
\* wake-up: while a call is parked somebody is going to release.
SlotsAccounted ==
    /\ active = Cardinality({c \in Callers : call[c].at \in Admitted})
    /\ waiting # <<>> => \E c \in Callers : call[c].at \in Admitted \cup {"woken"}

=============================================================================
