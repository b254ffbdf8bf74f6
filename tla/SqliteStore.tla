---------------------------- MODULE SqliteStore ----------------------------
(***************************************************************************)
(* The database of one repository (storage/sqlite/, behind                 *)
(* storage/index-store.ts).  All calls of a process share one connection   *)
(* and so one transaction at a time; a whole-index write gives the event   *)
(* loop a turn every so many rows, with its transaction open.  A process   *)
(* with the native core writes whole indexes on a connection of its own.   *)
(* Whole-index reads use a private connection.                             *)
(*                                                                         *)
(* SQLite itself is what its users rely on: one writer at a time, a        *)
(* snapshot per read transaction, and a transaction of a dead process      *)
(* rolled back.                                                            *)
(***************************************************************************)
EXTENDS Naturals, FiniteSets

CONSTANTS
    Files,
    Tasks,       \* the calls that may be in flight
    Procs,
    ProcOf,      \* the process of each call
    Absent,      \* a file without rows
    Keep,        \* a file an operation leaves alone
    Carried,     \* rows that have been through schema v1, where some were lost
    Legacy,      \* rows of the JSON index
    None,
    MaxCalls, MaxMishaps

ASSUME SqliteStoreAssumption ==
    /\ ProcOf \in [Tasks -> Procs]
    /\ Tasks \cap Procs = {} /\ None \notin Tasks \cup Procs
    /\ {Absent, Keep, Carried, Legacy} \cap Tasks = {}
    /\ Absent # Keep /\ Absent # Carried /\ Absent # Legacy /\ Keep # Carried /\ Keep # Legacy /\ Carried # Legacy
    /\ MaxCalls \in Nat /\ MaxMishaps \in Nat

VARIABLES
    disk,       \* what is committed
    lock,       \* the connection that holds SQLite's write lock
    tx,         \* per connection: its open transaction
    opened,     \* per process: its entry in `connections`
    moved,      \* per process: `migrations`, the import of the JSON index
    call,       \* per task
    native,     \* the native core is installed
    legacy,     \* a JSON index exists
    calls, mishaps

vars == <<disk, lock, tx, opened, moved, call, native, legacy, calls, mishaps>>
settings == <<native, legacy>>

\* A call that parsed a file holds the call's own name for its rows.
Rows == [Files -> Tasks \cup {Carried, Legacy, Absent}]
Conns == Procs \cup Tasks
NoRows == [f \in Files |-> Absent]
NoOp == [kind |-> "none", rows |-> NoRows, complete |-> FALSE]
NoTx == [owner |-> None, todo |-> {}, image |-> None]
Idle == [at |-> "idle", op |-> NoOp, snap |-> None, got |-> NoRows, seen |-> {}]

\* An index of an earlier version, whose JSON was kept; and a database just created.
OldIndex == [schema |-> 1, repo |-> TRUE, lossy |-> FALSE, rows |-> [f \in Files |-> Carried]]
NoIndex == [schema |-> 2, repo |-> FALSE, lossy |-> FALSE, rows |-> NoRows]

Init ==
    /\ disk \in {OldIndex, NoIndex}
    /\ lock = None
    /\ tx = [c \in Conns |-> NoTx]
    /\ opened = [p \in Procs |-> "no"] /\ moved = [p \in Procs |-> "no"]
    /\ call = [t \in Tasks |-> Idle]
    /\ native \in BOOLEAN
    /\ legacy \in BOOLEAN /\ (disk = OldIndex => legacy)
    /\ calls = 0 /\ mishaps = 0

At(t, s) == call[t].at = s
Here(t) == ProcOf[t]
Of(p) == {t \in Tasks : ProcOf[t] = p}
\* The connection a whole-index write runs on (saveIndexSqlite, saveIndexNative).
WriteConn(t) == IF native THEN t ELSE Here(t)
\* What a statement on a connection sees: its own uncommitted rows too.
Image(c) == IF tx[c] = NoTx THEN disk ELSE tx[c].image

\* What an operation makes of a revision.
Effect(op, v) ==
    CASE op.kind = "save" ->
           [v EXCEPT !.repo = TRUE, !.rows = op.rows, !.lossy = @ /\ ~op.complete]
      [] op.kind = "delta" /\ v.repo ->
           [v EXCEPT !.rows = [f \in Files |-> IF op.rows[f] = Keep THEN v.rows[f] ELSE op.rows[f]]]
      [] op.kind = "import" /\ ~v.repo -> [v EXCEPT !.repo = TRUE, !.rows = op.rows]
      [] op.kind = "upgrade" /\ v.schema = 1 -> [v EXCEPT !.schema = 2, !.lossy = TRUE]
      [] OTHER -> v
ImportOp == [kind |-> "import", rows |-> [f \in Files |-> Legacy], complete |-> FALSE]
UpgradeOp == [kind |-> "upgrade", rows |-> NoRows, complete |-> FALSE]

\* A statement that writes: refused while the connection has a transaction open,
\* BUSY while another connection has the lock.
CanBegin(c) == tx[c] = NoTx /\ lock = None
Begin(c, own, op, v) ==
    /\ tx' = [tx EXCEPT ![c] = [owner |-> own, todo |-> {f \in Files : op.rows[f] # Absent}, image |-> v]]
    /\ lock' = c
End(c) == tx' = [tx EXCEPT ![c] = NoTx] /\ lock' = None
Mishap == mishaps < MaxMishaps /\ mishaps' = mishaps + 1

\* For the properties: a load remembers the revisions there were while it ran.
Reach(v, new) ==
    /\ disk' = v
    /\ call' = [t \in Tasks |-> IF new[t].at = "paging" THEN [new[t] EXCEPT !.seen = @ \cup {v}] ELSE new[t]]
Go(t, c) == call' = [call EXCEPT ![t] = c] /\ UNCHANGED disk
Return(t) == Go(t, Idle)
Drop(ts) == call' = [t \in Tasks |-> IF t \in ts THEN Idle ELSE call[t]] /\ UNCHANGED disk

-----------------------------------------------------------------------------
(* Opening (openIndexDb): the version is read first, and once more under the *)
(* lock, because another process may have migrated meanwhile.                *)

Open(p) ==
    /\ opened[p] = "no"
    /\ opened' = [opened EXCEPT ![p] = IF disk.schema = 1 THEN "old" ELSE "yes"]
    /\ UNCHANGED <<disk, lock, tx, moved, call, settings, calls, mishaps>>
Migrate(p) ==
    /\ opened[p] = "old" /\ lock = None
    /\ opened' = [opened EXCEPT ![p] = "yes"]
    /\ Reach(Effect(UpgradeOp, disk), call)
    /\ UNCHANGED <<lock, tx, moved, settings, calls, mishaps>>
\* The lock is not to be had, or the migration fails: the handle is closed, and
\* whoever asked for it hears of it.  The next call opens again.
MigrateFails(p) ==
    /\ opened[p] = "old" /\ (lock = None => Mishap) /\ (lock # None => UNCHANGED mishaps)
    /\ opened' = [opened EXCEPT ![p] = "no"]
    /\ Drop(Of(p))
    /\ UNCHANGED <<lock, tx, moved, settings, calls>>

-----------------------------------------------------------------------------
(* Calls *)

Ready(t) == opened[Here(t)] = "yes"
Asked(t, at, op) ==
    /\ At(t, "idle") /\ calls < MaxCalls
    /\ calls' = calls + 1
    /\ Go(t, [Idle EXCEPT !.at = at, !.op = op])
    /\ UNCHANGED <<lock, tx, opened, moved, settings, mishaps>>

\* indexFolder and its merge (folder-indexer.ts, folder-merge.ts): it walked some
\* files and parsed some of them; the rest keep the rows of the index it loaded.
FolderRows(t, parsed) == [f \in Files |-> IF f \in parsed THEN t ELSE disk.rows[f]]
AskSave(t) ==
    /\ Ready(t)
    /\ \E walked \in SUBSET Files \ {{}} : \E parsed \in SUBSET walked :
         Asked(t, "walked", [kind |-> "save", rows |-> FolderRows(t, parsed), complete |-> parsed = walked])
\* saveIncremental, removeFileFromIndex, applyIndexDelta: a file, new or gone.
\* (A delta of several files is as much one step as that of one.)
AskDelta(t) ==
    \E f \in Files, r \in {t, Absent} :
      Asked(t, "waiting", [kind |-> "delta", rows |-> [g \in Files |-> IF g = f THEN r ELSE Keep], complete |-> FALSE])
AskLoad(t) == Asked(t, "waiting", [NoOp EXCEPT !.kind = "load"])

Waiting(t) == At(t, "waiting") /\ Ready(t) /\ moved[Here(t)] = "yes"

-----------------------------------------------------------------------------
(* ensureSqliteMigrated: the first call of a process brings the JSON index over; *)
(* whoever comes meanwhile waits for it.                                         *)

Populated(p) == Image(p).repo
StartMove(p) ==
    /\ opened[p] = "yes" /\ moved[p] = "no" /\ \E t \in Of(p) : At(t, "waiting")
    /\ moved' = [moved EXCEPT ![p] = IF Populated(p) \/ ~legacy THEN "yes" ELSE "read"]
    /\ UNCHANGED <<disk, lock, tx, opened, call, settings, calls, mishaps>>
\* Variant: whether there is an index is asked before the lock only.
ImportUnchecked(p) ==
    /\ moved[p] = "read" /\ CanBegin(p)
    /\ moved' = [moved EXCEPT ![p] = "writing"] /\ Begin(p, p, ImportOp, [disk EXCEPT !.rows = NoRows])
    /\ UNCHANGED <<disk, opened, call, settings, calls, mishaps>>
\* importLegacyIndexIfEmpty: BEGIN IMMEDIATE, and the question again under the lock.
Import(p) ==
    /\ moved[p] = "read" /\ CanBegin(p)
    /\ IF disk.repo
       THEN moved' = [moved EXCEPT ![p] = "yes"] /\ UNCHANGED <<tx, lock>>
       ELSE moved' = [moved EXCEPT ![p] = "writing"] /\ Begin(p, p, ImportOp, [disk EXCEPT !.rows = NoRows])
    /\ UNCHANGED <<disk, opened, call, settings, calls, mishaps>>
\* Variant: the failed import stays in `migrations`, and nobody hears of it.
MoveFailsUnheard(p) ==
    /\ \/ moved[p] = "read" /\ ~CanBegin(p) /\ UNCHANGED <<tx, lock, mishaps>>
       \/ moved[p] = "writing" /\ Mishap /\ End(p)
    /\ moved' = [moved EXCEPT ![p] = "failed"]
    /\ UNCHANGED <<disk, opened, call, settings, calls>>
MoveFails(p) ==
    /\ \/ moved[p] = "read" /\ ~CanBegin(p) /\ UNCHANGED <<tx, lock, mishaps>>
       \/ moved[p] = "writing" /\ Mishap /\ End(p)
    /\ moved' = [moved EXCEPT ![p] = "no"]
    /\ Drop({t \in Of(p) : At(t, "waiting")})
    /\ UNCHANGED <<opened, settings, calls>>

-----------------------------------------------------------------------------
(* Whole-index writes: writeIndexRows, saveIndexSqlite, saveIndexNative *)

BeginSave(t) ==
    /\ At(t, "walked") /\ Ready(t) /\ CanBegin(WriteConn(t))
    /\ Begin(WriteConn(t), t, call[t].op, [disk EXCEPT !.rows = NoRows])
    /\ Go(t, [call[t] EXCEPT !.at = "writing"])
    /\ UNCHANGED <<opened, moved, settings, calls, mishaps>>
\* Rows up to the next turn of the event loop.
WriteRows(c, rows) ==
    /\ \E f \in tx[c].todo : tx' = [tx EXCEPT ![c].todo = @ \ {f}, ![c].image.rows[f] = rows[f]]
    /\ UNCHANGED <<disk, lock, opened, moved, call, settings, calls, mishaps>>
SaveRows(t) == At(t, "writing") /\ WriteRows(WriteConn(t), call[t].op.rows)
ImportRows(p) == moved[p] = "writing" /\ WriteRows(p, ImportOp.rows)
\* The last rows, `repo` and the rest of the meta table, COMMIT.
CommitSave(t) ==
    /\ At(t, "writing") /\ tx[WriteConn(t)].todo = {}
    /\ LET v == tx[WriteConn(t)].image IN
         Reach([v EXCEPT !.repo = TRUE, !.lossy = @ /\ ~call[t].op.complete], [call EXCEPT ![t] = Idle])
    /\ End(WriteConn(t))
    /\ UNCHANGED <<opened, moved, settings, calls, mishaps>>
CommitImport(p) ==
    /\ moved[p] = "writing" /\ tx[p].todo = {}
    /\ Reach([tx[p].image EXCEPT !.repo = TRUE], call)
    /\ End(p)
    /\ moved' = [moved EXCEPT ![p] = "yes"]
    /\ UNCHANGED <<opened, settings, calls, mishaps>>
SaveFails(t) ==
    /\ At(t, "writing") /\ Mishap
    /\ End(WriteConn(t)) /\ Return(t)
    /\ UNCHANGED <<opened, moved, settings, calls>>
\* BEGIN is refused, or the lock is not to be had in 5 s.
Refused(t) ==
    /\ \/ At(t, "walked") /\ Ready(t) /\ ~CanBegin(WriteConn(t))
       \/ Waiting(t) /\ call[t].op.kind = "delta" /\ Populated(Here(t)) /\ ~CanBegin(Here(t))
    /\ Return(t)
    /\ UNCHANGED <<lock, tx, opened, moved, settings, calls, mishaps>>

-----------------------------------------------------------------------------
(* Writes without a turn of the event loop (accessors.ts) *)

Delta(t) ==
    /\ Waiting(t) /\ call[t].op.kind = "delta"
    /\ Populated(Here(t)) => CanBegin(Here(t))
    /\ Reach(Effect(call[t].op, disk), [call EXCEPT ![t] = Idle])
    /\ UNCHANGED <<lock, tx, opened, moved, settings, calls, mishaps>>

-----------------------------------------------------------------------------
(* Reads: loadIndexSqlite.  The snapshot is that of the first statement. *)

Snapshot(t) ==
    /\ Waiting(t) /\ call[t].op.kind = "load"
    /\ IF disk.repo THEN Go(t, [call[t] EXCEPT !.at = "paging", !.snap = disk, !.seen = {disk}]) ELSE Return(t)
    /\ UNCHANGED <<lock, tx, opened, moved, settings, calls, mishaps>>
Paged(t) == {f \in Files : call[t].got[f] # Absent}
\* Variant: the pages are read on the shared connection, outside a transaction.
ReadPageShared(t) ==
    /\ At(t, "paging")
    /\ \E f \in Files \ Paged(t) :
         /\ call[t].snap.rows[f] # Absent
         /\ Go(t, [call[t] EXCEPT !.got[f] = Image(Here(t)).rows[f]])
    /\ UNCHANGED <<lock, tx, opened, moved, settings, calls, mishaps>>
ReadPage(t) ==
    /\ At(t, "paging")
    /\ \E f \in Files \ Paged(t) :
         /\ call[t].snap.rows[f] # Absent
         /\ Go(t, [call[t] EXCEPT !.got[f] = call[t].snap.rows[f]])
    /\ UNCHANGED <<lock, tx, opened, moved, settings, calls, mishaps>>
Loaded(t) ==
    /\ At(t, "paging") /\ \A f \in Files \ Paged(t) : call[t].snap.rows[f] = Absent
    /\ Return(t)
    /\ UNCHANGED <<lock, tx, opened, moved, settings, calls, mishaps>>

-----------------------------------------------------------------------------
\* A process ends: its transactions are rolled back, its calls never return.
Crash(p) ==
    /\ Mishap
    /\ tx' = [c \in Conns |-> IF c = p \/ (c \in Tasks /\ ProcOf[c] = p) THEN NoTx ELSE tx[c]]
    /\ lock' = IF lock = p \/ lock \in Of(p) THEN None ELSE lock
    /\ Drop(Of(p))
    /\ opened' = [opened EXCEPT ![p] = "no"] /\ moved' = [moved EXCEPT ![p] = "no"]
    /\ UNCHANGED <<settings, calls>>

ProcStep(p) == Open(p) \/ Migrate(p) \/ StartMove(p) \/ Import(p) \/ ImportRows(p) \/ CommitImport(p) \/ MoveFails(p)
TaskStep(t) ==
    \/ BeginSave(t) \/ SaveRows(t) \/ CommitSave(t) \/ Refused(t)
    \/ Delta(t) \/ Snapshot(t) \/ ReadPage(t) \/ Loaded(t)
Next ==
    \/ \E p \in Procs : ProcStep(p) \/ MigrateFails(p) \/ Crash(p)
    \/ \E t \in Tasks : TaskStep(t) \/ AskSave(t) \/ AskDelta(t) \/ AskLoad(t) \/ SaveFails(t)

\* The event loop of every process turns.
Spec == Init /\ [][Next]_vars
Fairness == \A p \in Procs : WF_vars(ProcStep(p) \/ \E t \in Of(p) : TaskStep(t))
FairSpec == Spec /\ Fairness

-----------------------------------------------------------------------------
(* Properties *)

TypeOK ==
    /\ disk \in [schema : {1, 2}, repo : BOOLEAN, lossy : BOOLEAN, rows : Rows]
    /\ lock \in Conns \cup {None}
    /\ opened \in [Procs -> {"no", "old", "yes"}]
    /\ moved \in [Procs -> {"no", "read", "writing", "yes"}]
    /\ \A t \in Tasks : call[t].at \in {"idle", "walked", "waiting", "writing", "paging"}

\* A load that yields between pages returns rows that were committed together at
\* some moment while it ran, whatever was written meanwhile.
LoadIsOneRevision ==
    \A t \in Tasks : At(t, "paging") =>
      \E v \in call[t].seen : \A f \in Paged(t) : call[t].got[f] = v.rows[f]

\* Every call reports, whatever else is being written.
EveryCallReturns == \A t \in Tasks : []<>At(t, "idle")

\* Whole writes, deltas, imports and the schema upgrade take effect as a whole, one
\* after another, or not at all: a call that failed or died left nothing, and one that
\* returned was not undone by the end of somebody else's transaction.
Pending(c) ==
    IF c \in Tasks
    THEN IF call[c].op.kind \in {"save", "delta"} THEN call[c].op ELSE NoOp
    ELSE IF opened[c] = "old" THEN UpgradeOp
         ELSE IF moved[c] \in {"read", "writing"} THEN ImportOp ELSE NoOp
Serial == INSTANCE SerialStore WITH
    Callers <- Conns, value <- disk, asked <- [c \in Conns |-> Pending(c)]
WritesAreSerial == Serial!Spec
=============================================================================
