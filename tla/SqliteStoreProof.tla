-------------------------- MODULE SqliteStoreProof --------------------------
(***************************************************************************)
(* WritesAreSerial and LoadIsOneRevision of SqliteStore, for any files,    *)
(* calls and processes: the store with transactions that stay open across  *)
(* turns of the event loop implements SerialStore.                         *)
(*                                                                         *)
(* An open transaction has the write lock and an owner, and its image is   *)
(* what is committed with the owner's rows in place of some.  What is      *)
(* committed changes only when nobody else has a transaction open, so the  *)
(* image is still about it when the owner commits.                         *)
(***************************************************************************)
EXTENDS SqliteStore, TLAPS

RowSet == Tasks \cup {Carried, Legacy, Absent}
VersionSet == [schema : {1, 2}, repo : BOOLEAN, lossy : BOOLEAN, rows : [Files -> RowSet]]
Kinds == {"none", "save", "delta", "load"}
OpSet == [kind : Kinds, rows : [Files -> RowSet \cup {Keep}], complete : BOOLEAN]
CallSet == [at : {"idle", "walked", "waiting", "writing", "paging"}, op : OpSet,
            snap : VersionSet \cup {None}, got : [Files -> RowSet], seen : SUBSET VersionSet]
TxSet == [owner : Conns \cup {None}, todo : SUBSET Files, image : VersionSet \cup {None}]

\* The types the proof needs.
Types ==
    /\ disk \in VersionSet
    /\ lock \in Conns \cup {None}
    /\ tx \in [Conns -> TxSet]
    /\ opened \in [Procs -> {"no", "old", "yes"}] /\ moved \in [Procs -> {"no", "read", "writing", "yes"}]
    /\ call \in [Tasks -> CallSet]

\* The image of an open transaction differs from what is committed in its rows only.
Open1(c) ==
    tx[c] # NoTx =>
      /\ lock = c /\ tx[c].owner \in Conns /\ tx[c].image \in VersionSet
      /\ tx[c].image.schema = disk.schema /\ tx[c].image.repo = disk.repo /\ tx[c].image.lossy = disk.lossy
\* A writer owns the transaction of its connection, and the rows it has dealt with are its own.
Owns(c, own, rows) ==
    /\ tx[c] # NoTx /\ tx[c].owner = own
    /\ \A f \in Files : tx[c].image.rows[f] = IF f \in tx[c].todo THEN Absent ELSE rows[f]
Writes(t) == At(t, "writing") => Owns(WriteConn(t), t, call[t].op.rows)
Imports(p) == moved[p] = "writing" => Owns(p, p, ImportOp.rows) /\ ~disk.repo
Locks ==
    /\ \A c \in Conns : Open1(c)
    /\ \A t \in Tasks : Writes(t)
    /\ \A p \in Procs : Imports(p)

\* What a call is at tells what it was asked to do.
Doing(t) ==
    /\ At(t, "idle") => call[t].op.kind = "none"
    /\ At(t, "walked") \/ At(t, "writing") => call[t].op.kind = "save" /\ \A f \in Files : call[t].op.rows[f] \in RowSet
    /\ At(t, "waiting") => call[t].op.kind \in {"delta", "load"} /\ \A f \in Files : call[t].got[f] = Absent
    /\ At(t, "paging") => call[t].op.kind = "load"
Lives ==
    /\ \A t \in Tasks : Doing(t)
    /\ \A p \in Procs : opened[p] # "yes" => moved[p] = "no"

\* A load has pages of its snapshot only, and the snapshot was committed while it ran.
Pages(t) ==
    At(t, "paging") =>
      /\ call[t].snap \in VersionSet /\ call[t].snap \in call[t].seen
      /\ \A f \in Files : call[t].got[f] \in {Absent, call[t].snap.rows[f]}
Loads == \A t \in Tasks : Pages(t)

IInv == Types /\ Locks /\ Lives /\ Loads

-----------------------------------------------------------------------------
(* Records *)

LEMMA VersionEquality ==
    ASSUME NEW v \in VersionSet, NEW w \in VersionSet,
           v.schema = w.schema, v.repo = w.repo, v.lossy = w.lossy,
           \A f \in Files : v.rows[f] = w.rows[f]
    PROVE v = w
<1>1. v.rows = w.rows BY DEF VersionSet
<1> QED BY <1>1 DEF VersionSet

LEMMA InitSerial == ASSUME Init PROVE Serial!Init
  BY DEF Init, Serial!Init, Pending, Idle, NoOp, Conns

LEMMA InitIInv == ASSUME Init PROVE IInv
<1> USE DEF Init
<1>0. [f \in Files |-> Carried] \in [Files -> RowSet] /\ NoRows \in [Files -> RowSet]
  BY DEF RowSet, NoRows
<1>1. disk \in VersionSet
  <2>1. OldIndex \in VersionSet
    BY <1>0 DEF VersionSet, OldIndex
  <2>2. NoIndex \in VersionSet
    BY <1>0 DEF VersionSet, NoIndex
  <2> QED BY <2>1, <2>2
<1>2. NoTx \in TxSet /\ Idle \in CallSet
  BY <1>0 DEF TxSet, NoTx, CallSet, Idle, OpSet, NoOp, Kinds, NoRows, RowSet
<1>3. Types
  BY <1>1, <1>2 DEF Types
<1> QED BY <1>3 DEF IInv, Locks, Open1, Writes, Imports, Lives, Doing, Loads, Pages, At, Idle, NoOp

-----------------------------------------------------------------------------
(* Steps of the abstract store *)

SStep == Serial!Next \/ UNCHANGED <<disk, [c \in Conns |-> Pending(c)]>>

LEMMA Apart == ASSUME NEW p \in Procs PROVE p \notin Tasks /\ p \in Conns
  BY SqliteStoreAssumption DEF Conns

LEMMA SamePending ==
    /\ \A t \in Tasks : call'[t].op = call[t].op => Pending(t)' = Pending(t)
    /\ \A p \in Procs : opened'[p] = opened[p] /\ moved'[p] = moved[p] => Pending(p)' = Pending(p)
  BY Apart DEF Pending

LEMMA SerialFail ==
    ASSUME disk' = disk, \A c \in Conns : Pending(c)' \in {Pending(c), NoOp}
    PROVE SStep
  BY DEF SStep, Serial!Next, Serial!Fail

LEMMA SerialAsk ==
    ASSUME disk' = disk, NEW c \in Conns, Pending(c) = NoOp,
           \A d \in Conns \ {c} : Pending(d)' = Pending(d)
    PROVE SStep
<1>1. [d \in Conns |-> Pending(d)]' = [[d \in Conns |-> Pending(d)] EXCEPT ![c] = [d \in Conns |-> Pending(d)]'[c]]
  OBVIOUS
<1>2. Serial!Ask(c)
  BY <1>1 DEF Serial!Ask
<1> QED BY <1>2 DEF SStep, Serial!Next

LEMMA SerialSucceed ==
    ASSUME NEW c \in Conns, Pending(c) # NoOp, disk' = Effect(Pending(c), disk), Pending(c)' = NoOp,
           \A d \in Conns \ {c} : Pending(d)' = Pending(d)
    PROVE SStep
<1>1. [d \in Conns |-> Pending(d)]' = [[d \in Conns |-> Pending(d)] EXCEPT ![c] = NoOp]
  <2>1. \A d \in Conns : Pending(d)' = IF d = c THEN NoOp ELSE Pending(d)
    OBVIOUS
  <2> HIDE DEF Pending
  <2> QED BY <2>1
<1>2. Serial!Succeed(c)
  BY <1>1 DEF Serial!Succeed
<1> QED BY <1>2 DEF SStep, Serial!Next

-----------------------------------------------------------------------------
(* Transactions *)

LEMMA NoWriters ==
    ASSUME Locks, lock = None
    PROVE /\ \A c \in Conns : tx[c] = NoTx
          /\ \A t \in Tasks : ~ At(t, "writing")
          /\ \A p \in Procs : moved[p] # "writing"
<1>1. \A c \in Conns : c # None
  BY SqliteStoreAssumption DEF Conns
<1>2. \A c \in Conns : tx[c] = NoTx
  BY <1>1 DEF Locks, Open1
<1>3. \A t \in Tasks : WriteConn(t) \in Conns
  BY SqliteStoreAssumption DEF WriteConn, Here, Conns
<1> QED BY <1>2, <1>3, Apart DEF Locks, Writes, Imports, Owns

LEMMA OneSaver ==
    ASSUME Locks, NEW t \in Tasks, At(t, "writing")
    PROVE /\ WriteConn(t) \in Conns /\ lock = WriteConn(t)
          /\ \A c \in Conns \ {WriteConn(t)} : tx[c] = NoTx
          /\ \A s \in Tasks \ {t} : ~ At(s, "writing")
          /\ \A p \in Procs : moved[p] # "writing"
<1>1. \A s \in Tasks : WriteConn(s) \in Conns
  BY SqliteStoreAssumption DEF WriteConn, Here, Conns
<1>2. tx[WriteConn(t)] # NoTx /\ tx[WriteConn(t)].owner = t
  BY DEF Locks, Writes, Owns
<1>3. lock = WriteConn(t) /\ \A c \in Conns \ {WriteConn(t)} : tx[c] = NoTx
  BY <1>1, <1>2 DEF Locks, Open1
<1>4. \A s \in Tasks : At(s, "writing") => tx[WriteConn(s)] # NoTx /\ tx[WriteConn(s)].owner = s
  BY DEF Locks, Writes, Owns
<1>5. \A p \in Procs : moved[p] = "writing" => tx[p] # NoTx /\ tx[p].owner = p
  BY DEF Locks, Imports, Owns
<1> QED BY <1>1, <1>2, <1>3, <1>4, <1>5, Apart

LEMMA OneImporter ==
    ASSUME Locks, NEW p \in Procs, moved[p] = "writing"
    PROVE /\ lock = p
          /\ \A c \in Conns \ {p} : tx[c] = NoTx
          /\ \A s \in Tasks : ~ At(s, "writing")
          /\ \A q \in Procs \ {p} : moved[q] # "writing"
<1>1. \A s \in Tasks : WriteConn(s) \in Conns
  BY SqliteStoreAssumption DEF WriteConn, Here, Conns
<1>2. tx[p] # NoTx /\ tx[p].owner = p
  BY DEF Locks, Imports, Owns
<1>3. lock = p /\ \A c \in Conns \ {p} : tx[c] = NoTx
  BY <1>2, Apart DEF Locks, Open1
<1>4. \A s \in Tasks : At(s, "writing") => tx[WriteConn(s)] # NoTx /\ tx[WriteConn(s)].owner = s
  BY DEF Locks, Writes, Owns
<1>5. \A q \in Procs : moved[q] = "writing" => tx[q] # NoTx
  BY DEF Locks, Imports, Owns
<1> QED BY <1>1, <1>2, <1>3, <1>4, <1>5, Apart

\* The owner's rows are all there: its commit is the whole operation.
LEMMA WholeImage ==
    ASSUME IInv, NEW c \in Conns, NEW own, NEW rows, Owns(c, own, rows), tx[c].todo = {}
    PROVE /\ tx[c].image \in VersionSet
          /\ tx[c].image.schema = disk.schema /\ tx[c].image.repo = disk.repo /\ tx[c].image.lossy = disk.lossy
          /\ \A f \in Files : tx[c].image.rows[f] = rows[f]
  BY DEF IInv, Locks, Open1, Owns

\* Nothing about transactions changes.
LEMMA LocksKept ==
    ASSUME Locks, tx' = tx, lock' = lock, disk' = disk, native' = native,
           \A t \in Tasks : At(t, "writing")' => At(t, "writing") /\ call'[t].op = call[t].op,
           \A p \in Procs : moved'[p] = "writing" => moved[p] = "writing"
    PROVE Locks'
<1>1. \A c \in Conns : Open1(c)'
  BY DEF Locks, Open1
<1>2. \A t \in Tasks : Writes(t)'
  BY DEF Locks, Writes, Owns, WriteConn
<1>3. \A p \in Procs : Imports(p)'
  BY DEF Locks, Imports, Owns
<1> QED BY <1>1, <1>2, <1>3 DEF Locks

\* Nobody is writing.
LEMMA LocksFree ==
    ASSUME \A c \in Conns : tx'[c] = NoTx,
           \A t \in Tasks : ~ At(t, "writing")',
           \A p \in Procs : moved'[p] # "writing"
    PROVE Locks'
  BY DEF Locks, Open1, Writes, Imports

-----------------------------------------------------------------------------
(* Calls *)

\* A call goes on as it was; a load may see one more revision.
Like(new, old) ==
    new.at = old.at /\ new.op = old.op /\ new.snap = old.snap /\ new.got = old.got /\ old.seen \subseteq new.seen

LEMMA IdleCall == Idle \in CallSet /\ Idle.at = "idle" /\ Idle.op.kind = "none" /\ Idle.op = NoOp
  BY DEF CallSet, Idle, OpSet, NoOp, Kinds, NoRows, RowSet

LEMMA CallsMove ==
    ASSUME Lives, Loads,
           \A t \in Tasks : Like(call'[t], call[t]) \/ call'[t] = Idle \/ (Doing(t)' /\ Pages(t)')
    PROVE /\ \A t \in Tasks : Doing(t)'
          /\ Loads'
<1>1. ASSUME NEW t \in Tasks PROVE Doing(t)'
  BY <1>1, IdleCall DEF Like, Lives, Doing, At
<1>2. ASSUME NEW t \in Tasks PROVE Pages(t)'
  BY <1>2, IdleCall DEF Like, Loads, Pages, At
<1> QED BY <1>1, <1>2 DEF Loads

\* One call moves, what is committed stays.
LEMMA GoMoves ==
    ASSUME Types, NEW t \in Tasks, NEW c \in CallSet, Go(t, c)
    PROVE /\ disk' = disk /\ call' \in [Tasks -> CallSet] /\ call'[t] = c
          /\ \A s \in Tasks \ {t} : call'[s] = call[s]
  BY DEF Types, Go

LEMMA DropMoves ==
    ASSUME Types, NEW ts, Drop(ts)
    PROVE /\ disk' = disk /\ call' \in [Tasks -> CallSet]
          /\ \A s \in Tasks : call'[s] = IF s \in ts THEN Idle ELSE call[s]
  BY IdleCall DEF Types, Drop

LEMMA ReachMoves ==
    ASSUME NEW v \in VersionSet, NEW new \in [Tasks -> CallSet], Reach(v, new)
    PROVE /\ disk' = v /\ call' \in [Tasks -> CallSet]
          /\ \A s \in Tasks : Like(call'[s], new[s])
<1>1. ASSUME NEW s \in Tasks PROVE call'[s] \in CallSet /\ Like(call'[s], new[s])
  <2>1. CASE new[s].at = "paging"
    <3>1. call'[s] = [new[s] EXCEPT !.seen = @ \cup {v}]
      BY <2>1 DEF Reach
    <3> QED BY <3>1 DEF CallSet, Like
  <2>2. CASE new[s].at # "paging"
    BY <2>2 DEF Reach, Like
  <2> QED BY <2>1, <2>2
<1>2. DOMAIN call' = Tasks /\ call' = [s \in Tasks |-> call'[s]]
  BY DEF Reach
<1> QED BY <1>1, <1>2 DEF Reach

LEMMA TxTypes ==
    /\ NoTx \in TxSet
    /\ \A c \in Conns, own \in Conns, todo \in SUBSET Files, v \in VersionSet :
         /\ [owner |-> own, todo |-> todo, image |-> v] \in TxSet
         /\ [owner |-> own, todo |-> todo, image |-> v] # NoTx
<1>1. \A c \in Conns : c # None
  BY SqliteStoreAssumption DEF Conns
<1> QED BY <1>1 DEF TxSet, NoTx

LEMMA EndMoves ==
    ASSUME Types, NEW c \in Conns, End(c), \A d \in Conns \ {c} : tx[d] = NoTx
    PROVE lock' = None /\ tx' \in [Conns -> TxSet] /\ \A d \in Conns : tx'[d] = NoTx
  BY TxTypes DEF Types, End

\* A transaction begins: nothing is in place yet.
LEMMA BeginMoves ==
    ASSUME Types, NEW c \in Conns, NEW own \in Conns, NEW op, Begin(c, own, op, [disk EXCEPT !.rows = NoRows]),
           CanBegin(c), \A f \in Files : op.rows[f] \in RowSet \cup {Keep}
    PROVE /\ lock' = c /\ tx' \in [Conns -> TxSet]
          /\ \A d \in Conns \ {c} : tx'[d] = tx[d]
          /\ tx'[c] # NoTx /\ tx'[c].owner = own /\ tx'[c].image \in VersionSet
          /\ tx'[c].image.schema = disk.schema /\ tx'[c].image.repo = disk.repo /\ tx'[c].image.lossy = disk.lossy
          /\ \A f \in Files : tx'[c].image.rows[f] = IF f \in tx'[c].todo THEN Absent ELSE op.rows[f]
<1> DEFINE new == [owner |-> own, todo |-> {f \in Files : op.rows[f] # Absent}, image |-> [disk EXCEPT !.rows = NoRows]]
<1>1. NoRows \in [Files -> RowSet] /\ \A f \in Files : NoRows[f] = Absent
  BY DEF NoRows, RowSet
<1>2. [disk EXCEPT !.rows = NoRows] \in VersionSet
  BY <1>1 DEF Types, VersionSet
<1>3. new \in TxSet /\ new # NoTx
  BY <1>2, TxTypes
<1>4. tx' = [tx EXCEPT ![c] = new] /\ lock' = c
  BY DEF Begin
<1>5. tx'[c] = new
  BY <1>4 DEF Types
<1>6. tx' \in [Conns -> TxSet] /\ \A d \in Conns \ {c} : tx'[d] = tx[d]
  BY <1>3, <1>4 DEF Types
<1>7. /\ new.image.schema = disk.schema /\ new.image.repo = disk.repo /\ new.image.lossy = disk.lossy
      /\ new.image.rows = NoRows /\ new.owner = own
  BY DEF Types, VersionSet
<1>8. \A f \in Files : new.image.rows[f] = IF f \in new.todo THEN Absent ELSE op.rows[f]
  BY <1>1, <1>7
<1> QED BY <1>2, <1>3, <1>4, <1>5, <1>6, <1>7, <1>8

\* Some more rows are in place.
LEMMA RowsMove ==
    ASSUME IInv, NEW c \in Conns, NEW own, NEW rows, WriteRows(c, rows), Owns(c, own, rows),
           \A f \in Files : rows[f] \in RowSet
    PROVE /\ lock' = lock /\ tx' \in [Conns -> TxSet]
          /\ \A d \in Conns \ {c} : tx'[d] = tx[d]
          /\ Owns(c, own, rows)' /\ Open1(c)'
<1>1. Types /\ Open1(c)
  BY DEF IInv, Locks
<1>2. PICK f \in tx[c].todo : tx' = [tx EXCEPT ![c].todo = @ \ {f}, ![c].image.rows[f] = rows[f]]
  BY DEF WriteRows
<1>3. tx[c] # NoTx /\ tx[c].owner = own /\ tx[c].owner \in Conns /\ tx[c].image \in VersionSet /\ f \in Files
  BY <1>1 DEF Owns, Open1, Types, TxSet
<1>4. tx'[c] = [tx[c] EXCEPT !.todo = @ \ {f}, !.image.rows[f] = rows[f]]
  BY <1>1, <1>2 DEF Types
<1>5. /\ tx'[c].owner = tx[c].owner /\ tx'[c].todo = tx[c].todo \ {f}
      /\ tx'[c].image = [tx[c].image EXCEPT !.rows[f] = rows[f]]
  BY <1>1, <1>4 DEF Types, TxSet
<1>6. tx'[c].image.rows = [tx[c].image.rows EXCEPT ![f] = rows[f]]
  BY <1>3, <1>5 DEF VersionSet
<1>7. /\ tx'[c].image \in VersionSet /\ tx'[c].image.schema = tx[c].image.schema
      /\ tx'[c].image.repo = tx[c].image.repo /\ tx'[c].image.lossy = tx[c].image.lossy
  BY <1>3, <1>5 DEF VersionSet
<1>8. tx'[c] \in TxSet
  BY <1>1, <1>3, <1>4, <1>5, <1>7 DEF Types, TxSet
<1>9. tx' \in [Conns -> TxSet] /\ \A d \in Conns \ {c} : tx'[d] = tx[d]
  BY <1>1, <1>2, <1>8 DEF Types
<1>10. tx'[c] # NoTx
  BY <1>3, <1>5, SqliteStoreAssumption DEF NoTx, Conns
<1>11. \A g \in Files : tx'[c].image.rows[g] = IF g \in tx'[c].todo THEN Absent ELSE rows[g]
  BY <1>3, <1>5, <1>6 DEF Owns, VersionSet
<1>12. lock' = lock /\ disk' = disk
  BY DEF WriteRows
<1> QED BY <1>1, <1>3, <1>5, <1>7, <1>9, <1>10, <1>11, <1>12 DEF Owns, Open1

-----------------------------------------------------------------------------
(* One lemma per action: the invariant is kept, and the step is one of the *)
(* abstract store or none.                                                  *)

LEMMA Assemble ==
    ASSUME Types', Locks', \A t \in Tasks : Doing(t)', \A p \in Procs : opened'[p] # "yes" => moved'[p] = "no", Loads'
    PROVE IInv'
  BY DEF IInv, Lives

LEMMA CallsStay == ASSUME IInv, call' = call PROVE (\A t \in Tasks : Doing(t)') /\ Loads'
<1>1. \A t \in Tasks : Like(call'[t], call[t])
  BY DEF Like
<1> QED BY <1>1, CallsMove DEF IInv

LEMMA UpgradeEffect == ASSUME Types PROVE Effect(UpgradeOp, disk) \in VersionSet
  BY DEF Types, Effect, UpgradeOp, VersionSet

LEMMA OpenStep == ASSUME IInv, NEW p \in Procs, Open(p) PROVE IInv' /\ SStep
<1> USE DEF Open
<1>1. (\A t \in Tasks : Doing(t)') /\ Loads'
  BY CallsStay
<1>2. Types' /\ \A q \in Procs : opened'[q] # "yes" => moved'[q] = "no"
  BY DEF IInv, Types, Lives
<1>3. Locks'
  BY LocksKept DEF IInv, At, settings
<1>4. Pending(p) = NoOp
  BY Apart DEF IInv, Lives, Pending
<1>5. \A d \in Conns \ {p} : Pending(d)' = Pending(d)
  BY SamePending DEF Conns, IInv, Types
<1>6. SStep
  BY <1>4, <1>5, Apart, SerialAsk
<1> QED BY <1>1, <1>2, <1>3, <1>6, Assemble

LEMMA StartMoveStep == ASSUME IInv, NEW p \in Procs, StartMove(p) PROVE IInv' /\ SStep
<1> USE DEF StartMove
<1>1. (\A t \in Tasks : Doing(t)') /\ Loads'
  BY CallsStay
<1>2. Types' /\ \A q \in Procs : opened'[q] # "yes" => moved'[q] = "no"
  BY DEF IInv, Types, Lives
<1>3. Locks'
  BY LocksKept DEF IInv, Types, At, settings
<1>4. Pending(p) = NoOp
  BY Apart DEF Pending
<1>5. \A d \in Conns \ {p} : Pending(d)' = Pending(d)
  BY SamePending DEF Conns, IInv, Types
<1>6. SStep
  BY <1>4, <1>5, Apart, SerialAsk
<1> QED BY <1>1, <1>2, <1>3, <1>6, Assemble

LEMMA MigrateStep == ASSUME IInv, NEW p \in Procs, Migrate(p) PROVE IInv' /\ SStep
<1>1. PICK v \in VersionSet : v = Effect(UpgradeOp, disk)
  BY UpgradeEffect DEF IInv
<1>2. PICK new \in [Tasks -> CallSet] : new = call
  BY DEF IInv, Types
<1>3. Reach(v, new)
  BY <1>1, <1>2 DEF Migrate
<1>4. disk' = v /\ call' \in [Tasks -> CallSet] /\ \A s \in Tasks : Like(call'[s], call[s])
  BY <1>2, <1>3, ReachMoves
<1>5. (\A t \in Tasks : Doing(t)') /\ Loads'
  BY <1>4, CallsMove DEF IInv
<1>6. Types' /\ \A q \in Procs : opened'[q] # "yes" => moved'[q] = "no"
  BY <1>4 DEF IInv, Types, Lives, Migrate
<1>7. Locks'
  <2>1. tx' = tx /\ moved' = moved
    BY DEF Migrate
  <2>2. \A t \in Tasks : At(t, "writing")' => At(t, "writing")
    BY <1>4 DEF At, Like
  <2>3. Locks /\ lock = None
    BY DEF IInv, Migrate
  <2> QED BY <2>1, <2>2, <2>3, NoWriters, LocksFree
<1>8. Pending(p) = UpgradeOp /\ Pending(p)' = NoOp /\ UpgradeOp # NoOp
  BY Apart DEF IInv, Types, Lives, Pending, Migrate, UpgradeOp, NoOp
<1>9. \A d \in Conns \ {p} : Pending(d)' = Pending(d)
  BY <1>4, SamePending DEF Conns, IInv, Types, Migrate, Like
<1>10. disk' = Effect(Pending(p), disk)
  BY <1>1, <1>4, <1>8
<1>11. SStep
  BY <1>8, <1>9, <1>10, Apart, SerialSucceed
<1> QED BY <1>5, <1>6, <1>7, <1>11, Assemble

LEMMA MigrateFailsStep == ASSUME IInv, NEW p \in Procs, MigrateFails(p) PROVE IInv' /\ SStep
<1>1. PICK ts : ts = Of(p)
  OBVIOUS
<1>2. disk' = disk /\ call' \in [Tasks -> CallSet] /\ \A s \in Tasks : call'[s] = call[s] \/ call'[s] = Idle
  <2>1. Drop(ts)
    BY <1>1 DEF MigrateFails
  <2> QED BY <2>1, DropMoves DEF IInv
<1>3. (\A t \in Tasks : Doing(t)') /\ Loads'
  <2>1. \A t \in Tasks : Like(call'[t], call[t]) \/ call'[t] = Idle
    BY <1>2 DEF Like
  <2> QED BY <2>1, CallsMove DEF IInv
<1>4. Types' /\ \A q \in Procs : opened'[q] # "yes" => moved'[q] = "no"
  BY <1>2 DEF IInv, Types, Lives, MigrateFails
<1>5. \A t \in Tasks : At(t, "writing")' => At(t, "writing") /\ call'[t].op = call[t].op
  BY <1>2, IdleCall DEF At
<1>6. Locks'
  BY <1>2, <1>5, LocksKept DEF IInv, MigrateFails, settings
<1>7. \A d \in Conns : Pending(d)' \in {Pending(d), NoOp}
  <2>1. \A t \in Tasks : Pending(t)' \in {Pending(t), NoOp}
    BY <1>2, SamePending, IdleCall DEF Pending
  <2>2. Pending(p)' = NoOp
    BY <1>4, Apart DEF Pending, MigrateFails, IInv, Types
  <2>3. \A q \in Procs \ {p} : Pending(q)' = Pending(q)
    BY SamePending DEF IInv, Types, MigrateFails
  <2> QED BY <2>1, <2>2, <2>3 DEF Conns
<1>8. SStep
  BY <1>2, <1>7, SerialFail
<1> QED BY <1>3, <1>4, <1>6, <1>8, Assemble

LEMMA AskedStep ==
    ASSUME IInv, NEW t \in Tasks, NEW at \in {"walked", "waiting"}, NEW op \in OpSet, Asked(t, at, op),
           at = "walked" => op.kind = "save" /\ \A f \in Files : op.rows[f] \in RowSet,
           at = "waiting" => op.kind \in {"delta", "load"}
    PROVE IInv' /\ SStep
<1> DEFINE new == [Idle EXCEPT !.at = at, !.op = op]
<1>1. /\ new \in CallSet /\ new.at = at /\ new.op = op
      /\ \A f \in Files : new.got[f] = Absent
  <2>1. NoRows \in [Files -> RowSet] /\ \A f \in Files : NoRows[f] = Absent
    BY DEF NoRows, RowSet
  <2> QED BY <2>1 DEF CallSet, Idle
<1>2. PICK c \in CallSet : c = new
  BY <1>1
<1>3. Go(t, c)
  BY <1>2 DEF Asked
<1>4. /\ disk' = disk /\ call' \in [Tasks -> CallSet] /\ call'[t] = c
      /\ \A s \in Tasks \ {t} : call'[s] = call[s]
  BY <1>3, GoMoves DEF IInv
<1>5. c.at = at /\ c.op = op /\ \A f \in Files : c.got[f] = Absent
  BY <1>1, <1>2
<1> HIDE DEF new
<1>6. Doing(t)' /\ Pages(t)'
  BY <1>4, <1>5 DEF Doing, Pages, At
<1>7. (\A s \in Tasks : Doing(s)') /\ Loads'
  <2>1. \A s \in Tasks : Like(call'[s], call[s]) \/ (Doing(s)' /\ Pages(s)')
    BY <1>4, <1>6 DEF Like
  <2> QED BY <2>1, CallsMove DEF IInv
<1>8. Types' /\ \A q \in Procs : opened'[q] # "yes" => moved'[q] = "no"
  BY <1>4 DEF IInv, Types, Lives, Asked
<1>9. \A s \in Tasks : At(s, "writing")' => At(s, "writing") /\ call'[s].op = call[s].op
  BY <1>4, <1>5 DEF At
<1>10. Locks'
  BY <1>4, <1>9, LocksKept DEF IInv, Asked, settings
<1>11. Pending(t) = NoOp
  BY DEF Asked, IInv, Lives, Doing, Pending
<1>12. \A d \in Conns \ {t} : Pending(d)' = Pending(d)
  BY <1>4, SamePending DEF Conns, Asked
<1>13. SStep
  BY <1>4, <1>11, <1>12, SerialAsk DEF Conns
<1> QED BY <1>7, <1>8, <1>10, <1>13, Assemble

LEMMA AskSaveStep == ASSUME IInv, NEW t \in Tasks, AskSave(t) PROVE IInv' /\ SStep
<1>1. PICK walked \in SUBSET Files \ {{}} : \E parsed \in SUBSET walked :
        Asked(t, "walked", [kind |-> "save", rows |-> FolderRows(t, parsed), complete |-> parsed = walked])
  BY DEF AskSave
<1>5. PICK parsed \in SUBSET walked :
        Asked(t, "walked", [kind |-> "save", rows |-> FolderRows(t, parsed), complete |-> parsed = walked])
  BY <1>1
<1>2. [kind |-> "save", rows |-> FolderRows(t, parsed), complete |-> parsed = walked] \in OpSet
  <2>1. disk.rows \in [Files -> RowSet]
    BY DEF IInv, Types, VersionSet
  <2>2. FolderRows(t, parsed) \in [Files -> RowSet \cup {Keep}]
    BY <2>1 DEF FolderRows, RowSet
  <2> QED BY <2>2 DEF OpSet, Kinds
<1>3. PICK op \in OpSet : op = [kind |-> "save", rows |-> FolderRows(t, parsed), complete |-> parsed = walked]
  BY <1>2
<1>4. Asked(t, "walked", op) /\ op.kind = "save"
  BY <1>3, <1>5
<1>6. \A f \in Files : op.rows[f] \in RowSet
  BY <1>3 DEF FolderRows, RowSet, IInv, Types, VersionSet
<1> QED BY <1>4, <1>6, AskedStep

LEMMA AskDeltaStep == ASSUME IInv, NEW t \in Tasks, AskDelta(t) PROVE IInv' /\ SStep
<1>1. PICK f \in Files, r \in {t, Absent} :
        Asked(t, "waiting", [kind |-> "delta", rows |-> [g \in Files |-> IF g = f THEN r ELSE Keep], complete |-> FALSE])
  BY DEF AskDelta
<1>2. PICK op \in OpSet : op = [kind |-> "delta", rows |-> [g \in Files |-> IF g = f THEN r ELSE Keep], complete |-> FALSE]
  BY DEF OpSet, Kinds, RowSet
<1>3. Asked(t, "waiting", op) /\ op.kind = "delta"
  BY <1>1, <1>2
<1> QED BY <1>3, AskedStep

LEMMA AskLoadStep == ASSUME IInv, NEW t \in Tasks, AskLoad(t) PROVE IInv' /\ SStep
<1>1. PICK op \in OpSet : op = [NoOp EXCEPT !.kind = "load"]
  <2>1. NoOp \in OpSet
    BY IdleCall DEF CallSet
  <2> QED BY <2>1 DEF OpSet, Kinds
<1>3. op.kind = "load"
  <2>1. NoOp \in OpSet
    BY IdleCall DEF CallSet
  <2> QED BY <1>1, <2>1 DEF OpSet
<1>2. Asked(t, "waiting", op)
  BY <1>1 DEF AskLoad
<1> QED BY <1>2, <1>3, AskedStep

\* A call moves on without a change to what it is to do, or returns having written nothing.
LEMMA OnItsWay ==
    ASSUME IInv, NEW t \in Tasks, NEW c \in CallSet, Go(t, c),
           c = Idle \/ (c.op = call[t].op /\ Doing(t)' /\ Pages(t)'),
           tx' = tx, lock' = lock, UNCHANGED <<opened, moved, settings>>,
           c.at = "writing" => At(t, "writing")
    PROVE IInv' /\ SStep
<1>1. /\ disk' = disk /\ call' \in [Tasks -> CallSet] /\ call'[t] = c
      /\ \A s \in Tasks \ {t} : call'[s] = call[s]
  BY GoMoves DEF IInv
<1>2. (\A s \in Tasks : Doing(s)') /\ Loads'
  <2>1. \A s \in Tasks : Like(call'[s], call[s]) \/ call'[s] = Idle \/ (Doing(s)' /\ Pages(s)')
    BY <1>1 DEF Like
  <2> QED BY <2>1, CallsMove DEF IInv
<1>3. Types' /\ \A q \in Procs : opened'[q] # "yes" => moved'[q] = "no"
  BY <1>1 DEF IInv, Types, Lives
<1>4. \A s \in Tasks : At(s, "writing")' => At(s, "writing") /\ call'[s].op = call[s].op
  BY <1>1, IdleCall DEF At
<1>5. Locks'
  BY <1>1, <1>4, LocksKept DEF IInv, settings
<1>6. \A d \in Conns : Pending(d)' \in {Pending(d), NoOp}
  <2>1. Pending(t)' \in {Pending(t), NoOp}
    <3>1. CASE c = Idle
      BY <1>1, <3>1, IdleCall DEF Pending
    <3>2. CASE c.op = call[t].op
      BY <1>1, <3>2, SamePending
    <3> QED BY <3>1, <3>2
  <2>2. \A d \in Conns \ {t} : Pending(d)' = Pending(d)
    BY <1>1, SamePending DEF Conns
  <2> QED BY <2>1, <2>2
<1>7. SStep
  BY <1>1, <1>6, SerialFail
<1> QED BY <1>2, <1>3, <1>5, <1>7, Assemble

LEMMA RefusedStep == ASSUME IInv, NEW t \in Tasks, Refused(t) PROVE IInv' /\ SStep
<1>1. PICK c \in CallSet : c = Idle
  BY IdleCall
<1>2. Go(t, c) /\ tx' = tx /\ lock' = lock /\ UNCHANGED <<opened, moved, settings>>
  BY <1>1 DEF Refused, Return
<1> QED BY <1>1, <1>2, IdleCall, OnItsWay

LEMMA LoadedStep == ASSUME IInv, NEW t \in Tasks, Loaded(t) PROVE IInv' /\ SStep
<1>1. PICK c \in CallSet : c = Idle
  BY IdleCall
<1>2. Go(t, c) /\ tx' = tx /\ lock' = lock /\ UNCHANGED <<opened, moved, settings>>
  BY <1>1 DEF Loaded, Return
<1> QED BY <1>1, <1>2, IdleCall, OnItsWay

LEMMA SnapshotStep == ASSUME IInv, NEW t \in Tasks, Snapshot(t) PROVE IInv' /\ SStep
<1>1. tx' = tx /\ lock' = lock /\ UNCHANGED <<opened, moved, settings>>
  BY DEF Snapshot
<1>2. CASE disk.repo
  <2>1. call[t] \in CallSet /\ disk \in VersionSet
    BY DEF IInv, Types
  <2>2. PICK c \in CallSet : c = [call[t] EXCEPT !.at = "paging", !.snap = disk, !.seen = {disk}]
    BY <2>1 DEF CallSet
  <2>3. c.at = "paging" /\ c.op = call[t].op /\ c.got = call[t].got /\ c.snap = disk /\ c.seen = {disk}
    BY <2>1, <2>2 DEF CallSet
  <2>4. Go(t, c)
    BY <1>2, <2>2 DEF Snapshot
  <2>5. call'[t] = c
    BY <2>4, GoMoves DEF IInv
  <2>6. call[t].op.kind = "load" /\ \A f \in Files : call[t].got[f] = Absent
    BY DEF IInv, Lives, Doing, Snapshot, Waiting
  <2>7. Doing(t)' /\ Pages(t)'
    BY <2>1, <2>3, <2>5, <2>6 DEF Doing, Pages, At
  <2> QED BY <1>1, <2>3, <2>4, <2>7, OnItsWay
<1>3. CASE ~disk.repo
  <2>1. PICK c \in CallSet : c = Idle
    BY IdleCall
  <2>2. Go(t, c)
    BY <1>3, <2>1 DEF Snapshot, Return
  <2> QED BY <1>1, <2>1, <2>2, IdleCall, OnItsWay
<1> QED BY <1>2, <1>3

LEMMA ReadPageStep == ASSUME IInv, NEW t \in Tasks, ReadPage(t) PROVE IInv' /\ SStep
<1>1. PICK f \in Files : Go(t, [call[t] EXCEPT !.got[f] = call[t].snap.rows[f]])
  BY DEF ReadPage
<1>2. call[t] \in CallSet /\ call[t].snap \in VersionSet /\ call[t].got \in [Files -> RowSet] /\ call[t].at = "paging"
  BY DEF IInv, Types, Loads, Pages, ReadPage, CallSet, At
<1>3. PICK r \in RowSet : r = call[t].snap.rows[f]
  BY <1>2 DEF VersionSet
<1>4. PICK c \in CallSet : c = [call[t] EXCEPT !.got[f] = call[t].snap.rows[f]]
  BY <1>2, <1>3 DEF CallSet
<1>5. /\ c.at = call[t].at /\ c.op = call[t].op /\ c.snap = call[t].snap /\ c.seen = call[t].seen
      /\ c.got = [call[t].got EXCEPT ![f] = call[t].snap.rows[f]]
  BY <1>2, <1>4 DEF CallSet
<1>6. Go(t, c)
  BY <1>1, <1>4
<1>7. call'[t] = c
  BY <1>6, GoMoves DEF IInv
<1>8. \A g \in Files : c.got[g] = IF g = f THEN call[t].snap.rows[f] ELSE call[t].got[g]
  BY <1>2, <1>5
<1>9. Doing(t)' /\ Pages(t)'
  <2>1. Doing(t) /\ Pages(t)
    BY DEF IInv, Lives, Loads
  <2> QED BY <1>2, <1>5, <1>7, <1>8, <2>1 DEF Doing, Pages, At
<1> QED BY <1>2, <1>5, <1>6, <1>9, OnItsWay DEF ReadPage

LEMMA ImportRowsAre ==
    /\ \A f \in Files : ImportOp.rows[f] = Legacy
    /\ Legacy \in RowSet /\ ImportOp # NoOp /\ ImportOp.kind = "import"
<1>1. ImportOp.kind # NoOp.kind
  BY DEF ImportOp, NoOp
<1> QED BY <1>1 DEF ImportOp, RowSet

LEMMA ImportStep == ASSUME IInv, NEW p \in Procs, Import(p) PROVE IInv' /\ SStep
<1>1. /\ disk' = disk /\ call' = call /\ opened' = opened /\ native' = native
      /\ moved[p] = "read" /\ CanBegin(p) /\ opened[p] = "yes"
  BY DEF Import, settings, IInv, Lives
<1>2. (\A t \in Tasks : Doing(t)') /\ Loads'
  BY <1>1, CallsStay
<1>3. /\ \A q \in Procs \ {p} : moved'[q] = moved[q]
      /\ moved' \in [Procs -> {"no", "read", "writing", "yes"}]
      /\ moved'[p] = IF disk.repo THEN "yes" ELSE "writing"
  BY DEF Import, IInv, Types
<1>4. Types' /\ Locks'
  <2>1. CASE disk.repo
    <3>1. tx' = tx /\ lock' = lock
      BY <2>1 DEF Import
    <3>2. Locks'
      BY <1>1, <1>3, <2>1, <3>1, LocksKept DEF IInv, At
    <3> QED BY <1>1, <1>3, <3>1, <3>2 DEF IInv, Types
  <2>2. CASE ~disk.repo
    <3>1. PICK op : op = ImportOp
      OBVIOUS
    <3>2. Begin(p, p, op, [disk EXCEPT !.rows = NoRows])
      BY <2>2, <3>1 DEF Import
    <3>3. \A f \in Files : op.rows[f] \in RowSet \cup {Keep}
      BY <3>1, ImportRowsAre
    <3>4. /\ lock' = p /\ tx' \in [Conns -> TxSet]
          /\ \A d \in Conns \ {p} : tx'[d] = tx[d]
          /\ tx'[p] # NoTx /\ tx'[p].owner = p /\ tx'[p].image \in VersionSet
          /\ tx'[p].image.schema = disk.schema /\ tx'[p].image.repo = disk.repo /\ tx'[p].image.lossy = disk.lossy
          /\ \A f \in Files : tx'[p].image.rows[f] = IF f \in tx'[p].todo THEN Absent ELSE op.rows[f]
      BY <1>1, <3>2, <3>3, Apart, BeginMoves DEF IInv
    <3>5. Types'
      BY <1>1, <1>3, <3>4, Apart DEF IInv, Types
    <3>6. /\ \A c \in Conns : tx[c] = NoTx
          /\ \A t \in Tasks : ~ At(t, "writing")
          /\ \A q \in Procs : moved[q] # "writing"
      BY <1>1, NoWriters DEF IInv, CanBegin
    <3>7. \A c \in Conns : Open1(c)'
      BY <1>1, <3>4, <3>6, Apart DEF Open1
    <3>8. \A t \in Tasks : Writes(t)'
      BY <1>1, <3>6 DEF Writes, At
    <3>9. \A q \in Procs : Imports(q)'
      BY <1>1, <1>3, <2>2, <3>1, <3>4, <3>6 DEF Imports, Owns
    <3> QED BY <3>5, <3>7, <3>8, <3>9 DEF Locks
  <2> QED BY <2>1, <2>2
<1>5. \A q \in Procs : opened'[q] # "yes" => moved'[q] = "no"
  BY <1>1, <1>3 DEF IInv, Lives
<1>6. \A d \in Conns : Pending(d)' \in {Pending(d), NoOp}
  <2>1. Pending(p)' \in {Pending(p), NoOp}
    BY <1>1, <1>3, Apart DEF Pending
  <2>2. \A d \in Conns \ {p} : Pending(d)' = Pending(d)
    BY <1>1, <1>3, SamePending DEF Conns
  <2> QED BY <2>1, <2>2
<1>7. SStep
  BY <1>1, <1>6, SerialFail
<1> QED BY <1>2, <1>4, <1>5, <1>7, Assemble

LEMMA MoveFailsStep == ASSUME IInv, NEW p \in Procs, MoveFails(p) PROVE IInv' /\ SStep
<1>1. PICK ts : ts = {t \in Of(p) : At(t, "waiting")}
  OBVIOUS
<1>2. disk' = disk /\ call' \in [Tasks -> CallSet] /\ \A s \in Tasks : call'[s] = call[s] \/ call'[s] = Idle
  <2>1. Drop(ts)
    BY <1>1 DEF MoveFails
  <2> QED BY <2>1, DropMoves DEF IInv
<1>3. (\A t \in Tasks : Doing(t)') /\ Loads'
  <2>1. \A t \in Tasks : Like(call'[t], call[t]) \/ call'[t] = Idle
    BY <1>2 DEF Like
  <2> QED BY <2>1, CallsMove DEF IInv
<1>4. /\ opened' = opened /\ native' = native
      /\ \A q \in Procs \ {p} : moved'[q] = moved[q]
      /\ moved' \in [Procs -> {"no", "read", "writing", "yes"}] /\ moved'[p] = "no"
  BY DEF MoveFails, settings, IInv, Types
<1>5. \A t \in Tasks : At(t, "writing")' => At(t, "writing") /\ call'[t].op = call[t].op
  BY <1>2, IdleCall DEF At
<1>6. Types' /\ Locks'
  <2>1. CASE UNCHANGED <<tx, lock>>
    <3>1. Locks'
      BY <1>2, <1>4, <1>5, <2>1, LocksKept DEF IInv
    <3> QED BY <1>2, <1>4, <2>1, <3>1 DEF IInv, Types
  <2>2. CASE moved[p] = "writing" /\ End(p)
    <3>1. /\ \A c \in Conns \ {p} : tx[c] = NoTx
          /\ \A s \in Tasks : ~ At(s, "writing")
          /\ \A q \in Procs \ {p} : moved[q] # "writing"
      BY <2>2, OneImporter DEF IInv
    <3>2. lock' = None /\ tx' \in [Conns -> TxSet] /\ \A d \in Conns : tx'[d] = NoTx
      BY <2>2, <3>1, Apart, EndMoves DEF IInv
    <3>3. Locks'
      BY <1>4, <1>5, <3>1, <3>2, LocksFree
    <3> QED BY <1>2, <1>4, <3>2, <3>3 DEF IInv, Types
  <2> QED BY <2>1, <2>2 DEF MoveFails
<1>7. \A q \in Procs : opened'[q] # "yes" => moved'[q] = "no"
  BY <1>4 DEF IInv, Lives
<1>8. \A d \in Conns : Pending(d)' \in {Pending(d), NoOp}
  <2>1. \A t \in Tasks : Pending(t)' \in {Pending(t), NoOp}
    BY <1>2, SamePending, IdleCall DEF Pending
  <2>2. Pending(p)' = NoOp
    <3>1. opened[p] # "old"
      BY DEF MoveFails, IInv, Lives
    <3> QED BY <1>4, <3>1, Apart DEF Pending
  <2>3. \A q \in Procs \ {p} : Pending(q)' = Pending(q)
    BY <1>4, SamePending
  <2> QED BY <2>1, <2>2, <2>3 DEF Conns
<1>9. SStep
  BY <1>2, <1>8, SerialFail
<1> QED BY <1>3, <1>6, <1>7, <1>9, Assemble

LEMMA ImportRowsStep == ASSUME IInv, NEW p \in Procs, ImportRows(p) PROVE IInv' /\ SStep
<1>1. disk' = disk /\ call' = call /\ UNCHANGED <<opened, moved, native>> /\ moved[p] = "writing"
  BY DEF ImportRows, WriteRows, settings
<1>2. (\A t \in Tasks : Doing(t)') /\ Loads'
  BY <1>1, CallsStay
<1>3. PICK rows : rows = ImportOp.rows
  OBVIOUS
<1>4. /\ lock' = lock /\ tx' \in [Conns -> TxSet]
      /\ \A d \in Conns \ {p} : tx'[d] = tx[d]
      /\ Owns(p, p, rows)' /\ Open1(p)'
  <2>1. Owns(p, p, rows)
    BY <1>1, <1>3 DEF IInv, Locks, Imports
  <2>2. WriteRows(p, rows)
    BY <1>3 DEF ImportRows
  <2>3. \A f \in Files : rows[f] \in RowSet
    BY <1>3, ImportRowsAre
  <2> QED BY <2>1, <2>2, <2>3, Apart, RowsMove
<1>5. /\ \A c \in Conns \ {p} : tx[c] = NoTx
      /\ \A s \in Tasks : ~ At(s, "writing")
      /\ \A q \in Procs \ {p} : moved[q] # "writing"
  BY <1>1, OneImporter DEF IInv
<1>6. Types'
  BY <1>1, <1>4 DEF IInv, Types
<1>7. Locks'
  <2>1. \A c \in Conns : Open1(c)'
    BY <1>4, <1>5 DEF Open1
  <2>2. \A t \in Tasks : Writes(t)'
    BY <1>1, <1>5 DEF Writes, At
  <2>3. \A q \in Procs : Imports(q)'
    <3>1. ~disk.repo
      BY <1>1 DEF IInv, Locks, Imports
    <3> QED BY <1>1, <1>3, <1>4, <1>5, <3>1 DEF Imports, Owns
  <2> QED BY <2>1, <2>2, <2>3 DEF Locks
<1>8. \A d \in Conns : Pending(d)' \in {Pending(d), NoOp}
  BY <1>1, SamePending DEF Conns
<1>9. SStep
  BY <1>1, <1>8, SerialFail
<1>10. \A q \in Procs : opened'[q] # "yes" => moved'[q] = "no"
  BY <1>1 DEF IInv, Lives
<1> QED BY <1>2, <1>6, <1>7, <1>9, <1>10, Assemble

LEMMA BeginSaveStep == ASSUME IInv, NEW t \in Tasks, BeginSave(t) PROVE IInv' /\ SStep
<1>1. /\ call[t] \in CallSet /\ call[t].op.kind = "save" /\ \A f \in Files : call[t].op.rows[f] \in RowSet
      /\ CanBegin(WriteConn(t)) /\ UNCHANGED <<opened, moved, native>>
  BY DEF BeginSave, settings, IInv, Types, Lives, Doing
<1>2. PICK c \in CallSet : c = [call[t] EXCEPT !.at = "writing"]
  BY <1>1 DEF CallSet
<1>3. c.at = "writing" /\ c.op = call[t].op
  BY <1>1, <1>2 DEF CallSet
<1>4. /\ disk' = disk /\ call' \in [Tasks -> CallSet] /\ call'[t] = c
      /\ \A s \in Tasks \ {t} : call'[s] = call[s]
  <2>1. Go(t, c)
    BY <1>2 DEF BeginSave
  <2> QED BY <2>1, GoMoves DEF IInv
<1>5. (\A s \in Tasks : Doing(s)') /\ Loads'
  <2>1. Doing(t)' /\ Pages(t)'
    BY <1>1, <1>3, <1>4 DEF Doing, Pages, At
  <2>2. \A s \in Tasks : Like(call'[s], call[s]) \/ (Doing(s)' /\ Pages(s)')
    BY <1>4, <2>1 DEF Like
  <2> QED BY <2>2, CallsMove DEF IInv
<1>6. PICK k \in Conns, op \in {call[t].op} : k = WriteConn(t) /\ op = call[t].op
  BY SqliteStoreAssumption DEF WriteConn, Here, Conns
<1>7. /\ lock' = k /\ tx' \in [Conns -> TxSet]
      /\ \A d \in Conns \ {k} : tx'[d] = tx[d]
      /\ tx'[k] # NoTx /\ tx'[k].owner = t /\ tx'[k].image \in VersionSet
      /\ tx'[k].image.schema = disk.schema /\ tx'[k].image.repo = disk.repo /\ tx'[k].image.lossy = disk.lossy
      /\ \A f \in Files : tx'[k].image.rows[f] = IF f \in tx'[k].todo THEN Absent ELSE op.rows[f]
  <2>1. Begin(k, t, op, [disk EXCEPT !.rows = NoRows]) /\ CanBegin(k)
    BY <1>6 DEF BeginSave
  <2>2. t \in Conns /\ \A f \in Files : op.rows[f] \in RowSet \cup {Keep}
    BY <1>1, <1>6 DEF Conns
  <2> QED BY <2>1, <2>2, BeginMoves DEF IInv
<1>8. /\ \A d \in Conns : tx[d] = NoTx
      /\ \A s \in Tasks : ~ At(s, "writing")
      /\ \A p \in Procs : moved[p] # "writing"
  BY <1>1, NoWriters DEF IInv, CanBegin
<1>9. Types'
  BY <1>1, <1>4, <1>7 DEF IInv, Types
<1>10. Locks'
  <2>1. \A d \in Conns : Open1(d)'
    BY <1>4, <1>7, <1>8 DEF Open1, Conns
  <2>2. Writes(t)'
    <3>1. WriteConn(t)' = k
      BY <1>1, <1>6 DEF WriteConn
    <3> QED BY <1>3, <1>4, <1>6, <1>7, <3>1 DEF Writes, Owns
  <2>3. \A s \in Tasks \ {t} : Writes(s)'
    BY <1>4, <1>8 DEF Writes, At
  <2>4. \A p \in Procs : Imports(p)'
    BY <1>1, <1>8 DEF Imports
  <2> QED BY <2>1, <2>2, <2>3, <2>4 DEF Locks
<1>11. \A d \in Conns : Pending(d)' \in {Pending(d), NoOp}
  <2>1. \A s \in Tasks : call'[s].op = call[s].op
    BY <1>3, <1>4
  <2> QED BY <1>1, <2>1, SamePending DEF Conns
<1>12. SStep
  BY <1>4, <1>11, SerialFail
<1>13. \A q \in Procs : opened'[q] # "yes" => moved'[q] = "no"
  BY <1>1 DEF IInv, Lives
<1> QED BY <1>5, <1>9, <1>10, <1>12, <1>13, Assemble

LEMMA SaveRowsStep == ASSUME IInv, NEW t \in Tasks, SaveRows(t) PROVE IInv' /\ SStep
<1>1. disk' = disk /\ call' = call /\ UNCHANGED <<opened, moved, native>> /\ At(t, "writing")
  BY DEF SaveRows, WriteRows, settings
<1>2. (\A s \in Tasks : Doing(s)') /\ Loads'
  BY <1>1, CallsStay
<1>3. PICK k \in Conns, rows \in {call[t].op.rows} : k = WriteConn(t) /\ rows = call[t].op.rows
  BY SqliteStoreAssumption DEF WriteConn, Here, Conns
<1>4. /\ lock' = lock /\ tx' \in [Conns -> TxSet]
      /\ \A d \in Conns \ {k} : tx'[d] = tx[d]
      /\ Owns(k, t, rows)' /\ Open1(k)'
  <2>1. Owns(k, t, rows)
    BY <1>1, <1>3 DEF IInv, Locks, Writes
  <2>2. WriteRows(k, rows)
    BY <1>3 DEF SaveRows
  <2>3. \A f \in Files : rows[f] \in RowSet
    BY <1>1, <1>3 DEF IInv, Lives, Doing
  <2> QED BY <2>1, <2>2, <2>3, RowsMove
<1>5. /\ \A c \in Conns \ {k} : tx[c] = NoTx
      /\ \A s \in Tasks \ {t} : ~ At(s, "writing")
      /\ \A p \in Procs : moved[p] # "writing"
  BY <1>1, <1>3, OneSaver DEF IInv
<1>6. Types'
  BY <1>1, <1>4 DEF IInv, Types
<1>7. Locks'
  <2>1. \A c \in Conns : Open1(c)'
    BY <1>4, <1>5 DEF Open1
  <2>2. Writes(t)'
    <3>1. WriteConn(t)' = k /\ call'[t].op.rows = rows
      BY <1>1, <1>3 DEF WriteConn
    <3> QED BY <1>4, <3>1 DEF Writes, Owns
  <2>3. \A s \in Tasks \ {t} : Writes(s)'
    BY <1>1, <1>5 DEF Writes, At
  <2>4. \A q \in Procs : Imports(q)'
    BY <1>1, <1>5 DEF Imports
  <2> QED BY <2>1, <2>2, <2>3, <2>4 DEF Locks
<1>8. \A d \in Conns : Pending(d)' \in {Pending(d), NoOp}
  BY <1>1, SamePending DEF Conns
<1>9. SStep
  BY <1>1, <1>8, SerialFail
<1>10. \A q \in Procs : opened'[q] # "yes" => moved'[q] = "no"
  BY <1>1 DEF IInv, Lives
<1> QED BY <1>2, <1>6, <1>7, <1>9, <1>10, Assemble

LEMMA SaveFailsStep == ASSUME IInv, NEW t \in Tasks, SaveFails(t) PROVE IInv' /\ SStep
<1>1. At(t, "writing") /\ UNCHANGED <<opened, moved, native>>
  BY DEF SaveFails, settings
<1>2. PICK c \in CallSet : c = Idle
  BY IdleCall
<1>3. /\ disk' = disk /\ call' \in [Tasks -> CallSet] /\ call'[t] = Idle
      /\ \A s \in Tasks \ {t} : call'[s] = call[s]
  <2>1. Go(t, c)
    BY <1>2 DEF SaveFails, Return
  <2> QED BY <1>2, <2>1, GoMoves DEF IInv
<1>4. (\A s \in Tasks : Doing(s)') /\ Loads'
  <2>1. \A s \in Tasks : Like(call'[s], call[s]) \/ call'[s] = Idle
    BY <1>3 DEF Like
  <2> QED BY <2>1, CallsMove DEF IInv
<1>5. PICK k \in Conns : k = WriteConn(t)
  BY SqliteStoreAssumption DEF WriteConn, Here, Conns
<1>6. /\ \A d \in Conns \ {k} : tx[d] = NoTx
      /\ \A s \in Tasks \ {t} : ~ At(s, "writing")
      /\ \A p \in Procs : moved[p] # "writing"
  BY <1>1, <1>5, OneSaver DEF IInv
<1>7. lock' = None /\ tx' \in [Conns -> TxSet] /\ \A d \in Conns : tx'[d] = NoTx
  <2>1. End(k)
    BY <1>5 DEF SaveFails
  <2> QED BY <1>6, <2>1, EndMoves DEF IInv
<1>8. Types'
  BY <1>1, <1>3, <1>7 DEF IInv, Types
<1>9. Locks'
  <2>1. \A s \in Tasks : ~ At(s, "writing")'
    BY <1>3, <1>6, IdleCall DEF At
  <2> QED BY <1>1, <1>6, <1>7, <2>1, LocksFree
<1>10. \A d \in Conns : Pending(d)' \in {Pending(d), NoOp}
  <2>1. Pending(t)' = NoOp
    BY <1>3, IdleCall DEF Pending
  <2> QED BY <1>1, <1>3, <2>1, SamePending DEF Conns
<1>11. SStep
  BY <1>3, <1>10, SerialFail
<1>12. \A q \in Procs : opened'[q] # "yes" => moved'[q] = "no"
  BY <1>1 DEF IInv, Lives
<1> QED BY <1>4, <1>8, <1>9, <1>11, <1>12, Assemble

\* What a commit makes of the image, and what the operation makes of a revision.
Marked(v, d) == [v EXCEPT !.repo = TRUE, !.lossy = @ /\ ~d]
Saved(v, rows, d) == [v EXCEPT !.repo = TRUE, !.rows = rows, !.lossy = @ /\ ~d]
Exists(v) == [v EXCEPT !.repo = TRUE]
Imported(v, rows) == [v EXCEPT !.repo = TRUE, !.rows = rows]

LEMMA MarkedIsVersion ==
    ASSUME NEW v \in VersionSet, NEW d \in BOOLEAN
    PROVE Marked(v, d) \in VersionSet /\ Exists(v) \in VersionSet
  BY DEF VersionSet, Marked, Exists

\* A save and an import have done their all when every row is in place.
LEMMA AllInPlace ==
    ASSUME NEW v \in VersionSet, NEW w \in VersionSet, NEW rows \in [Files -> RowSet], NEW d \in BOOLEAN,
           w.schema = v.schema, w.repo = v.repo, w.lossy = v.lossy, \A f \in Files : w.rows[f] = rows[f]
    PROVE Marked(w, d) = Saved(v, rows, d) /\ Exists(w) = Imported(v, rows)
<1>1. w.rows = rows
  BY DEF VersionSet
<1>2. w = [v EXCEPT !.rows = rows]
  BY <1>1 DEF VersionSet
<1> QED BY <1>2 DEF VersionSet, Marked, Saved, Exists, Imported

LEMMA Returned ==
    ASSUME IInv, NEW t \in Tasks
    PROVE [call EXCEPT ![t] = Idle] \in [Tasks -> CallSet]
  BY IdleCall DEF IInv, Types

LEMMA CommitSaveStep == ASSUME IInv, NEW t \in Tasks, CommitSave(t) PROVE IInv' /\ SStep
<1>1. At(t, "writing") /\ UNCHANGED <<opened, moved, native>>
  BY DEF CommitSave, settings
<1>2. PICK k \in Conns, op \in OpSet : k = WriteConn(t) /\ op = call[t].op
  BY SqliteStoreAssumption DEF WriteConn, Here, Conns, IInv, Types, CallSet
<1>3. op.kind = "save" /\ (\A f \in Files : op.rows[f] \in RowSet) /\ op.complete \in BOOLEAN
  BY <1>1, <1>2 DEF IInv, Lives, Doing, OpSet
<1>4. /\ tx[k].image \in VersionSet
      /\ tx[k].image.schema = disk.schema /\ tx[k].image.repo = disk.repo /\ tx[k].image.lossy = disk.lossy
      /\ \A f \in Files : tx[k].image.rows[f] = op.rows[f]
  <2>1. PICK rows : rows = op.rows
    OBVIOUS
  <2>2. Owns(k, t, rows) /\ tx[k].todo = {}
    BY <1>1, <1>2, <2>1 DEF IInv, Locks, Writes, CommitSave
  <2> QED BY <2>1, <2>2, WholeImage
<1>5. disk \in VersionSet
  BY DEF IInv, Types
<1>6. PICK rows \in [Files -> RowSet], whole \in BOOLEAN : rows = op.rows /\ whole = op.complete
  BY <1>3 DEF OpSet
<1>7. PICK v \in VersionSet : v = [tx[k].image EXCEPT !.repo = TRUE, !.lossy = @ /\ ~op.complete] /\ v = Effect(op, disk)
  <2>1. PICK w \in VersionSet, u \in VersionSet : w = tx[k].image /\ u = disk
    BY <1>4, <1>5
  <2>2. w.schema = u.schema /\ w.repo = u.repo /\ w.lossy = u.lossy /\ \A f \in Files : w.rows[f] = rows[f]
    BY <1>4, <1>6, <2>1
  <2>3. Marked(w, whole) = Saved(u, rows, whole) /\ Marked(w, whole) \in VersionSet
    BY <2>2, AllInPlace, MarkedIsVersion
  <2>4. Effect(op, disk) = Saved(u, rows, whole)
    BY <1>3, <1>6, <2>1 DEF Effect, Saved
  <2>5. Marked(w, whole) = [tx[k].image EXCEPT !.repo = TRUE, !.lossy = @ /\ ~op.complete]
    BY <1>6, <2>1 DEF Marked
  <2> QED BY <2>3, <2>4, <2>5
<1>8. PICK new \in [Tasks -> CallSet] : new = [call EXCEPT ![t] = Idle]
  BY Returned
<1>9. disk' = v /\ call' \in [Tasks -> CallSet] /\ \A s \in Tasks : Like(call'[s], new[s])
  <2>1. Reach(v, new)
    BY <1>2, <1>7, <1>8 DEF CommitSave
  <2> QED BY <2>1, ReachMoves
<1>10. /\ call'[t].at = "idle" /\ call'[t].op = NoOp
       /\ \A s \in Tasks \ {t} : Like(call'[s], call[s])
  <2>1. new[t] = Idle /\ \A s \in Tasks \ {t} : new[s] = call[s]
    BY <1>8 DEF IInv, Types
  <2> QED BY <1>9, <2>1, IdleCall DEF Like
<1>11. (\A s \in Tasks : Doing(s)') /\ Loads'
  <2>1. Doing(t)' /\ Pages(t)'
    BY <1>10, IdleCall DEF Doing, Pages, At
  <2> QED BY <1>10, <2>1, CallsMove DEF IInv
<1>12. /\ \A d \in Conns \ {k} : tx[d] = NoTx
       /\ \A s \in Tasks \ {t} : ~ At(s, "writing")
       /\ \A p \in Procs : moved[p] # "writing"
  BY <1>1, <1>2, OneSaver DEF IInv
<1>13. lock' = None /\ tx' \in [Conns -> TxSet] /\ \A d \in Conns : tx'[d] = NoTx
  <2>1. End(k)
    BY <1>2 DEF CommitSave
  <2> QED BY <1>12, <2>1, EndMoves DEF IInv
<1>14. Types'
  BY <1>1, <1>9, <1>13 DEF IInv, Types
<1>15. Locks'
  <2>1. \A s \in Tasks : ~ At(s, "writing")'
    BY <1>10, <1>12 DEF At, Like
  <2> QED BY <1>1, <1>12, <1>13, <2>1, LocksFree
<1>16. SStep
  <2>1. Pending(t) = op /\ Pending(t)' = NoOp /\ op # NoOp
    BY <1>2, <1>3, <1>10 DEF Pending, NoOp
  <2>2. \A d \in Conns \ {t} : Pending(d)' = Pending(d)
    BY <1>1, <1>10, SamePending DEF Conns, Like
  <2>3. disk' = Effect(Pending(t), disk)
    BY <1>7, <1>9, <2>1
  <2> QED BY <2>1, <2>2, <2>3, SerialSucceed DEF Conns
<1>17. \A q \in Procs : opened'[q] # "yes" => moved'[q] = "no"
  BY <1>1 DEF IInv, Lives
<1> QED BY <1>11, <1>14, <1>15, <1>16, <1>17, Assemble

LEMMA CommitImportStep == ASSUME IInv, NEW p \in Procs, CommitImport(p) PROVE IInv' /\ SStep
<1>1. moved[p] = "writing" /\ UNCHANGED <<opened, native>> /\ opened[p] = "yes"
  BY DEF CommitImport, settings, IInv, Lives
<1>2. /\ \A q \in Procs \ {p} : moved'[q] = moved[q]
      /\ moved' \in [Procs -> {"no", "read", "writing", "yes"}] /\ moved'[p] = "yes"
  BY DEF CommitImport, IInv, Types
<1>3. ~disk.repo
  BY <1>1 DEF IInv, Locks, Imports
<1>4. /\ tx[p].image \in VersionSet
      /\ tx[p].image.schema = disk.schema /\ tx[p].image.repo = disk.repo /\ tx[p].image.lossy = disk.lossy
      /\ \A f \in Files : tx[p].image.rows[f] = ImportOp.rows[f]
  <2>1. PICK rows : rows = ImportOp.rows
    OBVIOUS
  <2>2. Owns(p, p, rows) /\ tx[p].todo = {}
    BY <1>1, <2>1 DEF IInv, Locks, Imports, CommitImport
  <2> QED BY <2>1, <2>2, Apart, WholeImage
<1>5. disk \in VersionSet
  BY DEF IInv, Types
<1>6. PICK rows \in [Files -> RowSet] : rows = ImportOp.rows
  <2>1. ImportOp.rows \in [Files -> RowSet]
    BY DEF ImportOp, RowSet
  <2> QED BY <2>1
<1>7. PICK v \in VersionSet : v = [tx[p].image EXCEPT !.repo = TRUE] /\ v = Effect(ImportOp, disk)
  <2>1. PICK w \in VersionSet, u \in VersionSet : w = tx[p].image /\ u = disk
    BY <1>4, <1>5
  <2>2. w.schema = u.schema /\ w.repo = u.repo /\ w.lossy = u.lossy /\ \A f \in Files : w.rows[f] = rows[f]
    BY <1>4, <1>6, <2>1
  <2>3. Exists(w) = Imported(u, rows) /\ Exists(w) \in VersionSet
    BY <2>2, AllInPlace, MarkedIsVersion
  <2>4. Effect(ImportOp, disk) = Imported(u, rows)
    BY <1>3, <1>6, <2>1, ImportRowsAre DEF Effect, Imported
  <2>5. Exists(w) = [tx[p].image EXCEPT !.repo = TRUE]
    BY <2>1 DEF Exists
  <2> QED BY <2>3, <2>4, <2>5
<1>8. PICK new \in [Tasks -> CallSet] : new = call
  BY DEF IInv, Types
<1>9. disk' = v /\ call' \in [Tasks -> CallSet] /\ \A s \in Tasks : Like(call'[s], call[s])
  <2>1. Reach(v, new)
    BY <1>7, <1>8 DEF CommitImport
  <2> QED BY <1>8, <2>1, ReachMoves
<1>10. (\A s \in Tasks : Doing(s)') /\ Loads'
  BY <1>9, CallsMove DEF IInv
<1>11. /\ \A c \in Conns \ {p} : tx[c] = NoTx
       /\ \A s \in Tasks : ~ At(s, "writing")
       /\ \A q \in Procs \ {p} : moved[q] # "writing"
  BY <1>1, OneImporter DEF IInv
<1>12. lock' = None /\ tx' \in [Conns -> TxSet] /\ \A d \in Conns : tx'[d] = NoTx
  <2>1. End(p)
    BY DEF CommitImport
  <2> QED BY <1>11, <2>1, Apart, EndMoves DEF IInv
<1>13. Types'
  BY <1>1, <1>2, <1>9, <1>12 DEF IInv, Types
<1>14. Locks'
  <2>1. \A s \in Tasks : ~ At(s, "writing")'
    BY <1>9, <1>11 DEF At, Like
  <2> QED BY <1>2, <1>11, <1>12, <2>1, LocksFree
<1>15. SStep
  <2>1. Pending(p) = ImportOp /\ Pending(p)' = NoOp /\ ImportOp # NoOp
    BY <1>1, <1>2, Apart, ImportRowsAre DEF Pending
  <2>2. \A d \in Conns \ {p} : Pending(d)' = Pending(d)
    BY <1>1, <1>2, <1>9, SamePending DEF Conns, Like
  <2>3. disk' = Effect(Pending(p), disk)
    BY <1>7, <1>9, <2>1
  <2> QED BY <2>1, <2>2, <2>3, Apart, SerialSucceed
<1>16. \A q \in Procs : opened'[q] # "yes" => moved'[q] = "no"
  BY <1>1, <1>2 DEF IInv, Lives
<1> QED BY <1>10, <1>13, <1>14, <1>15, <1>16, Assemble

LEMMA DeltaStep == ASSUME IInv, NEW t \in Tasks, Delta(t) PROVE IInv' /\ SStep
<1>1. /\ UNCHANGED <<opened, moved, native, tx, lock>> /\ At(t, "waiting")
      /\ Populated(Here(t)) => CanBegin(Here(t))
  BY DEF Delta, Waiting, settings
<1>2. PICK op \in OpSet : op = call[t].op /\ op.kind = "delta" /\ op # NoOp
  BY DEF Delta, IInv, Types, CallSet, NoOp
<1>3. disk \in VersionSet /\ Locks
  BY DEF IInv, Types
<1>4. PICK v \in VersionSet : v = Effect(op, disk)
  <2>1. CASE disk.repo
    <3>1. [f \in Files |-> IF op.rows[f] = Keep THEN disk.rows[f] ELSE op.rows[f]] \in [Files -> RowSet]
      BY <1>3 DEF OpSet, VersionSet
    <3>2. Effect(op, disk) = [disk EXCEPT !.rows = [f \in Files |-> IF op.rows[f] = Keep THEN disk.rows[f] ELSE op.rows[f]]]
      BY <1>2, <2>1 DEF Effect
    <3>3. Effect(op, disk) \in VersionSet
      BY <1>3, <3>1, <3>2 DEF VersionSet
    <3> QED BY <3>3
  <2>2. CASE ~disk.repo
    BY <1>2, <1>3, <2>2 DEF Effect
  <2> QED BY <2>1, <2>2
<1>5. PICK new \in [Tasks -> CallSet] : new = [call EXCEPT ![t] = Idle]
  BY Returned
<1>6. disk' = v /\ call' \in [Tasks -> CallSet] /\ \A s \in Tasks : Like(call'[s], new[s])
  <2>1. Reach(v, new)
    BY <1>2, <1>4, <1>5 DEF Delta
  <2> QED BY <2>1, ReachMoves
<1>7. /\ call'[t].at = "idle" /\ call'[t].op = NoOp
      /\ \A s \in Tasks \ {t} : Like(call'[s], call[s])
  <2>1. new[t] = Idle /\ \A s \in Tasks \ {t} : new[s] = call[s]
    BY <1>5 DEF IInv, Types
  <2> QED BY <1>6, <2>1, IdleCall DEF Like
<1>8. (\A s \in Tasks : Doing(s)') /\ Loads'
  <2>1. Doing(t)' /\ Pages(t)'
    BY <1>7, IdleCall DEF Doing, Pages, At
  <2> QED BY <1>7, <2>1, CallsMove DEF IInv
<1>9. Types'
  BY <1>1, <1>6 DEF IInv, Types
<1>10. \A s \in Tasks : At(s, "writing")' => At(s, "writing") /\ call'[s].op = call[s].op
  BY <1>7 DEF At, Like
<1>11. Locks'
  <2>1. CASE Populated(Here(t))
    <3>1. lock = None
      BY <1>1, <2>1 DEF CanBegin
    <3>2. /\ \A c \in Conns : tx[c] = NoTx
          /\ \A s \in Tasks : ~ At(s, "writing")
          /\ \A p \in Procs : moved[p] # "writing"
      BY <1>3, <3>1, NoWriters
    <3> QED BY <1>1, <1>10, <3>2, LocksFree
  <2>2. CASE ~Populated(Here(t))
    <3>1. PICK c \in Conns : c = Here(t)
      BY SqliteStoreAssumption DEF Here, Conns
    <3>2. ~disk.repo
      BY <1>3, <2>2, <3>1 DEF Populated, Image, Locks, Open1
    <3>3. disk' = disk
      BY <1>2, <1>4, <1>6, <3>2 DEF Effect
    <3> QED BY <1>1, <1>3, <1>10, <3>3, LocksKept
  <2> QED BY <2>1, <2>2
<1>12. SStep
  <2>1. Pending(t) = op /\ Pending(t)' = NoOp
    BY <1>2, <1>7 DEF Pending, NoOp
  <2>2. \A d \in Conns \ {t} : Pending(d)' = Pending(d)
    BY <1>1, <1>7, SamePending DEF Conns, Like
  <2>3. disk' = Effect(Pending(t), disk)
    BY <1>4, <1>6, <2>1
  <2> QED BY <1>2, <2>1, <2>2, <2>3, SerialSucceed DEF Conns
<1>13. \A q \in Procs : opened'[q] # "yes" => moved'[q] = "no"
  BY <1>1 DEF IInv, Lives
<1> QED BY <1>8, <1>9, <1>11, <1>12, <1>13, Assemble

LEMMA CrashStep == ASSUME IInv, NEW p \in Procs, Crash(p) PROVE IInv' /\ SStep
<1>1. PICK ts : ts = Of(p)
  OBVIOUS
<1>2. /\ disk' = disk /\ call' \in [Tasks -> CallSet]
      /\ \A s \in Tasks : call'[s] = IF Here(s) = p THEN Idle ELSE call[s]
  <2>1. Drop(ts)
    BY <1>1 DEF Crash
  <2>2. \A s \in Tasks : s \in ts <=> Here(s) = p
    BY <1>1 DEF Of, Here
  <2> QED BY <2>1, <2>2, DropMoves DEF IInv
<1>3. (\A t \in Tasks : Doing(t)') /\ Loads'
  <2>1. \A t \in Tasks : Like(call'[t], call[t]) \/ call'[t] = Idle
    BY <1>2 DEF Like
  <2> QED BY <2>1, CallsMove DEF IInv
<1>4. /\ native' = native
      /\ \A q \in Procs \ {p} : opened'[q] = opened[q] /\ moved'[q] = moved[q]
      /\ opened' \in [Procs -> {"no", "old", "yes"}] /\ moved' \in [Procs -> {"no", "read", "writing", "yes"}]
      /\ opened'[p] = "no" /\ moved'[p] = "no"
  BY DEF Crash, settings, IInv, Types
\* The connections of the process, and of the native writes of its calls.
<1>5. \A c \in Conns : tx'[c] = IF c = p \/ (c \in Tasks /\ ProcOf[c] = p) THEN NoTx ELSE tx[c]
  BY DEF Crash
<1>6. Types'
  <2>1. tx' \in [Conns -> TxSet]
    BY <1>5, TxTypes DEF Crash, IInv, Types
  <2>2. lock' \in Conns \cup {None}
    BY DEF Crash, IInv, Types
  <2> QED BY <1>2, <1>4, <2>1, <2>2 DEF IInv, Types
<1>7. Locks'
  <2>1. ASSUME NEW c \in Conns, tx'[c] # NoTx PROVE tx'[c] = tx[c] /\ lock' = c
    <3>1. tx'[c] = tx[c] /\ c # p /\ c \notin Of(p)
      BY <1>5, <2>1 DEF Of
    <3>2. lock = c
      BY <2>1, <3>1 DEF IInv, Locks, Open1
    <3> QED BY <3>1, <3>2 DEF Crash
  <2>2. \A c \in Conns : Open1(c)'
    BY <1>2, <2>1 DEF IInv, Locks, Open1
  <2>3. \A t \in Tasks : Writes(t)'
    <3>1. SUFFICES ASSUME NEW t \in Tasks, At(t, "writing")' PROVE Owns(WriteConn(t), t, call[t].op.rows)'
      BY DEF Writes
    <3>3. Here(t) # p /\ call'[t] = call[t] /\ At(t, "writing")
      BY <1>2, <3>1, IdleCall DEF At
    <3>4. WriteConn(t) \in Conns /\ WriteConn(t) # p /\ (WriteConn(t) \in Tasks => ProcOf[WriteConn(t)] # p)
      BY <3>3, SqliteStoreAssumption DEF WriteConn, Here, Conns
    <3>5. tx'[WriteConn(t)] = tx[WriteConn(t)] /\ WriteConn(t)' = WriteConn(t)
      BY <1>4, <1>5, <3>4 DEF WriteConn
    <3> QED BY <3>3, <3>5 DEF IInv, Locks, Writes, Owns
  <2>4. \A q \in Procs : Imports(q)'
    <3>1. SUFFICES ASSUME NEW q \in Procs, moved'[q] = "writing" PROVE (Owns(q, q, ImportOp.rows) /\ ~disk.repo)'
      BY DEF Imports
    <3>3. q # p /\ moved[q] = "writing"
      BY <1>4, <3>1
    <3>4. tx'[q] = tx[q]
      BY <1>5, <3>3, Apart
    <3> QED BY <1>2, <3>3, <3>4 DEF IInv, Locks, Imports, Owns
  <2> QED BY <2>2, <2>3, <2>4 DEF Locks
<1>8. \A q \in Procs : opened'[q] # "yes" => moved'[q] = "no"
  BY <1>4 DEF IInv, Lives
<1>9. \A d \in Conns : Pending(d)' \in {Pending(d), NoOp}
  <2>1. \A t \in Tasks : Pending(t)' \in {Pending(t), NoOp}
    BY <1>2, SamePending, IdleCall DEF Pending
  <2>2. Pending(p)' = NoOp
    BY <1>4, Apart DEF Pending
  <2>3. \A q \in Procs \ {p} : Pending(q)' = Pending(q)
    BY <1>4, SamePending
  <2> QED BY <2>1, <2>2, <2>3 DEF Conns
<1>10. SStep
  BY <1>2, <1>9, SerialFail
<1> QED BY <1>3, <1>6, <1>7, <1>8, <1>10, Assemble

-----------------------------------------------------------------------------
LEMMA Inductive == IInv /\ [Next]_vars => IInv' /\ SStep
<1> SUFFICES ASSUME IInv, [Next]_vars PROVE IInv' /\ SStep
  OBVIOUS
<1>1. CASE UNCHANGED vars
  <2>1. (\A t \in Tasks : Doing(t)') /\ Loads'
    BY <1>1, CallsStay DEF vars
  <2>2. Types' /\ \A q \in Procs : opened'[q] # "yes" => moved'[q] = "no"
    BY <1>1 DEF vars, settings, IInv, Types, Lives
  <2>3. Locks'
    BY <1>1, LocksKept DEF vars, IInv, At
  <2>4. SStep
    BY <1>1, SamePending, SerialFail DEF vars, Conns
  <2> QED BY <2>1, <2>2, <2>3, <2>4, Assemble
<1>2. ASSUME NEW p \in Procs, ProcStep(p) \/ MigrateFails(p) \/ Crash(p) PROVE IInv' /\ SStep
  BY <1>2, OpenStep, MigrateStep, StartMoveStep, ImportStep, ImportRowsStep, CommitImportStep,
     MoveFailsStep, MigrateFailsStep, CrashStep DEF ProcStep
<1>3. ASSUME NEW t \in Tasks, TaskStep(t) PROVE IInv' /\ SStep
  BY <1>3, BeginSaveStep, SaveRowsStep, CommitSaveStep, RefusedStep, DeltaStep, SnapshotStep,
     ReadPageStep, LoadedStep DEF TaskStep
<1>4. ASSUME NEW t \in Tasks, AskSave(t) \/ AskDelta(t) \/ AskLoad(t) \/ SaveFails(t) PROVE IInv' /\ SStep
  BY <1>4, AskSaveStep, AskDeltaStep, AskLoadStep, SaveFailsStep
<1> QED BY <1>1, <1>2, <1>3, <1>4 DEF Next

\* Whatever is committed while loadIndexSqlite reads the pages of an index, what it
\* returns is one revision that was committed meanwhile (storage/sqlite/index-io.ts).
THEOREM LoadsAreOneRevision == Spec => []LoadIsOneRevision
<1>1. IInv => LoadIsOneRevision
  <2> SUFFICES ASSUME IInv, NEW t \in Tasks, At(t, "paging")
               PROVE \E v \in call[t].seen : \A f \in Paged(t) : call[t].got[f] = v.rows[f]
    BY DEF LoadIsOneRevision
  <2>1. call[t].snap \in call[t].seen /\ \A f \in Files : call[t].got[f] \in {Absent, call[t].snap.rows[f]}
    BY DEF IInv, Loads, Pages
  <2>2. \A f \in Paged(t) : call[t].got[f] = call[t].snap.rows[f]
    BY <2>1 DEF Paged
  <2> QED BY <2>1, <2>2
<1> QED BY <1>1, InitIInv, Inductive, PTL DEF Spec

\* The connection that is shared, the transactions left open across turns of the event
\* loop, the native writer and the ends of processes implement a store where every write
\* takes effect at once or not at all (storage/sqlite/index-io.ts, accessors.ts,
\* connection.ts, migrate.ts).
THEOREM StoreIsSerial == Spec => WritesAreSerial
<1>1. Init => Serial!Init
  BY InitSerial
<1>2. IInv /\ [Next]_vars => [Serial!Next]_<<disk, [c \in Conns |-> Pending(c)]>>
  BY Inductive DEF SStep
<1> QED BY <1>1, <1>2, InitIInv, Inductive, PTL DEF Spec, WritesAreSerial, Serial!Spec

=============================================================================
