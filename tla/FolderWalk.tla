----------------------------- MODULE FolderWalk -----------------------------
(***************************************************************************)
(* index_folder at work (indexFolderImpl, folder-indexer.ts, with          *)
(* folder-merge.ts, snapshots.ts and parse.ts): which rows a walk keeps,   *)
(* which it parses, and what it stores.  It decides by the mtime in the    *)
(* row, then by the hash in a snapshot kept beside the index, while files  *)
(* are edited and other writers commit.                                    *)
(*                                                                         *)
(* A row is kept and parsed file by file; a commit is one step (the        *)
(* database is SqliteStore's).  A `stale` row is parsed again whatever its *)
(* mtime says: any file may be one.                                        *)
(***************************************************************************)
EXTENDS Naturals, FiniteSets

CONSTANTS
    Files, Contents,
    None,        \* no file, no row, no hash, nothing read
    Walks,       \* the calls of index_folder that may overlap
    MinGuard,    \* MIN_GUARD_FILES
    MaxTime,     \* bound on edits and commits: each takes a tick of the clock
    MaxMishaps   \* bound on failures

ASSUME FolderWalkAssumption ==
    /\ None \notin Contents \cup [content : Contents, mtime : Nat]
    /\ MinGuard \in Nat /\ MaxTime \in Nat /\ MaxMishaps \in Nat

VARIABLES
    tree,       \* the files: content and mtime
    index,      \* updated_at and the rows: the content parsed, and mtime_ms
    snapshot,   \* created_at, and the hash of each file (its content, here)
    walk,       \* per call of index_folder
    edit,       \* an index_file in flight: its file and the mtime it read
    other,      \* the snapshot a walk of another process has yet to save
    clock, mishaps

vars == <<tree, index, snapshot, walk, edit, other, clock, mishaps>>

NoRows == [f \in Files |-> None]
Idle == [at |-> "idle", old |-> [time |-> 0, rows |-> NoRows], shas |-> NoRows,
         scope |-> Files, capped |-> FALSE, step |-> [f \in Files |-> "out"],
         mtime |-> [f \in Files |-> 0], rows |-> NoRows, sha |-> NoRows, lone |-> FALSE]

Init ==
    /\ tree \in [Files -> {[content |-> c, mtime |-> 1] : c \in Contents} \cup {None}]
    /\ index \in {[time |-> 0, rows |-> NoRows], [time |-> 1, rows |-> tree]}
    /\ snapshot = [time |-> 0, shas |-> NoRows]
    /\ walk = [w \in Walks |-> Idle]
    /\ edit = None /\ other = None
    /\ clock = 1 /\ mishaps = 0

Known(rows) == {f \in Files : rows[f] # None}
At(w, s) == walk[w].at = s
In(w, s) == {f \in Files : walk[w].step[f] = s}
Tick == clock < MaxTime /\ clock' = clock + 1
Mishap == mishaps < MaxMishaps /\ mishaps' = mishaps + 1
Mtime(f) == IF tree[f] = None THEN 0 ELSE tree[f].mtime
Row(c, m) == [content |-> c, mtime |-> m]
\* For WalkIsRight: what disturbs a walk.
Disturb == walk' = [w \in Walks |-> [walk[w] EXCEPT !.lone = FALSE]]

-----------------------------------------------------------------------------
(* The editor, and one file at a time *)

Edit(f) ==
    /\ Tick
    /\ \E c \in Contents \cup {None} :
         tree' = [tree EXCEPT ![f] = IF c = None THEN None ELSE Row(c, clock')]
    /\ tree' # tree
    /\ Disturb
    /\ UNCHANGED <<index, snapshot, edit, other, mishaps>>

\* index_file and the watcher: stat, then read and commit (saveIncremental).
EditStat(f) ==
    /\ edit = None /\ tree[f] # None /\ index.time # 0
    /\ edit' = [file |-> f, mtime |-> Mtime(f)]
    /\ UNCHANGED <<tree, index, snapshot, walk, other, clock, mishaps>>
EditSave ==
    /\ edit # None /\ edit' = None
    /\ IF tree[edit.file] = None THEN UNCHANGED <<index, walk, clock>>
       ELSE /\ Tick /\ Disturb
            /\ index' = [time |-> clock', rows |-> [index.rows EXCEPT ![edit.file] =
                                                      Row(tree[edit.file].content, edit.mtime)]]
    /\ UNCHANGED <<tree, snapshot, other, mishaps>>

\* A walk of another process (the CLI, an index child) that parsed every file in one
\* moment; its snapshot follows, or never does.
OtherSave ==
    /\ Tick /\ Disturb
    /\ index' = [time |-> clock', rows |-> tree]
    /\ other' = [time |-> clock', shas |-> [f \in Files |-> IF tree[f] = None THEN None ELSE tree[f].content]]
    /\ UNCHANGED <<tree, snapshot, edit, mishaps>>
OtherSnapshot ==
    /\ other # None /\ snapshot' = other /\ other' = None
    /\ UNCHANGED <<tree, index, walk, edit, clock, mishaps>>

-----------------------------------------------------------------------------
(* A walk *)

\* walkDirectory, loadIndex and loadIndexSnapshot: the files found (max_files may cut
\* the list, and a failing directory may hide some), the index and, if it is its own,
\* the snapshot.  Without an index every file is parsed.
Present(fs) == {f \in fs : tree[f] # None}
Begin(w) ==
    /\ At(w, "idle")
    /\ \E scope \in SUBSET Files \ {{}}, capped \in BOOLEAN, found \in SUBSET Files :
         /\ found \subseteq Present(scope)
         /\ capped => scope = Files   \* a walk cut short is treated alike whatever its scope
         /\ IF capped \/ found = Present(scope) THEN UNCHANGED mishaps ELSE Mishap
         /\ walk' = [walk EXCEPT ![w] = [Idle EXCEPT
              !.at = "walk", !.old = index, !.scope = scope, !.capped = capped,
              !.shas = IF snapshot.time = index.time THEN snapshot.shas ELSE NoRows,
              !.step = [f \in Files |-> IF f \notin found THEN "out"
                                        ELSE IF index.rows[f] = None THEN "parse" ELSE "decide"],
              !.lone = capped \/ found = Present(scope)]]
    /\ UNCHANGED <<tree, index, snapshot, edit, other, clock>>

Step(w, f, new) ==
    /\ walk' = [walk EXCEPT ![w] = [new EXCEPT !.step = [walk[w].step EXCEPT ![f] = new.step]]]
    /\ UNCHANGED <<tree, index, snapshot, edit, other, clock>>
\* `next`, and what else is known of f from here on.
Keep(w, f, next, m, sha) ==
    Step(w, f, [walk[w] EXCEPT !.step = next, !.mtime[f] = m, !.sha[f] = sha,
                               !.rows[f] = Row(walk[w].old.rows[f].content, m)])

\* The reuse loop: the same mtime keeps the row; another one asks the hash.
Decide(w, f) ==
    LET old == walk[w].old.rows[f] sha == walk[w].shas[f] IN
    /\ walk[w].step[f] = "decide" /\ In(w, "hash") = {}
    /\ \/ Mtime(f) = old.mtime /\ Keep(w, f, IF sha = None THEN "queued" ELSE "kept", Mtime(f), sha)
       \/ /\ Mtime(f) \notin {0, old.mtime} /\ sha # None
          /\ Step(w, f, [walk[w] EXCEPT !.step = "hash", !.mtime[f] = Mtime(f)])
       \/ Step(w, f, [walk[w] EXCEPT !.step = "parse"])
    /\ UNCHANGED mishaps
\* sha1OfFile: the same content under a new mtime keeps the row, with that mtime.
Hash(w, f) ==
    /\ walk[w].step[f] = "hash"
    /\ IF tree[f] # None /\ tree[f].content = walk[w].shas[f]
       THEN Keep(w, f, "kept", walk[w].mtime[f], walk[w].shas[f])
       ELSE Step(w, f, [walk[w] EXCEPT !.step = "parse"])
    /\ UNCHANGED mishaps

\* drainLegacyHashQueue: hash what was kept without one, and look at the mtime again.
Drain(w, f) ==
    /\ walk[w].step[f] = "queued" /\ In(w, "decide") \cup In(w, "hash") = {}
    /\ Step(w, f, [walk[w] EXCEPT !.step = "drained", !.sha[f] = IF tree[f] = None THEN None ELSE tree[f].content])
    /\ UNCHANGED mishaps
\* Variant: the mtime is not looked at again.
DrainUnchecked(w, f) == walk[w].step[f] = "drained" /\ Step(w, f, [walk[w] EXCEPT !.step = "kept"]) /\ UNCHANGED mishaps
DrainCheck(w, f) ==
    /\ walk[w].step[f] = "drained"
    /\ Step(w, f, [walk[w] EXCEPT !.step = "kept",
                     !.sha[f] = IF Mtime(f) = walk[w].mtime[f] THEN walk[w].sha[f] ELSE None])
    /\ UNCHANGED mishaps

\* parseOneFile: stat, then read.  The hash is of what was read.
ParseStat(w, f) ==
    /\ walk[w].step[f] = "parse" /\ In(w, "decide") \cup In(w, "hash") \cup In(w, "queued") \cup In(w, "drained") = {}
    /\ Step(w, f, [walk[w] EXCEPT !.step = IF tree[f] = None THEN "failed" ELSE "read", !.mtime[f] = Mtime(f)])
    /\ UNCHANGED mishaps
ParseRead(w, f) ==
    /\ walk[w].step[f] = "read"
    /\ IF tree[f] = None THEN Step(w, f, [walk[w] EXCEPT !.step = "failed"])
       ELSE Step(w, f, [walk[w] EXCEPT !.step = "parsed", !.sha[f] = tree[f].content,
                                       !.rows[f] = Row(tree[f].content, walk[w].mtime[f])])
    /\ UNCHANGED mishaps
\* Variant: a file that cannot be parsed keeps its old row, with the mtime just read.
ParseFailsKept(w, f) ==
    /\ walk[w].step[f] \in {"parse", "read"} /\ Mishap
    /\ IF walk[w].old.rows[f] # None /\ tree[f] # None THEN Keep(w, f, "kept", Mtime(f), None)
       ELSE Step(w, f, [walk[w] EXCEPT !.step = "failed", !.lone = FALSE])
ParseFails(w, f) ==
    /\ walk[w].step[f] \in {"parse", "read"} /\ Mishap
    /\ Step(w, f, [walk[w] EXCEPT !.step = "failed", !.lone = FALSE])

-----------------------------------------------------------------------------
(* The guard, the merge and the commit *)

Walked(w) == In(w, "kept") \cup In(w, "parsed")
Settled(w) == At(w, "walk") /\ \A f \in Files : walk[w].step[f] \in {"out", "kept", "parsed", "failed"}
Scoped(w) == walk[w].scope # Files
\* What a walk of this kind should find of the old rows.
Expected(w) == Known(walk[w].old.rows) \cap walk[w].scope
\* isExistingIndexStale, and its like for a scope: half of what is missed is gone.
MostGone(w) == 2 * Cardinality({f \in Expected(w) : tree[f] = None}) >= Cardinality(Expected(w))
Truncated(w) ==
    /\ ~walk[w].capped
    /\ Cardinality(Expected(w)) > MinGuard
    /\ 2 * Cardinality(Walked(w)) < Cardinality(Expected(w))
    /\ ~MostGone(w)
Reject(w) ==
    /\ Settled(w) /\ Truncated(w)
    /\ walk' = [walk EXCEPT ![w] = Idle]
    /\ UNCHANGED <<tree, index, snapshot, edit, other, clock, mishaps>>

\* Variant: rows of the scope that the walk did not find stay.
PreservedAll(w) == Known(walk[w].old.rows) \ Walked(w)
\* The old rows a walk says nothing about: all it did not find, if it was cut short;
\* those outside its scope otherwise.
Preserved(w) == (Known(walk[w].old.rows) \ Walked(w)) \ (IF walk[w].capped THEN {} ELSE walk[w].scope)
Merge(w, found, old) == [f \in Files |-> IF f \in Walked(w) THEN found[f]
                                         ELSE IF f \in Preserved(w) THEN old[f] ELSE None]
\* saveIndex.  The time stored is taken just before.
Save(w) ==
    /\ Settled(w) /\ ~Truncated(w) /\ Tick
    /\ index' = [time |-> clock', rows |-> Merge(w, walk[w].rows, walk[w].old.rows)]
    /\ walk' = [v \in Walks |-> IF v = w
         THEN [walk[w] EXCEPT !.at = "saved", !.sha = Merge(w, walk[w].sha, walk[w].shas), !.old.time = clock']
         ELSE [walk[v] EXCEPT !.lone = FALSE]]
    /\ UNCHANGED <<tree, snapshot, edit, other, mishaps>>
\* saveIndexSnapshot, with the time of the index it belongs to.  It may fail.
SaveSnapshot(w) ==
    /\ At(w, "saved")
    /\ \/ snapshot' = [time |-> walk[w].old.time, shas |-> walk[w].sha] /\ UNCHANGED mishaps
       \/ Mishap /\ UNCHANGED snapshot
    /\ walk' = [walk EXCEPT ![w] = Idle]
    /\ UNCHANGED <<tree, index, edit, other, clock>>
Crash(w) ==
    /\ ~At(w, "idle") /\ Mishap
    /\ walk' = [walk EXCEPT ![w] = Idle]
    /\ UNCHANGED <<tree, index, snapshot, edit, other, clock>>

WalkStep(w, f) ==
    \/ Decide(w, f) \/ Hash(w, f) \/ Drain(w, f) \/ DrainCheck(w, f)
    \/ ParseStat(w, f) \/ ParseRead(w, f) \/ ParseFails(w, f)
Next ==
    \/ \E f \in Files : Edit(f) \/ EditStat(f) \/ \E w \in Walks : WalkStep(w, f)
    \/ EditSave \/ OtherSave \/ OtherSnapshot
    \/ \E w \in Walks : Begin(w) \/ Reject(w) \/ Save(w) \/ SaveSnapshot(w) \/ Crash(w)
Spec == Init /\ [][Next]_vars

-----------------------------------------------------------------------------
(* Properties *)

TypeOK ==
    /\ \A f \in Files : tree[f] = None \/ tree[f] \in [content : Contents, mtime : 1 .. MaxTime]
    /\ \A f \in Files : index.rows[f] = None \/ index.rows[f] \in [content : Contents, mtime : 1 .. MaxTime]
    /\ index.time \in 0 .. clock /\ snapshot.time \in 0 .. clock
    /\ \A w \in Walks, f \in Files :
         walk[w].step[f] \in {"out", "decide", "hash", "queued", "drained", "kept", "parse", "read", "parsed", "failed"}

\* What lets every later walk skip a file: a row with the file's mtime describes the
\* file, however many edits, walks and single-file writes overlapped before.
RowVouches ==
    \A f \in Files :
      tree[f] # None /\ index.rows[f] # None /\ index.rows[f].mtime = tree[f].mtime
      => index.rows[f].content = tree[f].content

\* A snapshot that passes for the index's own has the hash of what each row was parsed
\* from: a later walk that finds the hash again may keep the row.
SnapshotPairs ==
    snapshot.time = index.time =>
      \A f \in Files : index.rows[f] # None /\ snapshot.shas[f] # None
                       => snapshot.shas[f] = index.rows[f].content

\* A walk that nobody disturbed and that failed nowhere leaves the rows of its scope as
\* the files are, and every other row as it was.
Right(w) ==
    \A f \in Files :
      IF f \in IF walk[w].capped THEN Walked(w) ELSE walk[w].scope
      THEN IF tree[f] = None THEN index'.rows[f] = None
           ELSE index'.rows[f] # None /\ index'.rows[f].content = tree[f].content
      ELSE index'.rows[f] = index.rows[f]
WalkIsRight == [][\A w \in Walks : At(w, "walk") /\ walk'[w].at = "saved" /\ walk[w].lone => Right(w)]_vars
=============================================================================
