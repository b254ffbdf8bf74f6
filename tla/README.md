# CodeSift in TLA+

CodeSift indexes source trees into SQLite databases and answers code queries over
MCP. One daemon serves many sessions: it keeps indexes in memory, rebuilds them in
child processes, watches files, and shares its databases with one-shot processes
(the post-edit hook, the CLI). This directory models the part of it where
correctness depends on the order of things: which copy of an index a caller is
answered from, who writes an index and when, what a transaction or a killed run
leaves behind, who holds a lock, and whether an edited file ends up in the index. Paths below are relative to the repository's
`src/`.

## Inventory

| Part | State it keeps | Operations | Where it is hard | What makes it correct | Module |
| --- | --- | --- | --- | --- | --- |
| Index loading (`tools/index-tools/registry.ts`, `load-gate.ts`, `state.ts`, `storage/index-cache.ts`) | `codeIndexes` (resident), `indexCache` (by `data_version`), `active` and `waiting` of the gate | `getCodeIndex`, `readIndex`, evictions, drops | every step awaits; four kinds of writers invalidate different copies in different orders | an answer contains what had returned before it was asked; no slot or wake-up lost | `CodeIndexCache` |
| Index children (`folder-indexer.ts`, `out-of-process.ts`, `storage/external-writers.ts`) | `childRunsByKey`, `childRunTailByRoot`, the slot counter and queue, `pending` writers | `index_folder`, join, chain, spawn, adopt, the write barrier | concurrent requests, kills, a child that dies after its commit | one writer per root, the cap, every request answered, what was resident at a commit dropped | `IndexChildren`, `Semaphore` |
| File lock (`storage/file-lock.ts`) | the lock file, the takeover file, `heldHere` | `acquireLock`, `releaseLock` | several processes, crashes, recycled pids, each file operation a step | one owner; leftovers never block for good | `FileLock` |
| One file (`file-indexer.ts`, `parse.ts`, handlers of `watcher.ts`) | the row, `lastIndexedState` | `index_file`, hook, watcher events | the file changes between two reads of one call; calls overlap | what is skipped is indexed | `FileIndexing`, `IndexedFile` |
| Freshness check (`ensureIndexFresh`) | `freshnessChecked`, `last_git_commit` | called by every `getCodeIndex` | git moves while it runs; several checks and walks overlap; parts fail | the commit recorded is the one indexed | `Freshness` |
| Folder indexing in process (`folder-indexer.ts`, `folder-merge.ts`, `snapshots.ts`, `parse.ts`) | the rows, the hash snapshot, the walk's lists | walk, reuse by mtime or hash, parse, merge guard, save | files change between stat, hash and read; other writers commit meanwhile | a row kept or written is what its mtime says; a walk changes its scope only | `FolderWalk` |
| SQLite store (`storage/sqlite/`, `index-migration.ts`) | one shared connection, `connections`, `migrations`, private readers | open and migrate, import, save, delta, load | a transaction held across turns of the event loop on a shared connection | writes take effect whole, one after another; a load is one revision | `SqliteStore`, `SerialStore` |
| Embedding run (`parse.ts`, `embedding-store.ts`, `embedding-checkpoint.ts`) | the vector file, its meta file, the checkpoint, `embeddingContentHashes` | reuse, resume, batch, append, save, discard | a kill between two files or in the middle of a line | what is stored is what a run from nothing would store, whatever models the runs before had; nothing is paid twice | `EmbeddingRun` |
| Tool calls (`server-helpers.ts`, `runtime.ts`, `handler-wrappers.ts`) | `responseCache`, calls in flight, the memo of cacheable tools | `wrapTool`, `withTimeout`, `withCache` | four ways to be answered, each invalidated by something else | no answer misses a write the caller may count on | `ToolCalls` |
| Registry (`storage/registry.ts`) | `registry.json`, `registryWriteLocks`, the lock between processes | register, update, remove, prune | a lock judged abandoned, failures under the lock | no update is lost; the lock is given back | `Registry`, `SerialStore` |
| JSON store | per-path mutation queue | batched read-modify-write | batches against whole saves | no lost update | not modelled |
| Watcher registration | `activeWatchers`, tokens, debounce timers | set up, retire, cap | two set-ups at once | one subscription per root | not modelled |
| Caches of loaded vectors, the embedding gate | caches with generations, machine slots | load, invalidate | invalidation during a load | no vector of an old index is served | not modelled |
| Session state, usage, LSP, parser pool, worktree seeding | local bookkeeping | | | | not modelled |
| Parsers, analysis, search, formatting, CLI | none | pure functions of an index | | | not modelled |

How they meet: `getCodeIndex` answers every query tool. `index_file`, the watcher,
`index_folder` (in process or through a child) write the database and drop copies;
the child is another process, so its commits are seen through SQLite's
`data_version` and through adoption in the daemon. Incremental writes of the
daemon wait for children behind `awaitExternalWriter`. All of them commit through
`storage/sqlite/`, whose promise (`SerialStore`: each write takes effect as a whole at one
moment) is what the other modules take a commit to be. The file lock guards the
embedding checkpoint and the machine-wide embedding slots. A tool call stands in front of
everything: what it answers is a version of the index that `getCodeIndex` gave it.

## Modules

**`CodeIndexCache`** - one repository, its three copies, the load gate. An index is
its version number: each commit makes the next. A caller walks through
`idle -> entered | parked -> woken -> entered -> reading -> read -> loaded -> released -> answered`,
one action per stretch of code between two awaits; `floor` remembers the newest
write that had returned when the call began, `raced` whether a local writer's commit, or its
invalidation of the storage copy, fell into the load (both exist for the properties only). Writers are `FileCommit ..
FileReturn` (index_file and the watcher), `FolderDrop .. FolderReturn` (indexFolder
in process, with its early drop), `ChildCommit`/`ChildAdopt`, and `OutsideCommit` for
processes nobody tells us about. Evictions are their own actions. The freshness
check before the load is left out: what it changes is one of these writes, and
`Freshness` is about it.

A copy whose load raced a local writer is exempt from all three properties of copies, and not
for an instant only. A load that takes its snapshot before a `FileCommit` and stores it
(`cacheLoadedIndex`, `index-store.ts:386-392`) after the invalidation leaves a storage copy that is
old and matches `data_version`, which the connection's own commits do not move: it is served
until another process commits, another write invalidates it or it is evicted. The
resident copy that such a load publishes stays likewise. `StoredMatchesRows` says of the other
copies that, while they match, they are what is committed, but between a commit on the
shared connection and `invalidateIndexCache`.

**`IndexChildren`** - requests, runs, slots, children, adoption and the write
barrier for several roots. A run is numbered when created and goes through
`chained -> parked -> woken -> alive -> closed -> untracked -> returned -> adopting -> done`.
A child may commit or not and may then complete, do part of its work, fail or be killed.
Tools may load the index of a root meanwhile (`Load`, `Publish`, as the remainder of
`getCodeIndex` sees them): `loads` has what the loads in flight have read, `resident` what is
in memory, each against the latest child's commit. `StaleOnlyUntilAdopted` is about the copy
that is resident when a child commits ("old"): it is gone when the child's run is over. It is not
about the copy that a load begun before the commit publishes after it ("raced"), which
nothing keeps from outliving the adoption. Evictions are left out: they only take copies away.
**`Semaphore`** is what the slots promise: `CapRespected` is the refinement
`alive children |-> inside`.

**`FileLock`** - each process is its pid; reading a lock file and judging the pid
read are separate steps, as are the two awaits of a release. A process may die at
any step leaving its files, and its pid may come back. A file operation may fail.
`Admitted` lists three interleavings that can be let in or kept out:

- `Overlap`: an acquire by a process that is in the middle of its own release;
- `LateJudge`: a process dies after its pid was read from a lock that has since
  changed hands, and before the reader asks whether it is alive;
- `DoubleClear`: two processes clear one dead taker's takeover lock at once (the
  residual accepted at `storage/file-lock.ts:71-74`).

**`IndexedFile`** and **`FileIndexing`** - one file, an editor, and calls of three kinds: `tool`
(the daemon's index_file, with its in-memory map), `hook` (the same code in a fresh
process), `watch` (the watcher's handlers). `IndexedFile` has the state and what is promised of
it, `FileIndexing` the steps. A content is the number of the edit that
wrote it, so `mtime <= content` says that a row is not ahead of what it holds.
`Admitted` lists five hazards: `TornSeed` (an edit between the stat and the read of
a first touch), `LostRead` (the file goes between the stat and the read of the hash),
`Revert` (an earlier content comes back), `SameTick` (two edits in a millisecond),
`MixedOverlap` (handlers and hooks overlap other calls).

**`Freshness`** - one repository, git, and calls of three kinds that overlap freely:
`refresh` (`ensureIndexFresh`: `asked -> moved -> files | walk | update`), `folder`
(`index_folder`, on its own or inside a check: `walk -> saved -> registered ->
stamping`) and `file` (a single `index_file`). A commit is the content of each file
(`Tree`), the working tree is HEAD's, and a row is the content it was parsed from. HEAD
may move between any two steps. A file is read at one moment and saved at a later one;
what is between belongs to `FileIndexing`. A file of a walk is enumerated, kept on its
mtime or parsed at one moment of its own. Walks of one root may overlap, although
the daemon chains those it runs in children: hooks, the CLI and checks in other
processes do not queue there. `Throws`, `StampFails`, `FileFails`, `DiffFails` and
`NotWalked` are its error paths, `Crash` ends the daemon's calls and any of the others.

Its properties need four ghosts. `trail[f]` is every content f has had since the index
last agreed with the registry and nothing was under way; `stayed` says that HEAD has not
moved since a call read it; `late` marks a read that an unlike one was saved over; and
`lapsed` collects the files the code cannot vouch for:

- it failed to index them and went on, or recorded a commit although its diff failed
  or its walk was skipped or rejected (`file-indexer.ts:396-419`);
- `index_folder` recorded a HEAD that had moved since its walk read it, which it cannot
  notice, as it asks only at the end (`folder-indexer.ts:852`);
- an older read was saved over a newer one;
- they got back, under a call or after one was cut short, a content they had had before.

Each of these exclusions is needed: without any one of them `FreshMeansIndexed` fails on
the instance of the run, so each is a way for this code to call a stale index fresh.

**`SqliteStore`** - the database of one repository and the calls of several processes on
it. Every call of a process shares one connection, so its transaction too; a
whole-index write leaves it open for several turns of the event loop
(`BeginSave`, `SaveRows`, `CommitSave`), unless the native core is installed, which writes
on a connection of its own (`WriteConn`). `Open`/`Migrate` are `openIndexDb` with its second
look under the lock, `StartMove .. CommitImport` the import of the JSON index on the first
call of a process, `Snapshot`, `ReadPage`, `Loaded` a load on a private connection. A BEGIN
on a connection that has a transaction open is refused. SQLite itself is assumed: one
writer, a snapshot per reader, rollback at the end of a process.
**`SerialStore`** is the abstract store: callers ask, and each request takes effect as a
whole at one moment or fails and changes nothing. `WritesAreSerial` is the refinement.

**`FolderWalk`** - walks of one root, file by file: `decide` (mtime, then hash), `hash`,
`queued -> drained -> kept` (the hash of a file kept without one, and the second look at its
mtime), `parse -> read -> parsed`; then the guard against truncated walks, the merge
and `Save`, with the snapshot as a step of its own that may never come. Scoped walks, walks
cut short by `max_files`, hidden directories (a mishap), single-file calls in two
steps, and the walk of another process with its late snapshot. An edit takes a tick of
the clock, so edits of the same millisecond are out (see `SameTick` below). `Begin` is
one step for three awaits: the listing of the directory, `loadIndex` and `loadIndexSnapshot`
(`folder-indexer.ts:486, 504, 525`). Its moment is that of `loadIndex`. A file that goes between
the listing and then is one that goes before it is looked at; one that comes is not listed, as if
it came later; and a commit between `loadIndex` and the snapshot brings one of another time, which
counts as none. An undisturbed walk (`WalkIsRight`) is undisturbed from its listing on.

**`ToolCalls`** - callers, handlers and the three memories in front of them: `responseCache`
(dropped when a mutating tool returns), the calls in flight (joined), and the memo
of cacheable tools (keyed by the version on disk, evicted on timeout). A handler
reads the index once, from memory if it is resident. `index_file` and the watcher commit and
then drop the resident index in a later step. `fresh`, `floor`, `crossed` and `given` are
ghosts: what a caller may count on, whether a write of this process overlapped a
handler, whether somebody was already told `timed_out`.

**`EmbeddingRun`** - processes that embed the same repository: reuse of the vector file when
its meta file names the model, the checkpoint (owned by one, resumed by header, its torn
tail cut), batches bought and appended, the save in two files, the discard. A line may be
torn by a kill or a failed append, and what is appended to a torn line is fused with it and
lost. Each run of a child may have any model (`Start`), a resident process keeps its own
(`ResidentModel`), and runs of different models overlap. A run looks at the meta file when it starts
and reads the vector file in a later step, together with the checkpoint: each line of either comes
with its own hash, so it does not matter how old one is against the other. Without a
checkpoint all batches of a run are one step, as they change nothing that others see; edits
are made with the start of the next run, as a run takes all its texts at once. `paid` is a ghost:
what is safely in the checkpoint and in no vector file yet. Two ways of `batchEmbed` to find a vector
without buying it are left out: a symbol that moved takes over the vector stored for the same place
and hash (`embedding-store.ts:550-565`), and the shared cache has vectors of other repositories by
model and text (`embedding-store.ts:571-588`). Both give the vector of the same text; the first from
the vectors the run has loaded, so from another model only if the run is misled, and the
second from the same model by its key. Neither pays for anything.

**`Registry`** - calls that change `registry.json`: the promise chain of each process, the
lock between them in both forms (`portable` says which), the work as a read and a
rewrite, the release. A process may die or be restarted under the same pid, a lock may be
left from before, each failure path is an action, `prune` may `die()` with the lock held. It
implements `SerialStore` too. `Admitted` lists two hazards: `LateReap` (a lock is judged
abandoned, changes hands, and is renamed away by the judge) and `MixedLocks`
(processes with and without SQLite on one registry, each behind its own kind of lock).

## Runs

| Run | Instance | Result |
| --- | --- | --- |
| `caches` | 2 callers, limit 1, 1 writer that repeats any kind of write, 3 versions | all six properties hold |
| `children` | 2 requests, 3 keys on 2 roots, 1 slot, 1 incremental write, 2 runs | safety, refinement and liveness hold |
| `chains` | 3 requests without a watcher, 3 keys on 2 roots, 2 slots, 3 runs, one root loaded meanwhile | one writer per root, barrier knows it, what was resident at a child's commit is dropped with its run (what an overtaken load publishes is not) |
| `file_lock` | 3 processes, 2 attempts, 2 clears, 1 mishap, nothing admitted | one owner, liveness |
| `one_file` | 2 calls, 4 edits, nothing admitted | all three properties hold |
| `freshness` | 2 calls, 2 files, 3 commits, 2 moves of HEAD, `MaxDiff` 1, 1 mishap | a recorded HEAD means that its files are indexed, but for those that lapsed |
| `lost_commit` | as `freshness` | `LostCommitIsReindexed` fails: after a failed diff nothing is indexed |
| `sqlite_store` | a daemon with 2 calls and a process with 1, 2 files, 2 calls, 1 mishap, an old or a new database, with and without the native core | a load is one revision, the store implements `SerialStore`, every call reports |
| `folder_walk` | 1 walk and the walks of another process, 2 files, 2 contents, 4 ticks, 1 mishap | rows vouch, snapshots pair, an undisturbed walk is right |
| `tool_calls` | 2 callers, 2 handlers, 2 searches, 1 cacheable call, caches of one entry, 2 commits, 1 mishap | no answer misses what the caller may count on; no call of a cacheable tool joins one that timed out |
| `registry` | a daemon with 2 calls and a prune, 2 repositories, 2 calls, 1 mishap, nothing admitted, both kinds of lock | the registry implements `SerialStore`, the lock is given back, every call settles |
| `embedding_run` | 2 processes, 2 symbols, 2 models, any of them in each run, 2 edits, 2 mishaps | what is stored is fresh, but for runs that trusted another model's vectors, and nothing in the checkpoint is paid twice |

### Found with the same modules, not in a run

Each of these is a step the properties above exclude, by name; without the exclusion the
property fails.

- *The load gate exceeds its cap.* A parked load resumes without a second look at the
  count (`load-gate.ts:45`): four callers behind a limit of two can be three at once
  (`AtMostLimitActive`).
- *A load that races a local commit republishes the old index* after the writer dropped it
  (`registry.ts:318` makes no generation check, unlike the chunk embeddings).
  `indexFolder` invites it: it drops the resident index before the merge and the save
  (`folder-indexer.ts:679`; `FolderLeavesNothingStale`). The properties of `caches` are about loads that raced nothing.
  The same step puts an index older than a child's commit back after `dropResidentCaches`, which
  is why `StaleOnlyUntilAdopted` is only about what was resident at the commit: of "raced" copies too,
  the formula fails in `chains`.
- *A caller that joins a run after adoption began loses its wish for a watcher*
  (`folder-indexer.ts:201`); `EarlyWatchHonoured` is about those before,
  `AnyAskerIsWatched` about all.
- *File lock.* `Overlap` (an acquire during the same process's release) and `LateJudge` break
  `OneOwner`, although `storage/file-lock.ts:66-67` says that what the taker removes is the
  stale lock it read; `DoubleClear` breaks it as accepted there.
- *One file.* `Revert` (an edit that is undone), `TornSeed`, `SameTick` and `MixedOverlap` each
  break `AloneCallIndexes`: the file is skipped although its row is of another content.
  `LostRead` breaks `MemVouchesForRow`, with two overlapping calls and four edits: a call that
  found no file to hash has no hash to remember (`file-indexer.ts:250-251, 297`), so when it
  saves, after a newer call saved and remembered, the row is its own and the map entry the other's.
  The ACMR diff of `ensureIndexFresh` (`file-indexer.ts:392`) does not name deletions.
- *Registry.* `LateReap` breaks `UpdatesAreSerial`, with a lock left by a process that died
  and two contenders: both read it, one reaps it and links its own, the other renames that
  away and links too; one update is lost (`storage/registry.ts:161-165`; the comment at
  118-127 promises the same exclusion as SQLite's). `MixedLocks` breaks it with no mishap at
  all. A portable lock left under a pid that is in use again (a daemon that is always pid 1)
  makes every change time out for as long as that process lives.
- *SQLite.* `index-io.ts:190-194` rests on a mutex in `saveIndexSqlite` that does not exist:
  two whole-index writes of one process do meet, the second BEGIN is refused and that
  call fails; deltas fail likewise while a whole-index write is open, and reads of the
  shared connection see its uncommitted rows. `WritesAreSerial` says that nothing worse
  happens.
- *A partial run clears the lossy marker.* `sourceComplete` is `filesToParse.length ===
  files.length` (`folder-indexer.ts:764`), but a scoped or capped walk stores rows it did not
  walk, some of which may still be from schema v1, against `folder-indexer.ts:748-751`.
- *Tool calls.* A handler that overlaps a write of this process may be stored after the write
  dropped the cache (`crossed`), and is served until it expires. The memo remembers an
  answer under the version on disk while the handler answered from the resident index, so an
  old answer can be filed under a new version for as long as that version lasts, against
  `runtime.ts:386-389`. A call that is not cacheable stays in the in-flight map after its
  timeout, and later identical calls join it, for ever if it hangs (`server-helpers.ts:340`).
  Two identical `index_file` calls are one: an edit after the first one's read is
  answered without being indexed. The eviction on timeout makes the comment at
  `runtime.ts:494-495` (abandoned work still fills the cache) wrong for cacheable tools.
- *Embeddings in a resident process.* Runs are a child's by default, and `Residents` is empty
  in the run. In process (`folder-indexer.ts:822-827`) the hashes are published before
  `saveEmbeddings`, and priming never overwrites them: after a failed save of a run whose checkpoint
  had failed too, the next run takes old vectors for new ones and `SavedIsFresh` fails.
- *Vectors under another model's name.* The vector file and its meta are written one after the
  other (`parse.ts:345-346`) and read one after the other (`parse.ts:302-304`), and a run that finds
  the checkpoint taken goes on without one and saves all the same (`parse.ts:312-317`). So a run
  trusts vectors of another model (`Misled`), keeps them, and stores them under its own name:
  when runs of m1 and m2 overlap and the vector file is saved by m2, then by m1, and the meta by
  m1, then by m2, with no crash at all; when a run of m2 is killed between its two
  writes over a meta that names m1, and the next run has m1; when a run of m1 has read a meta that
  names m1, or seen no file at all, and a run of m2 saves before it loads.
  Without `~misled` each of these refutes `SavedIsFresh`.
- *The only child of a run.* An `error` event, which a failed kill raises too, settles a child
  that may still be alive (`out-of-process.ts:245`): slot, chain and barrier are released under
  it. The children of `IndexChildren` settle when they close.

### Bounds

`MaxVersion`, `MaxRuns`, `MaxEdits`, `MaxMoves` and `MaxMishaps` bound what would
otherwise go on for ever; they are guards of `Commit`, `Create`, `Edit`, `Checkout` and of
the mishaps; `MaxCalls` and `MaxTime` are their like in the modules of storage.

- `caches`: three versions are the one at the start, one that a load may miss and
  one more committed before it publishes. Two callers with one slot are one
  running and one parked.
- `children`: one slot and two runs put the second run behind the first through the
  chain (same root) or the slot (other root); the edit meets both. `chains` needs a
  third run, created when the first is done and the second is not, for the maps'
  clean-up to go wrong. Loads are in `chains` only (`Loaded`), of one root; as its properties are
  not about watchers, its requests ask for none (`Watches`), while those of `children` do.
- `file_lock`: three processes are an owner that died and two that contend for its
  lock. The code's three attempts are two here: the second is the first that
  can follow a failed one, and a third repeats it. `MaxMishaps = 1` is a crash of an
  owner, a taker or a contender; a second dead process is the initial unreadable lock.
- `one_file`: four edits are one before, one between the two reads of each of two calls, and one
  after. Overlap of two calls is what `lastIndexedState` was written for
  (`file-indexer.ts:25-31`).
- `freshness`: of the three commits one differs from the first in one file (a diff
  within `MaxDiff`) and one in both, one of them new (a walk; on the way back, a
  file that goes). HEAD moves once to start a check and once under it. Two calls are
  a check and whatever overlaps it, or two checks. `MaxDiff` is 50 in the code; only the
  side of it a diff falls on matters.
- `sqlite_store`: two calls are any two of a save, a delta and a load, in one process (one
  connection) or in two; imports and migrations come with them. Two files are one that is
  written when the other is not yet.
- `folder_walk`: four ticks are an index, an edit or a single-file call under the walk, its
  save, and one more. One walk is enough for the code's decisions, as whatever else commits
  (`EditSave`, `OtherSave`) is at least as free as a second one; the proof has any number.
- `tool_calls`: caches of one entry meet their limits; two handlers are one that is old and one
  that is new; two commits are one to miss and one to be newer than.
- `registry`: two calls are a holder or a dead one's successor, and a contender; the lock left
  from before makes a third owner.
- `embedding_run`: two mishaps are a torn line and what happens to the run that finds it; two
  edits change a text and change it back, or two texts.

`CHECK_DEADLOCK FALSE` appears where the system may really stop: requests are made
once, callers wait for nothing when the bounded writes are used up, and nobody has to
call once HEAD is at rest, once the calls of `sqlite_store` and `registry` are used up, or once
the clock of `folder_walk` has stopped. `file_lock`, `one_file`, `tool_calls` and
`embedding_run` check for deadlock.

### Fairness

Weak fairness of every continuation the event loop owes: `Serve` (a load that holds
or was handed a slot), `Progress` (a run), `Answer` and `Pass` (a promise that
settled), `Continue` and `FinishRelease` of a live process. Node runs a ready
continuation eventually, so weak fairness per caller, run or process is what the
code has. `Progress` includes `ChildClose`: a child that hangs is killed by
`armChildTimeout` (`out-of-process.ts:63-74`), so every child closes. Nobody is obliged to
call, to edit, to ask for a lock, to give it back or to die, and `ChildCommit` is not
fair. `LeftoversDoNotBlock` speaks of a process that keeps asking while no other
live process uses the lock or has been given the pid the files name: a lock that names an
unrelated live process blocks by design (`file-lock.ts:8`).

`sqlite_store` takes weak fairness of each process: its own steps (opening, importing) or
some step of one of its calls. A process that has work does some of it; that no call is passed
over for ever follows from the bound on calls, not from fairness. `registry` takes weak
fairness of each call and strong fairness of `TimesOut`: a call that keeps finding the lock
taken sees its five minutes pass. Nobody is obliged to restart a process. `folder_walk`,
`tool_calls` and `embedding_run` are about safety only: their handlers may hang and their runs
may be killed at any point.

## Proofs

Checked by TLAPS, for every value of the constants the assumptions allow
(`GateAssumption`, `ChildrenAssumption`, `LockAssumption`, `IndexingAssumption`,
`FreshnessAssumption`, `FolderWalkAssumption`, `SqliteStoreAssumption`, `ToolCallsAssumption`,
`RegistryAssumption`). Where a module has admitted hazards, a theorem says which of them it does
without; each of those breaks a property of its module, as said above. The
constants named `Max...` only bound what TLC explores: the theorems hold for any values of them.

`CodeIndexCacheProof` proves all the safety properties of its module. The first three,
`CleanResidentIsCurrent`, `StoredMatchesRows` and
`CleanAnswerReadsWrites`, are not inductive: a resident copy is current because the
load that published it was, and a load is because the rows or the storage copy it
took were. The invariant `IInv` carries that along:

- `Types`, and `Behind`: what has returned is committed;
- `Fresh(v)`: version v holds all that has returned, and all that is about to return
  without marking the loads in flight again (a file write already forgotten, a
  child's commit);
- `CallOK`: an unraced call has a fresh copy from the moment it has read one, and
  while its `data_version` still matches, what it read is what is committed;
- `StoredOK`: an unraced storage copy of the current `data_version` is fresh and is the
  rows, but in the instant between a commit and its invalidation (nothing is proved of raced
  ones, here or in the theorems);
- `ResidentOK`: an unraced resident copy is not older than `done`.

Reading `data_version` before the rows is what `StoredOK` hangs on, and the drop of
the resident copy before a writer returns is what `ResidentOK` hangs on.

`SlotsAccounted` has an invariant of its own, `Gate`: the gate's count is the number of
loads between the hand-over of a slot and its return (`Counted`, by cardinality, for any
finite set of callers), a load stands in the queue once and only while it is parked
(`Queue`), and while one is parked another is going to release or has been woken (`Attended`).
A load that is woken has not taken its slot yet, which is why `active` may pass the limit
(`AtMostLimitActive`, above) while nothing is leaked. `TypeOK` follows with `Bounded`: no copy
is of a version nobody committed.

`IndexChildrenProof` has three parts, the first of which proves `OneWriterPerRoot`. The
invariant: a run stands in the
slot queue once and only while it waits there (`Queue`), runs are numbered in the
order they are created (`InOrder`), of two runs of one root the older is done or the
younger still waits for it or for one in between (`Chain`), and the root's tail is
no older than any run that is not done (`TailIsLatest`; this is what the identity check
in the maps' clean-up protects). Two live children of one root contradict `Chain`.

The barrier builds on it. Every step takes a run at most one place
further in its life and keeps its key (`Lives`). Then: the child of a root is the one
the barrier's map names (`AliveIsTracked`), which survives a second child's
registration only because `OneWriterPerRoot` says there is none alive to replace, and
survives a clean-up because that one checks whose entry it removes. The barrier's
property follows: the loop of `awaitExternalWriter` ends on an empty entry or on the
entry of a child that has closed. `StaleOnlyUntilAdopted` needs of the loads only that
they publish nothing as "old" (`StaleMoves`): what a commit finds in memory is dropped by the
adoption of its run, and what an overtaken load publishes is "raced", of which nothing is said. The
watcher's wish needs `Wishes`: the run a caller waits for exists and carries the
caller's wish until it reads it, and from then on, after a complete walk, the root is
watched (`KeysBorn`: the run a key names exists).

The third part proves the gate's accounting (`Slots`: `running` is the number
of runs between the hand-over of a slot and its return, and is `Cap` while anyone
waits), from it that the live children implement `Semaphore`, and `TypeOK`.

`FreshnessProof` proves `FreshMeansIndexed` and `TypeOK` for any history of commits, any
number of calls and any number of moves. The property speaks of the moment the registry
names HEAD; what makes it true was read long before, so the invariant speaks of every
commit that may be recorded yet. `Vouches(k, f)`: if f on disk is as at commit k, its row
is too. This holds of the commit recorded (`FileOK`), of the one a check found
recorded, and of the one a check will record, from the moment the file has been dealt with (`Dealt`):
the diff did not name it, or it was indexed. What a call holds of a file (`HeldOK`)
is as on disk whenever the row is, unless a newer read was saved since (`late`), and
whenever the file is as at the commit the check will record. All of these are
implications from "as on disk", and all the contents they mention are on the file's
trail; so a checkout either leaves the file alone, or brings a content that is not on
the trail and makes every premise false, or the file lapses. A save turns the other way:
it puts what the call holds in the row, and only `late` could make that older than the row.
Reading HEAD before the files and recording that commit, not the current one, is what the
step `Update` hangs on.

`IndexingProof` has the two ways a file gets into an index. Of folder walks it proves
`RowVouches`, `SnapshotPairs` and `WalkIsRight` for any number of
overlapping walks. A row, stored or held by a walk, is no newer than the clock and describes
its file whenever the mtimes agree (`Vouches`): an edit brings an mtime no row has. A hash is
kept with a row only while both are known to be of one content (`Pair`), which is what
the second look of `drainLegacyHashQueue` is for. Commits take a new time (`Past`), so the
snapshot of another index is never taken for this one's. `Sure` is what an undisturbed walk
knows: each file of its scope as it is.

`SqliteStoreProof` proves `LoadIsOneRevision` and that `SqliteStore` implements
`SerialStore`. The invariant: an open transaction has the lock and an owner (`Open1`, `Locks`),
its image is what is committed with the owner's rows in place of some (`Owns`), an import
under way means there is no index yet (`Imports`, which is why the second question under the
lock matters), and a load has pages of its snapshot only, which was committed while it ran
(`Pages`). `Lives` ties what a call is at to what it was asked. A commit then is the effect of
its owner's request on what is committed; everything else stutters, asks or fails.

`ToolCallsProof` proves `FreshAnswers` and `NoJoinAfterTimeout`. What a handler has read is as
new as every write of this process that is over, or a write crossed it (`RunOK`): the
resident index is no older than the writes that dropped it (`ResidentOK`). When a write ends
everything that runs is crossed and `responseCache` is empty (`CacheOK`). The memo is not
dropped: its entries are either as new, or asked for under a version that the write has
left behind (`MemoOK`), so that no caller can find them any more. `Apart`: one entry for a key and
a version, and for a handler.

`CallsTyped` adds that the caches keep to `CACHE_MAX_SIZE` and `CACHE_MAX_ENTRIES` (`Sized`): an
insertion into a full one evicts first.

The second part of `IndexingProof` is about single files, for any number of calls and edits.
`RowIsNotAhead` holds but for `Revert`: the mtime is read before the content (`AheadInv`).
`MemVouchesForRow` and `AloneCallIndexes` are proved with nothing admitted, from one invariant.
What a call holds of the file is of some moment since it began, and its second read is no older
than its hash (`Hashing`, `LookingUp`, `Parsing`, `Saving`). A map entry whose hash is
what is on disk comes with the row of what is on disk (`Kept`): whoever remembers a hash has
saved what it read after it. Two calls in flight are both `index_file`'s, so nobody
changes the row behind the map's back (`Together`). An earlier form of the model was refuted by
this proof: that a call without a hash saves a row and leaves the map alone needs four edits
to do harm, and the run had three. `LostRead` is that case.

`FileLockProof` has three parts, each with fewer hazards than the one before, for any number of
processes, attempts, deaths and recycled pids. `ReservedWhileUsed` and `TypeOK` hold whatever is
admitted. `OneTaker` needs neither late judgements nor two clearers of one takeover
lock: whoever is under the takeover lock is named by it (`TakerNamed`), and
whoever is about to clear one clears one that nobody uses (`Abandoned`), because a file
names whom it named when it was read, or somebody alive (`TakerSeen`). `OneOwner` and
`OwnerIsNamed` repeat the argument one level up, for the lock itself (`UserNamed`, `Unused`,
`LockSeen`): whoever removes a lock is under the takeover lock, has judged the lock once more,
and no attempt of its process overlaps a release (`NoOverlap`). A dead process's pid may be
given out again between any two steps: that never makes two owners, it only keeps a stale lock.

`RegistryProof` proves `LockIsReturned`, whatever is admitted: each call has a number
(`Tokens`), and the lock's is that of a call at work, or of one whose process ended (`LockOf`). With
nothing admitted it proves `UpdatesAreSerial`, the refinement of `SerialStore`, from `Exclusive`
(a call at work is the one the lock names) and `ReapedIsIdle` (nobody is at work under a lock
that somebody is about to rename away): what a call has read is what the file
still holds (`SeenCurrent`), so its write is its request's effect, and all other steps ask, fail or
stutter. The promise chain of a process is no part of the argument: for updates to be
serial it is not needed, the lock alone does it.

Only model-checked: the liveness properties (out of the prover's reach) and all of
`EmbeddingRun`. `TypeOK` of `SqliteStore`, `FolderWalk`, `FileIndexing` and `EmbeddingRun`
is stated and holds on the instances of their runs, which spend their time on the other
properties; the proofs about the first three carry types of their own.

## Plan

Done: the loading of indexes, index children, the file lock, single files, freshness, folder
walks, the SQLite store, embedding runs, tool calls, the registry; the proofs above.

Next, in this order:

1. `Watcher`: registration with tokens and the cap, composed with `FileIndexing`'s handlers.
2. The caches of loaded vectors with their generations, and the embedding gate composed with
   `FileLock`.
3. `JsonMutations` against `SerialStore`, and worktree seeding as a writer of `SqliteStore`.
4. Proofs: `SavedIsFresh` and `PaidOnce` of `EmbeddingRun`, for runs in a child.

Runs are kept few: small instances, one per question, each a few minutes at most; a new
module takes the run of a finding that the list above describes as well.

## Not modelled

- *Watcher registration* (`watcher.ts:60-131`): two set-ups of one repository pass the check
  before either is registered, so a subscription is left running and the cap can be exceeded; a
  set-up that fails leaves the stopped watcher it replaced in `activeWatchers`.
- *Caches of loaded vectors* (`state.ts:103`): the symbol path publishes without the generation
  check that the chunk path makes. *The embedding gate* (`embed-gate.ts:101`) has the
  load gate's gap.
- *Group registry*: serialised within a process only, so that two processes can lose an update.
- *`invalidate_cache`* removes what is derived and the registry's entry, not the SQLite database
  (`registry.ts:85-117`), although it promises a full index on next use.
- *What prune deletes*, worktree overlays and seeding, per-file reads of the store, WAL
  checkpoints, corruption, session state and telemetry, LSP clients, the parser pool: they
  keep state, but less of it depends on order, or they need a model of the file system's time.
- Most of the repository's lines are analysis tools, parsers, search, formatting and CLI
  code: functions of an index without state or concurrency, for which a state machine
  has nothing to say. The modules cover a small share of the lines for that reason.
