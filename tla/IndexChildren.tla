---------------------------- MODULE IndexChildren ----------------------------
(***************************************************************************)
(* index_folder in the daemon: requests for the same tree join one run,    *)
(* runs of one root are chained, at most Cap index children are alive, and *)
(* this process's own incremental writes queue behind a child that is      *)
(* rewriting the same index.                                               *)
(* (folder-indexer.ts indexFolderInChild and adoptChildIndex,              *)
(*  out-of-process.ts runIndexChild, external-writers.ts)                  *)
(*                                                                         *)
(* A run is numbered when it is created.  Its life:                        *)
(*   chained -> parked -> woken -> alive -> closed -> untracked            *)
(*           -> returned -> adopting -> done                               *)
(***************************************************************************)
EXTENDS Naturals, Sequences, FiniteSets

CONSTANTS
    Requests,   \* calls of index_folder / ensureIndexFresh, each made once
    Watches,    \* their wishes for a watcher: BOOLEAN, or less to bound a run
    Roots,      \* canonical roots
    Keys,       \* root + the options that change the outcome
    RootOf,     \* the root of a key
    Edits,      \* incremental writes of this process (index_file, watcher)
    EditRoot,   \* the root of the index an edit writes
    Loaded,     \* roots whose index other tools load meanwhile
    Cap,        \* CODESIFT_INDEX_CHILD_CONCURRENCY
    MaxRuns     \* bound on the runs created

ASSUME ChildrenAssumption ==
    /\ Cap \in Nat \ {0} /\ MaxRuns \in Nat /\ Keys # {}
    /\ RootOf \in [Keys -> Roots] /\ EditRoot \in [Edits -> Roots]
    /\ Loaded \subseteq Roots /\ Watches \subseteq BOOLEAN

RunIds == 1..MaxRuns
NoRun == 0

VARIABLES
    run,       \* per run: where it is, its key, wants.watch, what its child did
    byKey,     \* childRunsByKey
    tail,      \* childRunTailByRoot
    running,   \* runningIndexChildren
    parked,    \* waitingIndexChildren
    writer,    \* external-writers.ts pending: the tracked child of each root
    req,       \* per request: the run it waits for and the watch it asked for
    edit,      \* per incremental write: where it is and the child it waits for
    watched,   \* roots whose watcher was started
    resident,  \* per root, its resident index against the latest child's commit: "old" if
               \* older, "raced" if published by a load that commit overtook, else "current"
    loads      \* per root, the loads in flight: "old" if a child committed since they began

vars == <<run, byKey, tail, running, parked, writer, req, edit, watched, resident, loads>>
slots == <<running, parked>>
books == <<byKey, tail>>
copies == <<resident, loads>>

Unborn == [at |-> "unborn", key |-> CHOOSE k \in Keys : TRUE, prev |-> NoRun,
           watch |-> FALSE, outcome |-> "none"]
NoRequest == [at |-> "idle", run |-> NoRun, watch |-> FALSE, late |-> FALSE]
NoEdit == [at |-> "idle", run |-> NoRun]

Init ==
    /\ run = [i \in RunIds |-> Unborn]
    /\ byKey = [k \in Keys |-> NoRun] /\ tail = [r \in Roots |-> NoRun]
    /\ running = 0 /\ parked = <<>>
    /\ writer = [r \in Roots |-> NoRun]
    /\ req = [q \in Requests |-> NoRequest]
    /\ edit = [e \in Edits |-> NoEdit]
    /\ watched = {}
    /\ resident = [r \in Roots |-> "current"] /\ loads = [r \in Roots |-> {}]

At(i, s) == run[i].at = s
Go(i, s) == run' = [run EXCEPT ![i].at = s]
Root(i) == RootOf[run[i].key]
Alive(i) == At(i, "alive")
AfterClose == {"closed", "untracked", "returned", "adopting", "done"}
\* Mutant: a child that failed is awaited like one that has not ended.
SettledWell(i) == run[i].at \in AfterClose /\ run[i].outcome # "failed"
\* The child's outcome is known, a failure included: an await of it can resume.
Settled(i) == run[i].at \in AfterClose

-----------------------------------------------------------------------------
(* Requests *)

\* Mutant: the joiner inherits the watch of the call it joined.
JoinInherits(q, k, w) ==
    /\ req[q].at = "idle" /\ byKey[k] # NoRun
    /\ req' = [req EXCEPT ![q] = [at |-> "waiting", run |-> byKey[k], watch |-> w,
                                  late |-> run[byKey[k]].at \in {"adopting", "done"}]]
    /\ UNCHANGED <<run, byKey, tail, slots, writer, edit, watched, copies>>

\* An identical request joins the run in flight and adds its wish for a watcher.
\* `late`, for the properties only: the run had already read that wish.
Join(q, k, w) ==
    /\ req[q].at = "idle" /\ byKey[k] # NoRun
    /\ LET i == byKey[k] IN
       /\ run' = [run EXCEPT ![i].watch = @ \/ w]
       /\ req' = [req EXCEPT ![q] = [at |-> "waiting", run |-> i, watch |-> w,
                                     late |-> run[i].at \in {"adopting", "done"}]]
    /\ UNCHANGED <<byKey, tail, slots, writer, edit, watched, copies>>

\* Mutant: a new run does not queue behind the root's latest one.
Unchained(r) == NoRun
\* childRunTailByRoot: the run a new one of root r waits for.
Predecessor(r) == tail[r]

\* Any other request starts a run, behind the latest one of its root.
Create(q, k, w) ==
    /\ req[q].at = "idle" /\ byKey[k] = NoRun
    /\ \E i \in RunIds :
        /\ At(i, "unborn") /\ \A j \in RunIds : At(j, "unborn") => i <= j
        /\ run' = [run EXCEPT ![i] = [at |-> "chained", key |-> k,
                     prev |-> Predecessor(RootOf[k]), watch |-> w, outcome |-> "none"]]
        /\ byKey' = [byKey EXCEPT ![k] = i]
        /\ tail' = [tail EXCEPT ![RootOf[k]] = i]
        /\ req' = [req EXCEPT ![q] = [at |-> "waiting", run |-> i, watch |-> w, late |-> FALSE]]
    /\ UNCHANGED <<slots, writer, edit, watched, copies>>

\* The run's promise settled: the caller has its result or its error.
Answer(q) ==
    /\ req[q].at = "waiting" /\ At(req[q].run, "done")
    /\ req' = [req EXCEPT ![q].at = "answered"]
    /\ UNCHANGED <<run, books, slots, writer, edit, watched, copies>>

-----------------------------------------------------------------------------
(* Slots: withIndexChildSlot *)

\* spawnIndexChild, and onSpawn registers the child as a writer of its index.
Spawn(i) ==
    /\ Go(i, "alive")
    /\ writer' = [writer EXCEPT ![Root(i)] = i]

\* Mutant: the gate's own limit check, one too permissive.
StartUnderCapPlusOne(i) ==
    /\ At(i, "chained")
    /\ run[i].prev # NoRun => At(run[i].prev, "done")
    /\ IF running > Cap
       THEN parked' = Append(parked, i) /\ Go(i, "parked") /\ UNCHANGED <<running, writer>>
       ELSE running' = running + 1 /\ Spawn(i) /\ UNCHANGED parked
    /\ UNCHANGED <<books, req, edit, watched, copies>>

\* The predecessor is done (its failure does not matter): take a slot or queue.
Start(i) ==
    /\ At(i, "chained")
    /\ run[i].prev # NoRun => At(run[i].prev, "done")
    /\ IF running >= Cap
       THEN parked' = Append(parked, i) /\ Go(i, "parked") /\ UNCHANGED <<running, writer>>
       ELSE running' = running + 1 /\ Spawn(i) /\ UNCHANGED parked
    /\ UNCHANGED <<books, req, edit, watched, copies>>

\* The continuation of a run that was handed a slot.
Resume(i) ==
    /\ At(i, "woken") /\ Spawn(i)
    /\ UNCHANGED <<books, slots, req, edit, watched, copies>>

\* Mutants: the slot is dropped and handed on at once; the queue is forgotten.
GiveBackTwice(i) ==
    /\ At(i, "untracked") /\ running' = running - 1
    /\ IF parked = <<>>
       THEN run' = [run EXCEPT ![i].at = "returned"] /\ UNCHANGED parked
       ELSE /\ parked' = Tail(parked)
            /\ run' = [run EXCEPT ![i].at = "returned", ![Head(parked)].at = "woken"]
    /\ UNCHANGED <<books, writer, req, edit, watched, copies>>

GiveBackAlone(i) ==
    /\ At(i, "untracked") /\ Go(i, "returned")
    /\ running' = running - 1
    /\ UNCHANGED <<books, parked, writer, req, edit, watched, copies>>

\* The slot goes straight to the oldest parked run; only without one is it freed.
GiveBack(i) ==
    /\ At(i, "untracked")
    /\ IF parked = <<>>
       THEN Go(i, "returned") /\ running' = running - 1 /\ UNCHANGED parked
       ELSE /\ parked' = Tail(parked) /\ UNCHANGED running
            /\ run' = [run EXCEPT ![i].at = "returned", ![Head(parked)].at = "woken"]
    /\ UNCHANGED <<books, writer, req, edit, watched, copies>>

-----------------------------------------------------------------------------
(* The child, and what follows it *)

\* The child's index lands in the database; a resident copy and the loads in flight are
\* old from here on.
ChildCommit(i) ==
    /\ Alive(i) /\ run[i].outcome = "none"
    /\ run' = [run EXCEPT ![i].outcome = "committed"]
    /\ resident' = [resident EXCEPT ![Root(i)] = "old"]
    /\ loads' = [loads EXCEPT ![Root(i)] = IF @ = {} THEN @ ELSE {"old"}]
    /\ UNCHANGED <<books, slots, writer, req, edit, watched>>

\* The process is gone: with its result marker ("completed" for a full walk,
\* "partial" for a seed or a rejected walk), or without it - an error, a crash or
\* the timeout's SIGKILL, on either side of the commit.
ChildClose(i) ==
    /\ Alive(i)
    /\ \E o \in {"completed", "partial", "failed"} :
        /\ o = "completed" => run[i].outcome = "committed"
        /\ run' = [run EXCEPT ![i].at = "closed", ![i].outcome = o]
    /\ UNCHANGED <<books, slots, writer, req, edit, watched, copies>>

\* trackExternalWriter's finally.
Untrack(i) ==
    /\ At(i, "closed") /\ Go(i, "untracked")
    /\ writer' = [writer EXCEPT ![Root(i)] = IF @ = i THEN NoRun ELSE @]
    /\ UNCHANGED <<books, slots, req, edit, watched, copies>>

\* dropResidentCaches and its mutant: a child without a result is not adopted.
DropIfAnswered(i) ==
    resident' = IF run[i].outcome = "failed" THEN resident ELSE [resident EXCEPT ![Root(i)] = "current"]
DropResident(i) == resident' = [resident EXCEPT ![Root(i)] = "current"]

\* adoptChildIndex up to its first await, or the catch: the resident caches go
\* whatever the outcome, and wants.watch is read here, once.
Adopt(i) ==
    /\ At(i, "returned") /\ DropResident(i)
    /\ Go(i, IF run[i].outcome = "completed" THEN "adopting" ELSE "done")
    /\ watched' = IF run[i].outcome = "completed" /\ run[i].watch
                  THEN watched \cup {Root(i)} ELSE watched
    /\ UNCHANGED <<books, slots, writer, req, edit, loads>>

\* The rest of adoptChildIndex: frameworks, lastFullIndexAt; the promise resolves.
Adopted(i) ==
    /\ At(i, "adopting") /\ Go(i, "done")
    /\ UNCHANGED <<books, slots, writer, req, edit, watched, copies>>

\* The bookkeeping `finally` of the run, which forgets it only if it is still the
\* one the maps name.
Forget(i) ==
    /\ At(i, "done") /\ (byKey[run[i].key] = i \/ tail[Root(i)] = i)
    /\ byKey' = [byKey EXCEPT ![run[i].key] = IF @ = i THEN NoRun ELSE @]
    /\ tail' = [tail EXCEPT ![Root(i)] = IF @ = i THEN NoRun ELSE @]
    /\ UNCHANGED <<run, slots, writer, req, edit, watched, copies>>

-----------------------------------------------------------------------------
(* This process's incremental writes: awaitExternalWriter, then the commit *)

Arrive(e) ==
    /\ edit[e].at = "idle"
    /\ LET now == writer[EditRoot[e]] IN
       edit' = [edit EXCEPT ![e] = [at |-> IF now = NoRun THEN "passed" ELSE "waiting", run |-> now]]
    /\ UNCHANGED <<run, books, slots, writer, req, watched, copies>>

\* Mutant: one await instead of a loop.
PassOnce(e) ==
    /\ edit[e].at = "waiting" /\ Settled(edit[e].run)
    /\ edit' = [edit EXCEPT ![e].at = "passed", ![e].run = NoRun]
    /\ UNCHANGED <<run, books, slots, writer, req, watched, copies>>

\* The awaited child is gone.  Another may have been registered meanwhile: look again.
Pass(e) ==
    /\ edit[e].at = "waiting" /\ Settled(edit[e].run)
    /\ LET now == writer[EditRoot[e]] IN
       IF now \in {NoRun, edit[e].run}
       THEN edit' = [edit EXCEPT ![e].at = "passed", ![e].run = NoRun]
       ELSE edit' = [edit EXCEPT ![e].run = now]
    /\ UNCHANGED <<run, books, slots, writer, req, watched, copies>>

\* The write itself, which drops the resident copy after its own commit.
EditCommit(e) ==
    /\ edit[e].at = "passed"
    /\ edit' = [edit EXCEPT ![e] = NoEdit]
    /\ resident' = [resident EXCEPT ![EditRoot[e]] = "current"]
    /\ UNCHANGED <<run, books, slots, writer, req, watched, loads>>

-----------------------------------------------------------------------------
(* Loads: getCodeIndex, of tools that ask for the index of a root             *)

\* No copy is resident: a load takes its snapshot of the database.  Several may be in flight.
Load(r) ==
    /\ resident[r] = "current"
    /\ loads' = [loads EXCEPT ![r] = @ \cup {"current"}]
    /\ UNCHANGED <<run, books, slots, writer, req, edit, watched, resident>>

\* A load ends and remembers what it read, whatever was committed and dropped meanwhile.
Publish(r) ==
    /\ \E l \in loads[r] :
         /\ resident' = [resident EXCEPT ![r] = IF l = "old" THEN "raced" ELSE "current"]
         /\ \E rest \in {loads[r], loads[r] \ {l}} : loads' = [loads EXCEPT ![r] = rest]
    /\ UNCHANGED <<run, books, slots, writer, req, edit, watched>>

-----------------------------------------------------------------------------

Progress(i) ==
    \/ Start(i) \/ Resume(i) \/ ChildClose(i) \/ Untrack(i) \/ GiveBack(i)
    \/ Adopt(i) \/ Adopted(i) \/ Forget(i)

Next ==
    \/ \E q \in Requests :
         \/ \E k \in Keys, w \in Watches : Join(q, k, w) \/ Create(q, k, w)
         \/ Answer(q)
    \/ \E i \in RunIds : Progress(i) \/ ChildCommit(i)
    \/ \E e \in Edits : Arrive(e) \/ Pass(e) \/ EditCommit(e)
    \/ \E r \in Loaded : Load(r) \/ Publish(r)

\* The event loop runs what is ready, and a child that hangs is killed
\* (armChildTimeout), so every child closes.
Fairness ==
    /\ \A i \in RunIds : WF_vars(Progress(i))
    /\ \A q \in Requests : WF_vars(Answer(q))
    /\ \A e \in Edits : WF_vars(Pass(e))

Spec == Init /\ [][Next]_vars /\ Fairness

-----------------------------------------------------------------------------

TypeOK ==
    /\ run \in [RunIds -> [at : {"unborn", "chained", "parked", "woken", "alive", "closed",
                                 "untracked", "returned", "adopting", "done"},
                           key : Keys, prev : 0..MaxRuns, watch : BOOLEAN,
                           outcome : {"none", "committed", "completed", "partial", "failed"}]]
    /\ byKey \in [Keys -> 0..MaxRuns] /\ tail \in [Roots -> 0..MaxRuns]
    /\ running \in Nat /\ parked \in Seq(RunIds)
    /\ writer \in [Roots -> 0..MaxRuns]
    /\ req \in [Requests -> [at : {"idle", "waiting", "answered"}, run : 0..MaxRuns,
                             watch : BOOLEAN, late : BOOLEAN]]
    /\ edit \in [Edits -> [at : {"idle", "waiting", "passed"}, run : 0..MaxRuns]]
    /\ watched \subseteq Roots
    /\ resident \in [Roots -> {"current", "old", "raced"}]
    /\ loads \in [Roots -> SUBSET {"current", "old"}]

\* Two children never rewrite the same index at once, whatever their options
\* (folder-indexer.ts childRunTailByRoot).
OneWriterPerRoot ==
    \A i, j \in RunIds : Alive(i) /\ Alive(j) /\ Root(i) = Root(j) => i = j

\* No slot is lost or counted twice: the counter equals the runs that hold one,
\* and a run waits for a slot only while all of them are held.
SlotsHeld ==
    /\ running = Cardinality({i \in RunIds : run[i].at \in {"woken", "alive", "closed", "untracked"}})
    /\ parked # <<>> => running = Cap

\* The write barrier knows every live child: an edit that asks is told of it.
AliveIsTracked == \A i \in RunIds : Alive(i) => writer[Root(i)] = i

\* A copy that was resident when a child committed is only ever there while a child's run
\* of that root has yet to be adopted - failed, killed and partial runs included.  Not meant
\* is what a load begun before the commit publishes after it ("raced"): getCodeIndex
\* remembers it unconditionally (registry.ts:318), after the adoption's drop too, and there
\* it stays until another drop or an eviction.
StaleOnlyUntilAdopted ==
    \A r \in Roots : resident[r] = "old" =>
        \E i \in RunIds : Root(i) = r /\ run[i].at \in {"alive", "closed", "untracked", "returned"}

\* A caller that asked for a watcher before its run read the wish has one when it
\* is answered and the run walked the whole tree, even if the call it joined had
\* not asked (folder-indexer.ts ChildRun.wants).
EarlyWatchHonoured ==
    [][\A q \in Requests :
         /\ req[q].at = "waiting" /\ req'[q].at = "answered"
         /\ req[q].watch /\ ~ req[q].late /\ run[req[q].run].outcome = "completed"
         => Root(req[q].run) \in watched]_vars

\* What the comment on ChildRun.wants says of every caller, late ones included.
AnyAskerIsWatched ==
    [][\A q \in Requests :
         /\ req[q].at = "waiting" /\ req'[q].at = "answered"
         /\ req[q].watch /\ run[req[q].run].outcome = "completed"
         => Root(req[q].run) \in watched]_vars

\* An incremental write never gets through the barrier while a child is alive on
\* its root, however many children came and went while it waited.
NoPassDuringChild ==
    [][\A e \in Edits :
         edit'[e].at = "passed" /\ edit[e].at # "passed"
         => \A i \in RunIds : Alive(i) => Root(i) # EditRoot[e]]_vars

\* Every request is answered, behind chains, slots, failed and killed children.
RequestAnswered ==
    \A q \in Requests : req[q].at = "waiting" ~> req[q].at = "answered"

\* Every incremental write gets through.
EditPasses == \A e \in Edits : edit[e].at = "waiting" ~> edit[e].at = "passed"

\* The children that are alive are a bounded semaphore with Cap places.
Places == INSTANCE Semaphore WITH Members <- RunIds, inside <- {i \in RunIds : Alive(i)}
CapRespected == Places!Spec

=============================================================================
