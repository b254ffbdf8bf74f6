------------------------------ MODULE ToolCalls ------------------------------
(***************************************************************************)
(* How a tool call is answered (server-helpers.ts wrapTool, runtime.ts     *)
(* registerToolDefinition, handler-wrappers.ts withTimeout and withCache): *)
(* from the response cache, by joining a call in flight, from the memo     *)
(* keyed by the index version, or by running the handler - while           *)
(* index_file, the watcher and other processes change the index.           *)
(*                                                                         *)
(* The index is its version.  A handler looks at it once, in memory or by  *)
(* a load of one step (the races of a load are CodeIndexCache's).          *)
(***************************************************************************)
EXTENDS Naturals, Sequences, SequencesExt

CONSTANTS
    Callers,
    Runs,        \* handlers that may be running together
    Searches,    \* calls answered by wrapTool's own cache: a tool and its arguments
    Audits,      \* calls of `cacheable` tools
    Index,       \* a call of index_file: it changes the index, and never times out
    None,
    CacheMax,    \* CACHE_MAX_SIZE
    MemoMax,     \* CACHE_MAX_ENTRIES
    MaxVersion,  \* bound on the commits
    MaxMishaps   \* bound on errors and on handlers that never return

ASSUME ToolCallsAssumption ==
    /\ CacheMax \in Nat \ {0} /\ MemoMax \in Nat \ {0} /\ MaxVersion \in Nat /\ MaxMishaps \in Nat
    /\ None \notin Nat \cup Runs /\ Searches \cap Audits = {} /\ Index \notin Searches \cup Audits

VARIABLES
    rows,      \* the version committed; getRepoVersionToken is a function of it
    resident,  \* the version in `codeIndexes`, or None
    watcher,   \* the version a watcher has committed and not yet dropped from memory
    cache,     \* responseCache, oldest first
    memo,      \* withCache's map, least recent first: a pending run, or an answer
    run,       \* per handler
    caller,    \* per caller: the run it waits for; or how fresh its last answer was
    done,      \* newest version whose index_file has returned
    mine,      \* newest version whose write by this process, index_file or watcher, is over
    mishaps

vars == <<rows, resident, watcher, cache, memo, run, caller, done, mine, mishaps>>

Keys == Searches \cup Audits \cup {Index}
\* For the properties: `given`, a caller was told timed_out; `crossed`, a write of this
\* process overlapped the run; `floor`, the write a caller may count on;
\* `fresh`, its answer has it, or was computed while this process was writing.
NoRun == [at |-> "idle", key |-> Index, ver |-> 0, crossed |-> FALSE, given |-> FALSE]
NoCall == [run |-> None, floor |-> 0, fresh |-> TRUE]

Init ==
    /\ rows = 0 /\ done = 0 /\ mine = 0 /\ mishaps = 0
    /\ resident \in {None, 0} /\ watcher = None
    /\ cache = <<>> /\ memo = <<>>
    /\ run = [r \in Runs |-> NoRun]
    /\ caller = [c \in Callers |-> NoCall]

At(r, s) == run[r].at = s
Go(r, s) == run' = [run EXCEPT ![r].at = s]
Mishap == mishaps < MaxMishaps /\ mishaps' = mishaps + 1
InFlight(key) == {r \in Runs : run[r].at # "idle" /\ run[r].key = key}
Waiting(c) == caller[c].run # None

\* Writes of this process that have committed and not yet returned.
Writing == {r \in Runs : run[r].at \in {"committed", "dropped"}}
Cross(runs) == [r \in Runs |-> IF runs[r].key = Index THEN runs[r] ELSE [runs[r] EXCEPT !.crossed = TRUE]]

-----------------------------------------------------------------------------
(* Calls *)

Floor(key) == IF key \in Audits THEN mine ELSE done
Join(c, key, r) == caller' = [caller EXCEPT ![c] = [run |-> r, floor |-> Floor(key), fresh |-> TRUE]]
Given(floor, ver, crossed) == [run |-> None, floor |-> 0, fresh |-> crossed \/ ver >= floor]
Reply(c, key, e) == caller' = [caller EXCEPT ![c] = Given(Floor(key), e.ver, e.crossed)]

Execute(c, key, r) ==
    /\ At(r, "idle")
    /\ run' = [run EXCEPT ![r] = [NoRun EXCEPT !.at = "started", !.key = key,
                 !.crossed = key # Index /\ (watcher # None \/ Writing # {})]]
    /\ Join(c, key, r)

\* wrapTool: a completed answer, else the call in flight, else the handler.
Cached(c, key) ==
    /\ ~Waiting(c)
    /\ \E i \in DOMAIN cache :
         cache[i].key = key /\ Reply(c, key, cache[i])
    /\ UNCHANGED <<rows, resident, watcher, cache, memo, run, done, mine, mishaps>>
Uncached(c, key) ==
    /\ ~Waiting(c) /\ \A i \in DOMAIN cache : cache[i].key # key
    /\ IF InFlight(key) # {} THEN \E r \in InFlight(key) : Join(c, key, r) /\ UNCHANGED run
       ELSE \E r \in Runs : Execute(c, key, r)
    /\ UNCHANGED <<rows, resident, watcher, cache, memo, done, mine, mishaps>>

\* withCache, keyed by the version the index has now: an answer or a promise to join
\* (moved to the recent end), else wrapTool's handler, remembered before it settles.
Entries(key) == {i \in DOMAIN memo : memo[i].key = key /\ memo[i].token = rows}
Remember(entries) == IF Len(entries) > MemoMax THEN Tail(entries) ELSE entries
Forget(entries) ==
    \/ \E i \in entries : memo' = RemoveAt(memo, i)
    \/ entries = {} /\ UNCHANGED memo
Audit(c, key) ==
    /\ ~Waiting(c)
    /\ \/ \E i \in Entries(key) :
            /\ memo' = Append(RemoveAt(memo, i), memo[i])
            /\ IF memo[i].run # None THEN Join(c, key, memo[i].run) ELSE Reply(c, key, memo[i])
            /\ UNCHANGED run
       \/ /\ Entries(key) = {}
          /\ \E r \in Runs :
            /\ Execute(c, key, r)
            /\ memo' = Remember(Append(memo, [key |-> key, token |-> rows, run |-> r, ver |-> 0, crossed |-> FALSE]))
    /\ UNCHANGED <<rows, resident, watcher, cache, done, mine, mishaps>>

\* Variant: nothing is evicted.
TimeOutKeeps(c) ==
    /\ Waiting(c) /\ run[caller[c].run].key # Index
    /\ caller' = [caller EXCEPT ![c] = NoCall]
    /\ run' = [run EXCEPT ![caller[c].run].given = TRUE]
    /\ UNCHANGED <<rows, resident, watcher, cache, memo, done, mine, mishaps>>
\* withTimeout: the caller is told, the work goes on.  A memo entry under the version
\* the index has by now is evicted; wrapTool's own map is left alone.
TimeOut(c) ==
    /\ Waiting(c) /\ run[caller[c].run].key # Index
    /\ caller' = [caller EXCEPT ![c] = NoCall]
    /\ run' = [run EXCEPT ![caller[c].run].given = TRUE]
    /\ LET key == run[caller[c].run].key IN Forget(IF key \in Audits THEN Entries(key) ELSE {})
    /\ UNCHANGED <<rows, resident, watcher, cache, done, mine, mishaps>>

-----------------------------------------------------------------------------
(* Handlers *)

Reads(r) ==
    /\ At(r, "started") /\ run[r].key # Index
    /\ resident' = IF resident = None THEN rows ELSE resident
    /\ run' = [run EXCEPT ![r].at = "read", ![r].ver = resident']
    /\ UNCHANGED <<rows, watcher, cache, memo, caller, done, mine, mishaps>>

\* Everyone who joined has the outcome, which may hold data of the index.
Answered(r, data) ==
    caller' = [c \in Callers |->
      IF caller[c].run # r THEN caller[c]
      ELSE IF data THEN Given(caller[c].floor, run[r].ver, run[r].crossed)
      ELSE NoCall]

\* Variant: one entry too many.
SetCacheOver(e) ==
    LET kept == IF Len(cache) > CacheMax THEN Tail(cache) ELSE cache IN
    IF \E i \in DOMAIN kept : kept[i].key = e.key
    THEN [i \in DOMAIN kept |-> IF kept[i].key = e.key THEN e ELSE kept[i]]
    ELSE Append(kept, e)
\* setCache: at the limit the oldest goes, whatever the key; a known key keeps its place.
SetCache(e) ==
    LET kept == IF Len(cache) >= CacheMax THEN Tail(cache) ELSE cache IN
    IF \E i \in DOMAIN kept : kept[i].key = e.key
    THEN [i \in DOMAIN kept |-> IF kept[i].key = e.key THEN e ELSE kept[i]]
    ELSE Append(kept, e)

\* The end of a handler: setCache for a search; the memo's promise has its value.
Ends(r) ==
    /\ At(r, "read")
    /\ cache' = IF run[r].key \in Searches
                THEN SetCache([key |-> run[r].key, ver |-> run[r].ver, crossed |-> run[r].crossed]) ELSE cache
    /\ memo' = [i \in DOMAIN memo |->
                  IF memo[i].run = r THEN [memo[i] EXCEPT !.run = None, !.ver = run[r].ver, !.crossed = run[r].crossed]
                  ELSE memo[i]]
    /\ Answered(r, TRUE)
    /\ run' = [run EXCEPT ![r] = NoRun]
    /\ UNCHANGED <<rows, resident, watcher, done, mine, mishaps>>
\* An error is an answer of its own, kept nowhere.
Errs(r) ==
    /\ run[r].at \in {"started", "read"} /\ Mishap
    /\ Forget({i \in DOMAIN memo : memo[i].run = r})
    /\ Answered(r, FALSE)
    /\ run' = [run EXCEPT ![r] = NoRun]
    /\ UNCHANGED <<rows, resident, watcher, cache, done, mine>>
Hangs(r) ==
    /\ At(r, "started") /\ run[r].key # Index /\ Mishap
    /\ Go(r, "hung")
    /\ UNCHANGED <<rows, resident, watcher, cache, memo, caller, done, mine>>

\* index_file: saveIncremental; the secret scan; codeIndexes.delete; and wrapTool clears
\* the cache.  A file that needs no work goes straight to the last.
Commits(r) ==
    /\ At(r, "started") /\ run[r].key = Index /\ rows < MaxVersion
    /\ rows' = rows + 1
    /\ run' = Cross([run EXCEPT ![r].at = "committed", ![r].ver = rows'])
    /\ UNCHANGED <<resident, watcher, cache, memo, caller, done, mine, mishaps>>
Drops(r) ==
    /\ At(r, "committed") /\ resident' = None
    /\ Go(r, "dropped")
    /\ UNCHANGED <<rows, watcher, cache, memo, caller, done, mine, mishaps>>
Later(a, b) == IF a > b THEN a ELSE b
\* Variant: the cache is cleared when the tool is called.
ReturnsCached(r) ==
    /\ At(r, "dropped") \/ (At(r, "started") /\ run[r].key = Index)
    /\ done' = Later(run[r].ver, done) /\ mine' = Later(run[r].ver, mine)
    /\ Answered(r, FALSE)
    /\ run' = Cross([run EXCEPT ![r] = NoRun])
    /\ UNCHANGED <<rows, resident, watcher, cache, memo, mishaps>>
Returns(r) ==
    /\ At(r, "dropped") \/ (At(r, "started") /\ run[r].key = Index)
    /\ cache' = <<>>
    /\ done' = Later(run[r].ver, done) /\ mine' = Later(run[r].ver, mine)
    /\ Answered(r, FALSE)
    /\ run' = Cross([run EXCEPT ![r] = NoRun])
    /\ UNCHANGED <<rows, resident, watcher, memo, mishaps>>

-----------------------------------------------------------------------------
(* Other writers, and time *)

\* handleFileChange: the same commit, and the same drop; no tool has run.
WatcherCommits ==
    /\ watcher = None /\ rows < MaxVersion
    /\ rows' = rows + 1 /\ watcher' = rows' /\ run' = Cross(run)
    /\ UNCHANGED <<resident, cache, memo, caller, done, mine, mishaps>>
WatcherDrops ==
    /\ watcher # None /\ watcher' = None /\ mine' = Later(watcher, mine) /\ run' = Cross(run)
    /\ resident' = None
    /\ UNCHANGED <<rows, cache, memo, caller, done, mishaps>>
\* The CLI hook or another daemon: nothing here is told.
OutsideCommits ==
    /\ rows < MaxVersion /\ rows' = rows + 1
    /\ UNCHANGED <<resident, watcher, cache, memo, run, caller, done, mine, mishaps>>
\* CACHE_TTL_*: an entry out of its time.
Expires ==
    /\ \E i \in DOMAIN cache : cache' = RemoveAt(cache, i)
    /\ UNCHANGED <<rows, resident, watcher, memo, run, caller, done, mine, mishaps>>
\* The LRU of `codeIndexes`.
Evicts ==
    /\ resident # None /\ resident' = None
    /\ UNCHANGED <<rows, watcher, cache, memo, run, caller, done, mine, mishaps>>

Next ==
    \/ \E c \in Callers :
         \/ \E key \in Searches \cup {Index} : Cached(c, key) \/ Uncached(c, key)
         \/ \E key \in Audits : Audit(c, key)
         \/ TimeOut(c)
    \/ \E r \in Runs : Reads(r) \/ Ends(r) \/ Errs(r) \/ Hangs(r) \/ Commits(r) \/ Drops(r) \/ Returns(r)
    \/ WatcherCommits \/ WatcherDrops \/ OutsideCommits \/ Expires \/ Evicts
Spec == Init /\ [][Next]_vars

-----------------------------------------------------------------------------
(* Properties *)

TypeOK ==
    /\ rows \in 0 .. MaxVersion /\ done \in 0 .. rows /\ mine \in done .. rows
    /\ resident \in 0 .. rows \cup {None} /\ watcher \in 1 .. rows \cup {None}
    /\ Len(cache) <= CacheMax /\ Len(memo) <= MemoMax
    /\ \A r \in Runs : run[r].at \in {"idle", "started", "read", "hung", "committed", "dropped"}

\* Whichever of the ways a call is answered - cache, memo, another's run or its own -
\* the answer holds every index_file that returned before the call, and for a cacheable
\* tool every write of the watcher too: unless the handler that computed it ran while
\* this process was writing.
FreshAnswers == \A c \in Callers : caller[c].fresh

\* After a timed_out answer the next call of a cacheable tool runs its handler: it never
\* waits for work that somebody was already told is taking too long.
NoJoinAfterTimeout ==
    [][\A c \in Callers :
         ~Waiting(c) /\ Waiting(c)' /\ run'[caller'[c].run].key \in Audits => ~run'[caller'[c].run].given]_vars
=============================================================================
