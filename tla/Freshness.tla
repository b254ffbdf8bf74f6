------------------------------ MODULE Freshness ------------------------------
(***************************************************************************)
(* ensureIndexFresh: the index follows git HEAD.  The registry holds the   *)
(* commit the index is believed to describe; a check that finds another    *)
(* HEAD indexes what the diff names, or the whole folder, and records the  *)
(* new commit (file-indexer.ts).  Beside it run index_folder, which        *)
(* records HEAD too (folder-indexer.ts), single-file calls, and git.       *)
(*                                                                         *)
(* The working tree is HEAD's: uncommitted edits are FileIndexing's.  What *)
(* index_file or a walk leaves in the row is what it read; FileIndexing    *)
(* says when.                                                              *)
(***************************************************************************)
EXTENDS Naturals, FiniteSets

CONSTANTS
    Files, Commits, Contents,
    Tree,        \* the content of each file at each commit
    First,       \* the commit index_folder found first
    Absent,      \* no such file, no row
    NoCommit,    \* the registry entry has no last_git_commit
    Unread,
    Calls,       \* calls that may be in flight together
    MaxDiff,     \* MAX_DIFF_FILES
    MaxMoves,    \* bound on HEAD's moves
    MaxMishaps   \* bound on failures and crashes

ASSUME FreshnessAssumption ==
    /\ First \in Commits /\ Absent \notin Contents /\ NoCommit \notin Commits /\ Unread \notin Contents \cup {Absent}
    /\ Tree \in [Commits -> [Files -> Contents \cup {Absent}]]
    /\ MaxDiff \in Nat /\ MaxMoves \in Nat /\ MaxMishaps \in Nat

VARIABLES
    head,      \* the commit git has checked out
    row,       \* the index: the content each file's row describes
    last,      \* last_git_commit in the registry
    checked,   \* freshnessChecked: a check within FRESHNESS_INTERVAL_MS
    call,      \* per call: its kind, where it is, what it has read
    moves, mishaps,
    trail,     \* contents each file has had since the index last matched `last`
    lapsed     \* files that may be behind for a reason below

\* `trail` and `lapsed` are for the properties only.  A file lapses when
\*  - it could not be indexed, or a call recorded a commit without indexing it
\*    (its diff failed; its walk was rejected or skipped);
\*  - index_folder recorded a HEAD that had moved during its walk;
\*  - an older read of it was saved over a newer one;
\*  - it got back a content it had had while a call was under way or cut short.
vars == <<head, row, last, checked, call, moves, mishaps, trail, lapsed>>
registry == <<last, checked>>
git == <<head, moves, trail>>

\* `stayed`, for the properties only: HEAD has not moved since the call read it.
NoCall == [kind |-> "refresh", at |-> "idle", from |-> NoCommit, cur |-> NoCommit, todo |-> {},
           held |-> [f \in Files |-> Unread], late |-> {}, miss |-> "none", stayed |-> TRUE]

Init ==
    /\ head = First /\ last = First /\ row = Tree[First]
    /\ checked = FALSE
    /\ call = [c \in Calls |-> NoCall]
    /\ moves = 0 /\ mishaps = 0
    /\ trail = [f \in Files |-> {row[f]}] /\ lapsed = {}

At(c, s) == call[c].at = s
Is(c, k) == call[c].kind = k
End(c) == call' = [call EXCEPT ![c] = NoCall]
OnDisk(f) == Tree[head][f]
Mishap == mishaps < MaxMishaps /\ mishaps' = mishaps + 1

\* git diff --diff-filter=ACMR: what a deletion removed is not named.
Changed(a, b) == {f \in Files : Tree[a][f] # Tree[b][f] /\ Tree[b][f] # Absent}

\* The index is what `last` says, and nothing is under way.
Quiet ==
    /\ \A c \in Calls : At(c, "idle")
    /\ last # NoCommit
    /\ \A f \in Files : Tree[last][f] # Absent => row[f] = Tree[last][f]

-----------------------------------------------------------------------------
(* git and time *)

Checkout(h) ==
    /\ moves < MaxMoves /\ moves' = moves + 1 /\ h # head
    /\ head' = h
    /\ call' = [c \in Calls |-> [call[c] EXCEPT !.stayed = At(c, "idle")]]
    /\ trail' = [f \in Files |-> {Tree[h][f]} \cup IF Quiet THEN {row[f]} ELSE trail[f]]
    /\ lapsed' = lapsed \cup
         IF Quiet THEN {} ELSE {f \in Files : Tree[h][f] # OnDisk(f) /\ Tree[h][f] \in trail[f]}
    /\ UNCHANGED <<row, registry, mishaps>>

IntervalEnds == checked /\ checked' = FALSE /\ UNCHANGED <<git, row, last, call, mishaps, lapsed>>

-----------------------------------------------------------------------------
(* ensureIndexFresh *)

\* Not within the interval: the registry entry is read, and git asked for HEAD.
Begin(c) ==
    /\ At(c, "idle") /\ ~ checked
    /\ call' = [call EXCEPT ![c].at = "asked", ![c].kind = "refresh", ![c].from = last]
    /\ UNCHANGED <<git, row, registry, mishaps, lapsed>>

RevParseFails(c) ==
    /\ At(c, "asked") /\ Mishap /\ End(c) /\ checked' = TRUE
    /\ UNCHANGED <<git, row, last, lapsed>>

\* The answer: the commit read before, and the check ends, or another.
RevParse(c) ==
    /\ At(c, "asked")
    /\ IF call[c].from = head
       THEN End(c) /\ checked' = TRUE
       ELSE /\ call' = [call EXCEPT ![c].at = "moved", ![c].cur = head, ![c].stayed = TRUE]
            /\ UNCHANGED checked
    /\ UNCHANGED <<git, row, last, mishaps, lapsed>>

\* A few files are indexed one by one; too many, or no commit to diff from, is a
\* walk; none at all goes on to record the commit.
Plan(c, files) ==
    IF files # {} /\ Cardinality(files) <= MaxDiff
    THEN call' = [call EXCEPT ![c].at = "files", ![c].todo = files]
    ELSE IF files # {} \/ call[c].from = NoCommit
    THEN call' = [call EXCEPT ![c].at = "walk", ![c].todo = Files]
    ELSE call' = [call EXCEPT ![c].at = "update"]

Diff(c) ==
    /\ At(c, "moved")
    /\ Plan(c, IF call[c].from = NoCommit THEN {} ELSE Changed(call[c].from, call[c].cur))
    /\ UNCHANGED <<git, row, registry, mishaps, lapsed>>

\* The stored commit is gone, or git ran out of time: changedFiles is empty.
DiffFails(c) ==
    /\ At(c, "moved") /\ call[c].from # NoCommit /\ Mishap
    /\ call' = [call EXCEPT ![c].at = "update", ![c].miss = "diff"]
    /\ UNCHANGED <<git, row, registry, lapsed>>

\* Mutant: HEAD is asked again at the end.
UpdateToHead(c) ==
    /\ At(c, "update") /\ End(c)
    /\ last' = head /\ checked' = TRUE
    /\ lapsed' = IF call[c].miss = "none" THEN lapsed ELSE Files
    /\ UNCHANGED <<git, row, mishaps>>

\* updateRepoMeta with the commit read at the start, and the throttle.
Update(c) ==
    /\ At(c, "update") /\ End(c)
    /\ last' = call[c].cur /\ checked' = TRUE
    /\ lapsed' = IF call[c].miss = "none" THEN lapsed ELSE Files
    /\ UNCHANGED <<git, row, mishaps>>

-----------------------------------------------------------------------------
(* index_file, from the loop above or on its own (the hook, the watcher) *)

BeginFile(c, f) ==
    /\ At(c, "idle")
    /\ call' = [call EXCEPT ![c].at = "files", ![c].kind = "file", ![c].todo = {f}]
    /\ UNCHANGED <<git, row, registry, mishaps, lapsed>>

Holds(c, f) == call[c].held[f] # Unread

\* One file at a time.  A file that is gone is held as such: its row is removed.
Read(c, f) ==
    /\ At(c, "files") /\ f \in call[c].todo /\ \A g \in Files : ~ Holds(c, g)
    /\ call' = [call EXCEPT ![c].held[f] = OnDisk(f)]
    /\ UNCHANGED <<git, row, registry, mishaps, lapsed>>

\* The call once f is dealt with: the next file, or what follows the loop.
After(c, f) ==
    LET rest == call[c].todo \ {f} IN
    IF rest # {} THEN [call[c] EXCEPT !.todo = rest, !.held[f] = Unread, !.late = @ \ {f}]
    ELSE IF Is(c, "refresh")
    THEN [call[c] EXCEPT !.at = "update", !.todo = {}, !.held[f] = Unread, !.late = {}]
    ELSE NoCall

\* The others' reads of the files c saves, when they are not of what c saves.
Outdate(c, files) ==
    [d \in Calls \ {c} |->
        [call[d] EXCEPT !.late = @ \cup {f \in files : Holds(d, f) /\ call[d].held[f] # call[c].held[f]}]]

\* Mutant: a file that could not be read is saved all the same.
SaveUnread(c, f) ==
    /\ At(c, "files") /\ f \in call[c].todo
    /\ row' = [row EXCEPT ![f] = call[c].held[f]]
    /\ call' = [d \in Calls |-> IF d = c THEN After(c, f) ELSE Outdate(c, {f})[d]]
    /\ lapsed' = lapsed \cup (call[c].late \cap {f})
    /\ UNCHANGED <<git, registry, mishaps>>

\* saveIncremental, or the removal of the row.
Save(c, f) ==
    /\ At(c, "files") /\ Holds(c, f)
    /\ row' = [row EXCEPT ![f] = call[c].held[f]]
    /\ call' = [d \in Calls |-> IF d = c THEN After(c, f) ELSE Outdate(c, {f})[d]]
    /\ lapsed' = lapsed \cup (call[c].late \cap {f})
    /\ UNCHANGED <<git, registry, mishaps>>

\* indexFile throws - a parse error, a busy database: the loop goes on.
FileFails(c, f) ==
    /\ At(c, "files") /\ f \in call[c].todo /\ (\A g \in Files \ {f} : ~ Holds(c, g)) /\ Mishap
    /\ call' = [call EXCEPT ![c] = After(c, f)]
    /\ lapsed' = lapsed \cup {f}
    /\ UNCHANGED <<git, row, registry>>

-----------------------------------------------------------------------------
(* index_folder, from a check or on its own *)

BeginFolder(c) ==
    /\ At(c, "idle")
    /\ call' = [call EXCEPT ![c].at = "walk", ![c].kind = "folder", ![c].todo = Files]
    /\ UNCHANGED <<git, row, registry, mishaps, lapsed>>

\* Each file is read, or kept on its mtime, at its own moment.
Walk(c, f) ==
    /\ At(c, "walk") /\ f \in call[c].todo
    /\ call' = [call EXCEPT ![c].held[f] = OnDisk(f), ![c].todo = @ \ {f}]
    /\ UNCHANGED <<git, row, registry, mishaps, lapsed>>

\* A file that does not parse is left out of the index.
WalkMisses(c, f) ==
    /\ At(c, "walk") /\ f \in call[c].todo /\ Mishap
    /\ call' = [call EXCEPT ![c].held[f] = Absent, ![c].todo = @ \ {f}]
    /\ lapsed' = lapsed \cup {f}
    /\ UNCHANGED <<git, row, registry>>

\* The whole index is replaced.
SaveWalk(c) ==
    /\ At(c, "walk") /\ call[c].todo = {}
    /\ row' = call[c].held
    /\ call' = [d \in Calls |->
                  IF d = c THEN [call[c] EXCEPT !.at = "saved", !.held = NoCall.held, !.late = {}]
                  ELSE Outdate(c, Files)[d]]
    /\ lapsed' = lapsed \cup call[c].late
    /\ UNCHANGED <<git, registry, mishaps>>

\* Nothing walked (the watcher is active and the last index recent) or nothing
\* kept (the sanity check): the caller is told, and a check does not look.
NotWalked(c) ==
    /\ At(c, "walk") /\ Mishap
    /\ call' = [call EXCEPT ![c] = IF Is(c, "refresh")
                  THEN [NoCall EXCEPT !.at = "update", !.cur = call[c].cur, !.miss = "walk",
                                      !.stayed = call[c].stayed]
                  ELSE NoCall]
    /\ UNCHANGED <<git, row, registry, lapsed>>

\* The walk, its save or a write of the registry throws; so does the call, with
\* nothing recorded.
Throws(c) ==
    /\ At(c, "walk") \/ At(c, "saved") \/ At(c, "update")
    /\ Mishap /\ End(c)
    /\ UNCHANGED <<git, row, registry, lapsed>>

\* registerRepo writes a new entry, which has no last_git_commit.
Register(c) ==
    /\ At(c, "saved") /\ last' = NoCommit
    /\ call' = [call EXCEPT ![c].at = "registered"]
    /\ UNCHANGED <<git, row, checked, mishaps, lapsed>>

\* HEAD is asked only now; `from`, no longer needed, keeps the answer.
AskHead(c) ==
    /\ At(c, "registered")
    /\ call' = [call EXCEPT ![c].at = "stamping", ![c].from = head]
    /\ lapsed' = IF call[c].stayed THEN lapsed ELSE Files
    /\ UNCHANGED <<git, row, registry, mishaps>>

\* A check goes on to record what it read; index_folder on its own is done.
Indexed(c) ==
    call' = [call EXCEPT ![c] = IF Is(c, "refresh") THEN [@ EXCEPT !.at = "update"] ELSE NoCall]

Stamp(c) ==
    /\ At(c, "stamping") /\ Indexed(c)
    /\ last' = call[c].from
    /\ UNCHANGED <<git, row, checked, mishaps, lapsed>>

\* git or the registry fails: the folder is indexed, with no commit recorded.
StampFails(c) ==
    /\ At(c, "registered") \/ At(c, "stamping")
    /\ Mishap /\ Indexed(c)
    /\ UNCHANGED <<git, row, registry, lapsed>>

-----------------------------------------------------------------------------

\* The daemon dies with its checks and its throttle; hooks and index children,
\* which are processes of their own, may die or go on.
Crash ==
    /\ Mishap /\ checked' = FALSE
    /\ \E others \in SUBSET {c \in Calls : ~ Is(c, "refresh")} :
        call' = [c \in Calls |-> IF c \in others THEN call[c] ELSE NoCall]
    /\ UNCHANGED <<git, row, last, lapsed>>

Refresh(c) ==
    Begin(c) \/ RevParse(c) \/ RevParseFails(c) \/ Diff(c) \/ DiffFails(c) \/ Update(c)

IndexFolder(c) ==
    \/ \E f \in Files : Walk(c, f) \/ WalkMisses(c, f)
    \/ BeginFolder(c) \/ SaveWalk(c) \/ NotWalked(c)
    \/ Register(c) \/ AskHead(c) \/ Stamp(c) \/ StampFails(c) \/ Throws(c)

IndexFile(c, f) == BeginFile(c, f) \/ Read(c, f) \/ Save(c, f) \/ FileFails(c, f)

Next ==
    \/ \E h \in Commits : Checkout(h)
    \/ \E c \in Calls : Refresh(c) \/ IndexFolder(c) \/ \E f \in Files : IndexFile(c, f)
    \/ IntervalEnds \/ Crash

Spec == Init /\ [][Next]_vars

-----------------------------------------------------------------------------

TypeOK ==
    /\ head \in Commits /\ last \in Commits \cup {NoCommit} /\ checked \in BOOLEAN
    /\ row \in [Files -> Contents \cup {Absent}]
    /\ call \in [Calls -> [kind : {"refresh", "file", "folder"},
                           at : {"idle", "asked", "moved", "files", "walk", "saved", "registered",
                                 "stamping", "update"},
                           from : Commits \cup {NoCommit}, cur : Commits \cup {NoCommit},
                           todo : SUBSET Files, held : [Files -> Contents \cup {Absent, Unread}],
                           late : SUBSET Files, miss : {"none", "diff", "walk"}, stayed : BOOLEAN]]
    /\ moves \in 0..MaxMoves /\ mishaps \in 0..MaxMishaps
    /\ trail \in [Files -> SUBSET (Contents \cup {Absent})] /\ lapsed \subseteq Files

\* When the registry names HEAD's commit - so that every later check says "fresh" -
\* each file of it that has not lapsed is in the index, whatever calls overlapped,
\* however HEAD moved under them and wherever they were cut short
\* (ensureIndexFresh reads HEAD before the files and records it after them).
FreshMeansIndexed ==
    last = head => \A f \in Files \ lapsed : OnDisk(f) # Absent => row[f] = OnDisk(f)

\* What the comment on a failed diff says: "will do full incremental".
LostCommitIsReindexed ==
    [][\A c \in Calls :
         /\ At(c, "update") /\ call[c].miss = "diff" /\ call[c].stayed
         /\ last' = call[c].cur /\ call'[c].at = "idle"
         => \A f \in Files \ lapsed : OnDisk(f) # Absent => row'[f] = OnDisk(f)]_vars

=============================================================================
