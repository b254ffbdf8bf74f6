----------------------------- MODULE IndexedFile -----------------------------
(***************************************************************************)
(* One file of a repository and what the indexer keeps of it: its row, and *)
(* the entry of lastIndexedState (file-indexer.ts); and what index_file    *)
(* promises of the two.  FileIndexing has the steps.                       *)
(***************************************************************************)
EXTENDS Naturals

CONSTANTS
    Calls,      \* calls and handlers that may be in flight together
    Absent      \* no file, no row, no map entry, no hash

VARIABLES
    disk,    \* the file: its mtime, and its content or Absent
    edits,   \* edits so far
    row,     \* its row in the index: mtime and content
    mem,     \* its lastIndexedState entry in this process: mtime and hash
    call     \* per call: its kind, where it is, what it has read

file == <<disk, edits, row, mem, call>>

InFlight == {c \in Calls : call[c].at # "idle"}
OnDisk == disk.content # Absent

Current(r) == IF OnDisk THEN r # Absent /\ r.content = disk.content ELSE r = Absent

\* A call that ran alone, while nobody edited, leaves the row of what is on disk -
\* whether it parsed or skipped, and whatever overlapping calls, hooks, handlers
\* and edits in mid-call came before it.
AloneCallIndexes ==
    [][\A c \in Calls :
         /\ call[c].at \notin {"idle", "failed"} /\ call'[c].at = "idle"
         /\ call[c].alone /\ call[c].since = edits
         => Current(row')]_file

\* A row never claims a newer file than the one it was parsed from: its mtime is
\* that of its content's edit or of an earlier one.  The mtime check relies on it.
RowIsNotAhead == row # Absent => row.mtime <= row.content

\* With nothing in flight, the map never vouches for a row that is not the file's.
MemVouchesForRow ==
    InFlight = {} /\ mem # Absent /\ OnDisk /\ mem.mtime = disk.mtime => Current(row)

=============================================================================
