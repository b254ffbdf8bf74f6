----------------------------- MODULE FileIndexing -----------------------------
(***************************************************************************)
(* One file on its way into the index: index_file and its three ways of    *)
(* skipping work (file-indexer.ts indexFile, lastIndexedState), the        *)
(* post-edit hook - the same code in a fresh process -, the watcher's      *)
(* handlers (watcher.ts), and an editor that changes the file meanwhile.   *)
(*                                                                         *)
(* A content is the number of the edit that first wrote it.  A call reads  *)
(* the file twice: to hash it, and again to parse it.                      *)
(***************************************************************************)
EXTENDS IndexedFile, Sequences

CONSTANTS
    MaxEdits,   \* bound on the editor's changes
    Admitted    \* which of the five hazards below may happen

TornSeed == "an edit between the stat and the read of a first touch"
LostRead == "the file is gone between the stat and the read"
Revert == "an earlier content comes back"
SameTick == "two edits share an mtime"
MixedOverlap == "handlers and hooks overlap other calls"

ASSUME IndexingAssumption ==
    /\ MaxEdits \in Nat /\ Absent \notin Nat \cup [mtime : Nat, content : Nat]
    /\ Admitted \subseteq {TornSeed, LostRead, Revert, SameTick, MixedOverlap}

Kinds == {"tool", "hook", "watch"}
Contents == 0..MaxEdits
Entries == [mtime : Contents, content : Contents]

\* `since` and `alone`, for the properties only: the edits before the call began,
\* and whether no other was in flight at any time during it.
NoCall == [kind |-> "tool", at |-> "idle", known |-> Absent, st |-> 0, hash |-> Absent,
           mtime |-> 0, content |-> 0, since |-> 0, alone |-> TRUE]

Init ==
    /\ disk = [mtime |-> 0, content |-> 0] /\ edits = 0
    /\ row \in {Absent, [mtime |-> 0, content |-> 0]}
    /\ mem = Absent
    /\ call = [c \in Calls |-> NoCall]

At(c, s) == call[c].at = s
Go(c, s) == call' = [call EXCEPT ![c].at = s]
End(c) == call' = [call EXCEPT ![c] = NoCall]
\* Only this process's index_file reads and writes its map.
Remembers(c) == call[c].kind = "tool"

-----------------------------------------------------------------------------
(* The editor *)

FirstRead(c) == At(c, "hash") /\ Remembers(c) /\ call[c].known = Absent

\* A write, a deletion or a re-creation; each moves the mtime, unless two fall in
\* the same millisecond.
Edit ==
    /\ edits < MaxEdits /\ edits' = edits + 1
    /\ TornSeed \in Admitted \/ ~ \E c \in Calls : FirstRead(c)
    /\ \E m \in {edits', disk.mtime}, new \in {edits', Absent} \cup 0..edits :
        /\ m = disk.mtime => SameTick \in Admitted
        /\ new \in 0..edits => Revert \in Admitted
        /\ new = Absent => LostRead \in Admitted \/ ~ \E c \in Calls : At(c, "hash")
        /\ new # disk.content
        /\ disk' = [mtime |-> m, content |-> new]
    /\ UNCHANGED <<row, mem, call>>

-----------------------------------------------------------------------------
(* Calls *)

\* index_file, the hook or a watcher event.  The watcher already knows whether the
\* file was changed or deleted.
Begin(c, k) ==
    /\ At(c, "idle")
    /\ MixedOverlap \in Admitted \/ \A d \in InFlight : {k, call[d].kind} = {"tool"}
    /\ call' = [d \in Calls |->
         IF d = c THEN [NoCall EXCEPT !.kind = k, !.since = edits, !.alone = InFlight = {},
                          !.at = IF k # "watch" THEN "stat"
                                 ELSE IF OnDisk THEN "statAgain" ELSE "remove"]
         ELSE [call[d] EXCEPT !.alone = @ /\ At(d, "idle")]]
    /\ UNCHANGED <<disk, edits, row, mem>>

\* stat: a file that is gone is removed; the mtime of the last indexing is a skip.
Stat(c) ==
    /\ At(c, "stat")
    /\ LET known == IF Remembers(c) THEN mem ELSE Absent IN
       IF ~ OnDisk THEN Go(c, "remove")
       ELSE IF known # Absent /\ known.mtime = disk.mtime THEN End(c)
       ELSE call' = [call EXCEPT ![c].at = "hash", ![c].st = disk.mtime, ![c].known = known]
    /\ UNCHANGED <<disk, edits, row, mem>>

\* The same content as at the last indexing is a skip that refreshes the mtime of the
\* entry it looked up - which may have left the map for another of the same hash.
Hash(c) ==
    /\ At(c, "hash")
    /\ LET known == call[c].known IN
       IF known # Absent /\ OnDisk /\ known.hash = disk.content
       THEN /\ \/ mem # Absent /\ mem.hash = known.hash
                  /\ mem' = [mem EXCEPT !.mtime = call[c].st]
               \/ (mem # known \/ ~ call[c].alone) /\ UNCHANGED mem
            /\ End(c)
       ELSE /\ call' = [call EXCEPT ![c].hash = disk.content,
                          ![c].at = IF known = Absent THEN "lookup" ELSE "statAgain"]
            /\ UNCHANGED mem
    /\ UNCHANGED <<disk, edits, row>>

\* lastIndexedState.set, which needs a hash.
Remember(c) ==
    mem' = IF Remembers(c) /\ call[c].hash # Absent
           THEN [mtime |-> call[c].st, hash |-> call[c].hash] ELSE mem

\* First touch in this process: a row with the file's mtime is a skip as well.
Lookup(c) ==
    /\ At(c, "lookup")
    /\ IF row # Absent /\ row.mtime = call[c].st
       THEN Remember(c) /\ End(c)
       ELSE Go(c, "statAgain") /\ UNCHANGED mem
    /\ UNCHANGED <<disk, edits, row>>

\* The order of parseOneFile's two reads, and its mutant.
ContentFirst == <<"content", "mtime">>
ParseReads == <<"mtime", "content">>
Reading(c, what, next) ==
    IF ~ OnDisk THEN Go(c, "failed")
    ELSE call' = [call EXCEPT ![c].at = next,
                    ![c].mtime = IF what = "mtime" THEN disk.mtime ELSE @,
                    ![c].content = IF what = "content" THEN disk.content ELSE @]

\* The mtime first: the row's is never newer than its content.
StatAgain(c) ==
    /\ At(c, "statAgain") /\ Reading(c, ParseReads[1], "read")
    /\ UNCHANGED <<disk, edits, row, mem>>

ReadAgain(c) ==
    /\ At(c, "read") /\ Reading(c, ParseReads[2], "save")
    /\ UNCHANGED <<disk, edits, row, mem>>

\* Mutant: the map is written before the row is.
RememberEarly(c) ==
    /\ At(c, "save") /\ call[c].hash # Absent /\ Remember(c) /\ End(c)
    /\ UNCHANGED <<disk, edits, row>>

\* saveIncremental, and the map entry right after it.
Save(c) ==
    /\ At(c, "save")
    /\ row' = [mtime |-> call[c].mtime, content |-> call[c].content]
    /\ Remember(c) /\ End(c)
    /\ UNCHANGED <<disk, edits>>

\* A parse or a write that fails: an error, nothing changed.
Fail(c) == At(c, "save") /\ Go(c, "failed") /\ UNCHANGED <<disk, edits, row, mem>>
GiveError(c) == At(c, "failed") /\ End(c) /\ UNCHANGED <<disk, edits, row, mem>>

\* The row of a file that is gone.  Only index_file forgets its map entry as well.
Remove(c) ==
    /\ At(c, "remove") /\ row' = Absent /\ End(c)
    /\ mem' = IF Remembers(c) THEN Absent ELSE mem
    /\ UNCHANGED <<disk, edits>>

-----------------------------------------------------------------------------

Continue(c) ==
    \/ Stat(c) \/ Hash(c) \/ Lookup(c) \/ StatAgain(c) \/ ReadAgain(c)
    \/ Save(c) \/ Fail(c) \/ GiveError(c) \/ Remove(c)

Next ==
    \/ Edit
    \/ \E c \in Calls : Continue(c) \/ \E k \in Kinds : Begin(c, k)

Spec == Init /\ [][Next]_file

-----------------------------------------------------------------------------

TypeOK ==
    /\ disk \in [mtime : Contents, content : Contents \cup {Absent}] /\ edits \in Contents
    /\ row \in Entries \cup {Absent}
    /\ mem \in [mtime : Contents, hash : Contents] \cup {Absent}
    /\ call \in [Calls ->
         [kind : Kinds, at : {"idle", "stat", "hash", "lookup", "statAgain", "read", "save",
                              "failed", "remove"},
          known : [mtime : Contents, hash : Contents] \cup {Absent},
          st : Contents, hash : Contents \cup {Absent},
          mtime : Contents, content : Contents, since : Contents, alone : BOOLEAN]]

=============================================================================
