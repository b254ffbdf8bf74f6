--------------------------- MODULE IndexingProof ---------------------------
(***************************************************************************)
(* The two ways a file gets into an index: a folder walk (FolderWalk), for *)
(* any files, contents and number of overlapping walks, and index_file     *)
(* with its hook and watcher handlers (FileIndexing), for any number of    *)
(* calls and edits.                                                        *)
(*                                                                         *)
(* Folder walks: rows, held or stored, are as old as their mtime - an edit *)
(* brings an mtime that no row has.  A hash is kept with a row only while  *)
(* both are known to be of one content.  Commits take a new time, so a     *)
(* snapshot of another index is never taken for this one's.                *)
(*                                                                         *)
(* Single files: what a call has read is of some moment since it began,    *)
(* its second read is no older than its hash, and a map entry with the     *)
(* hash of what is on disk comes with the row of what is on disk.          *)
(***************************************************************************)
EXTENDS FolderWalk, IndexedFile, TLAPS

CONSTANTS MaxEdits, Admitted    \* FileIndexing's

File == INSTANCE FileIndexing

-----------------------------------------------------------------------------
(* Folder walks *)


Steps == {"out", "decide", "hash", "queued", "drained", "kept", "parse", "read", "parsed", "failed"}
RowSet == [content : Contents, mtime : Nat \ {0}]
Rows == [Files -> RowSet \cup {None}]
Shas == [Files -> Contents \cup {None}]
WalkSet == [at : {"idle", "walk", "saved"}, old : [time : Nat, rows : Rows], shas : Shas,
            scope : SUBSET Files, capped : BOOLEAN, step : [Files -> Steps],
            mtime : [Files -> Nat], rows : Rows, sha : Shas, lone : BOOLEAN]

\* The types the proof needs.
Types ==
    /\ tree \in Rows
    /\ index \in [time : Nat, rows : Rows]
    /\ snapshot \in [time : Nat, shas : Shas]
    /\ walk \in [Walks -> WalkSet]
    /\ edit = None \/ edit \in [file : Files, mtime : Nat \ {0}]
    /\ other = None \/ other \in [time : Nat, shas : Shas]
    /\ clock \in Nat

\* Nothing has a time that is still to come.
Past ==
    /\ \A f \in Files : tree[f] # None => tree[f].mtime <= clock
    /\ index.time <= clock /\ snapshot.time <= clock
    /\ other # None => other.time <= clock
    /\ edit # None => edit.mtime <= clock
    /\ \A w \in Walks : walk[w].old.time <= clock

\* A row of the past that has the file's mtime has the file's content.
Vouches(f, r) ==
    r # None => /\ r.mtime <= clock
                /\ tree[f] # None /\ tree[f].mtime = r.mtime => tree[f].content = r.content
Pair(r, sha) == r # None /\ sha # None => sha = r.content
Pairs(rows, shas) == \A f \in Files : Pair(rows[f], shas[f])

\* A walk that nothing disturbed knows each file of its scope as it is.
Sure(w, f) ==
    /\ walk[w].step[f] = "out" /\ f \in walk[w].scope /\ ~walk[w].capped => tree[f] = None
    /\ walk[w].step[f] # "out" => tree[f] # None /\ f \in walk[w].scope
    /\ walk[w].step[f] # "failed"
    /\ walk[w].step[f] \in {"hash", "queued", "drained", "read"} => walk[w].mtime[f] = Mtime(f)
    /\ walk[w].step[f] \in {"queued", "drained", "kept", "parsed"} =>
         walk[w].rows[f] # None /\ walk[w].rows[f].content = tree[f].content

\* What a walk knows of one file.
Local(w, f) ==
    /\ walk[w].mtime[f] <= clock
    /\ Vouches(f, walk[w].old.rows[f]) /\ Vouches(f, walk[w].rows[f])
    /\ Pair(walk[w].old.rows[f], walk[w].shas[f])
    /\ walk[w].step[f] \notin {"out", "kept", "parsed", "failed"} => At(w, "walk")
    /\ walk[w].step[f] \in {"decide", "hash"} => walk[w].old.rows[f] # None
    /\ walk[w].step[f] = "hash" => walk[w].shas[f] # None
    /\ walk[w].step[f] \in {"hash", "queued", "drained", "read"} => walk[w].mtime[f] # 0
    /\ walk[w].step[f] \in {"queued", "drained"} =>
         walk[w].rows[f] # None /\ walk[w].rows[f].mtime = walk[w].mtime[f]
    /\ walk[w].step[f] = "drained" /\ Mtime(f) = walk[w].mtime[f] => Pair(walk[w].rows[f], walk[w].sha[f])
    /\ walk[w].step[f] \in {"kept", "parsed"} => Pair(walk[w].rows[f], walk[w].sha[f])
    /\ walk[w].lone => Sure(w, f)

\* A snapshot with the index's time, saved or about to be, is the index's.
Paired ==
    /\ snapshot.time = index.time => Pairs(index.rows, snapshot.shas)
    /\ other # None /\ other.time = index.time => Pairs(index.rows, other.shas)
    /\ \A w \in Walks : At(w, "saved") /\ walk[w].old.time = index.time => Pairs(index.rows, walk[w].sha)

\* To such a walk the index is still the one it began with.
Calm(w) == walk[w].lone /\ At(w, "walk") => index = walk[w].old

IInv ==
    /\ Types /\ Past /\ Paired
    /\ \A f \in Files : Vouches(f, index.rows[f])
    /\ \A w \in Walks, f \in Files : Local(w, f)
    /\ \A w \in Walks : Calm(w)

LEMMA RowIsNotNone == ASSUME NEW c \in Contents, NEW m \in Nat PROVE Row(c, m) # None /\ Row(c, m).content = c /\ Row(c, m).mtime = m
  BY FolderWalkAssumption DEF Row

LEMMA InitIInv == Init => IInv
<1> SUFFICES ASSUME Init PROVE IInv
  OBVIOUS
<1>1. tree \in Rows /\ \A f \in Files : tree[f] # None => tree[f].mtime = 1
  BY DEF Init, Rows, RowSet
<1>2. NoRows \in Rows /\ NoRows \in Shas /\ \A f \in Files : NoRows[f] = None
  BY DEF NoRows, Rows, Shas
<1>3. Idle \in WalkSet /\ Idle.at = "idle" /\ Idle.old.time = 0 /\ Idle.old.rows = NoRows /\ Idle.rows = NoRows /\ ~Idle.lone
      /\ \A f \in Files : Idle.mtime[f] = 0 /\ Idle.step[f] = "out"
  BY <1>2 DEF Idle, WalkSet, Steps
<1>4. index \in [time : Nat, rows : Rows] /\ index.time <= 1 /\ (index.rows = NoRows \/ index.rows = tree)
  BY <1>1, <1>2 DEF Init
<1>5. snapshot \in [time : Nat, shas : Shas] /\ snapshot.time = 0 /\ snapshot.shas = NoRows
  BY <1>2 DEF Init
<1>6. \A w \in Walks : walk[w] = Idle
  BY DEF Init
<1>7. Types
  BY <1>1, <1>3, <1>4, <1>5, <1>6 DEF Types, Init
<1>8. Past
  BY <1>1, <1>3, <1>4, <1>5, <1>6 DEF Past, Init
<1>9. Paired
  BY <1>2, <1>3, <1>5, <1>6 DEF Paired, Pairs, Pair, At, Init
<1>10. \A f \in Files : Vouches(f, index.rows[f])
  BY <1>1, <1>2, <1>4 DEF Vouches, Init
<1>11. \A w \in Walks, f \in Files : Local(w, f)
  BY <1>2, <1>3, <1>6 DEF Local, Vouches, Pair, Init
<1>12. \A w \in Walks : Calm(w)
  BY <1>3, <1>6 DEF Calm
<1> QED BY <1>7, <1>8, <1>9, <1>10, <1>11, <1>12 DEF IInv

\* A step on one file: every other file of the walk, and every other walk, is as before.
Moves(w, f) ==
    /\ walk' \in [Walks -> WalkSet]
    /\ \A v \in Walks \ {w} : walk'[v] = walk[v]
    /\ walk'[w].at = walk[w].at /\ walk'[w].old = walk[w].old /\ walk'[w].shas = walk[w].shas
    /\ walk'[w].scope = walk[w].scope /\ walk'[w].capped = walk[w].capped
    /\ walk'[w].lone => walk[w].lone
    /\ \A g \in Files \ {f} :
         /\ walk'[w].step[g] = walk[w].step[g] /\ walk'[w].mtime[g] = walk[w].mtime[g]
         /\ walk'[w].rows[g] = walk[w].rows[g] /\ walk'[w].sha[g] = walk[w].sha[g]
    /\ UNCHANGED <<tree, index, snapshot, edit, other, clock>>

\* What the steps hand to Step: the walk, but `step` is the next place of one file.
Drafts == [at : {"idle", "walk", "saved"}, old : [time : Nat, rows : Rows], shas : Shas,
           scope : SUBSET Files, capped : BOOLEAN, step : Steps,
           mtime : [Files -> Nat], rows : Rows, sha : Shas, lone : BOOLEAN]

LEMMA StepMoves ==
  ASSUME Types, NEW w \in Walks, NEW f \in Files, NEW new \in Drafts, Step(w, f, new),
         new.at = walk[w].at, new.old = walk[w].old, new.shas = walk[w].shas,
         new.scope = walk[w].scope, new.capped = walk[w].capped, new.lone => walk[w].lone,
         \A g \in Files \ {f} : /\ new.mtime[g] = walk[w].mtime[g] /\ new.rows[g] = walk[w].rows[g]
                                /\ new.sha[g] = walk[w].sha[g]
  PROVE  /\ Moves(w, f)
         /\ walk'[w].step[f] = new.step /\ walk'[w].mtime[f] = new.mtime[f] /\ walk'[w].rows[f] = new.rows[f]
         /\ walk'[w].sha[f] = new.sha[f] /\ walk'[w].lone = new.lone
<1>1. walk[w] \in WalkSet
  BY DEF Types
<1> DEFINE n == [new EXCEPT !.step = [walk[w].step EXCEPT ![f] = new.step]]
<1>2. /\ n.step = [walk[w].step EXCEPT ![f] = new.step] /\ n.mtime = new.mtime
      /\ n.rows = new.rows /\ n.sha = new.sha /\ n.lone = new.lone
      /\ n.at = new.at /\ n.old = new.old /\ n.shas = new.shas
      /\ n.scope = new.scope /\ n.capped = new.capped
  BY DEF Drafts
<1>3. n \in WalkSet
  BY <1>1 DEF WalkSet, Drafts
<1>4. walk' = [walk EXCEPT ![w] = n] /\ UNCHANGED <<tree, index, snapshot, edit, other, clock>>
  BY DEF Step
<1> HIDE DEF n
<1>5. walk'[w] = n /\ walk' \in [Walks -> WalkSet] /\ \A v \in Walks \ {w} : walk'[v] = walk[v]
  BY <1>3, <1>4 DEF Types
<1>6. walk[w].step \in [Files -> Steps]
  BY <1>1 DEF WalkSet
<1> QED BY <1>2, <1>4, <1>5, <1>6 DEF Moves

\* The same for a step that also keeps the row, under mtime m.
LEMMA KeepMoves ==
  ASSUME Types, NEW w \in Walks, NEW f \in Files, NEW next \in Steps, NEW m \in Nat \ {0},
         NEW h \in Contents \cup {None}, walk[w].old.rows[f] # None, Keep(w, f, next, m, h)
  PROVE  /\ Moves(w, f)
         /\ walk'[w].step[f] = next /\ walk'[w].mtime[f] = m /\ walk'[w].sha[f] = h
         /\ walk'[w].rows[f] = Row(walk[w].old.rows[f].content, m) /\ walk'[w].lone = walk[w].lone
<1> DEFINE r == Row(walk[w].old.rows[f].content, m)
           new == [walk[w] EXCEPT !.step = next, !.mtime[f] = m, !.sha[f] = h, !.rows[f] = r]
<1>1. walk[w] \in WalkSet
  BY DEF Types
<1>2. r \in RowSet
  BY <1>1 DEF WalkSet, Rows, RowSet, Row
<1>3. Step(w, f, new)
  BY DEF Keep
<1> HIDE DEF r
<1>4. /\ new.step = next /\ new.mtime = [walk[w].mtime EXCEPT ![f] = m] /\ new.sha = [walk[w].sha EXCEPT ![f] = h]
      /\ new.rows = [walk[w].rows EXCEPT ![f] = r] /\ new.at = walk[w].at /\ new.old = walk[w].old
      /\ new.shas = walk[w].shas /\ new.scope = walk[w].scope /\ new.capped = walk[w].capped /\ new.lone = walk[w].lone
  BY <1>1 DEF WalkSet
<1>5. new \in Drafts
  BY <1>1, <1>2 DEF WalkSet, Drafts, Rows, Shas
<1> HIDE DEF new
<1>6. /\ walk[w].mtime \in [Files -> Nat] /\ walk[w].rows \in [Files -> RowSet \cup {None}]
      /\ walk[w].sha \in [Files -> Contents \cup {None}]
  BY <1>1 DEF WalkSet, Rows, Shas
<1>7. new.mtime[f] = m /\ new.sha[f] = h /\ new.rows[f] = r
  BY <1>4, <1>6
<1>8. \A g \in Files \ {f} : /\ new.mtime[g] = walk[w].mtime[g] /\ new.rows[g] = walk[w].rows[g]
                             /\ new.sha[g] = walk[w].sha[g]
  BY <1>4, <1>6
<1>9. PICK k \in Drafts : k = new
  BY <1>5
<1>10. Step(w, f, k)
  BY <1>3, <1>9
<1>11. /\ k.at = walk[w].at /\ k.old = walk[w].old /\ k.shas = walk[w].shas
       /\ k.scope = walk[w].scope /\ k.capped = walk[w].capped
       /\ \A g \in Files \ {f} : /\ k.mtime[g] = walk[w].mtime[g] /\ k.rows[g] = walk[w].rows[g]
                                /\ k.sha[g] = walk[w].sha[g]
  BY <1>4, <1>8, <1>9
<1>12. k.step = next /\ (k.lone => walk[w].lone) /\ k.mtime[f] = m /\ k.sha[f] = h /\ k.rows[f] = r /\ k.lone = walk[w].lone
  BY <1>4, <1>7, <1>9
<1>13. /\ Moves(w, f)
       /\ walk'[w].step[f] = k.step /\ walk'[w].mtime[f] = k.mtime[f] /\ walk'[w].rows[f] = k.rows[f]
       /\ walk'[w].sha[f] = k.sha[f] /\ walk'[w].lone = k.lone
  BY <1>10, <1>11, <1>12, StepMoves
<1> QED BY <1>12, <1>13 DEF r

\* No walk is saved by it.
SameStage == \A v \in Walks : walk'[v].at = walk[v].at

\* What such a step has to show is about its own file.
LEMMA MovesInv ==
  ASSUME IInv, NEW w \in Walks, NEW f \in Files, Moves(w, f), Local(w, f)', ~At(w, "saved")
  PROVE  IInv' /\ SameStage
<1>1. Types'
  BY DEF IInv, Types, Moves
<1>2. Past'
  BY DEF IInv, Past, Moves
<1>3. Paired'
  BY DEF IInv, Paired, Moves, At, Pairs
<1>4. \A g \in Files : Vouches(g, index.rows[g])'
  BY DEF IInv, Vouches, Moves
<1>5. ASSUME NEW v \in Walks, NEW g \in Files PROVE Local(v, g)'
  <2>1. CASE v # w
    <3>1. Local(v, g) /\ walk'[v] = walk[v] /\ UNCHANGED <<tree, index, clock>>
      BY <2>1 DEF IInv, Moves
    <3> QED BY <3>1, SMTT(60) DEF Local, Vouches, Mtime, At, Sure
  <2>2. CASE v = w /\ g # f
    <3>1. Local(w, g) /\ UNCHANGED <<tree, index, clock>>
      BY DEF IInv, Moves
    <3>2. /\ walk'[w].step[g] = walk[w].step[g] /\ walk'[w].mtime[g] = walk[w].mtime[g]
          /\ walk'[w].rows[g] = walk[w].rows[g] /\ walk'[w].sha[g] = walk[w].sha[g]
      BY <2>2 DEF Moves
    <3>3. /\ walk'[w].at = walk[w].at /\ walk'[w].old = walk[w].old /\ walk'[w].shas = walk[w].shas
          /\ walk'[w].scope = walk[w].scope /\ walk'[w].capped = walk[w].capped
          /\ walk'[w].lone => walk[w].lone
      BY DEF Moves
    <3> QED BY <2>2, <3>1, <3>2, <3>3, SMTT(60) DEF Local, Vouches, Mtime, At, Sure
  <2> QED BY <2>1, <2>2
<1>6. \A v \in Walks : Calm(v)'
  BY DEF IInv, Calm, Moves, At
<1>7. SameStage
  BY DEF SameStage, Moves
<1> QED BY <1>1, <1>2, <1>3, <1>4, <1>5, <1>6, <1>7 DEF IInv

LEMMA WalkTypes ==
  ASSUME IInv, NEW w \in Walks, NEW f \in Files
  PROVE  /\ walk[w] \in WalkSet /\ walk[w].step[f] \in Steps /\ walk[w].mtime[f] \in Nat
         /\ walk[w].old.rows[f] \in RowSet \cup {None} /\ walk[w].rows[f] \in RowSet \cup {None}
         /\ walk[w].shas[f] \in Contents \cup {None} /\ walk[w].sha[f] \in Contents \cup {None}
         /\ tree[f] \in RowSet \cup {None} /\ Mtime(f) \in Nat /\ (Mtime(f) = 0 <=> tree[f] = None)
         /\ Mtime(f) <= clock /\ clock \in Nat
<1>1. walk[w] \in WalkSet /\ tree \in Rows /\ clock \in Nat
  BY DEF IInv, Types
<1>2. tree[f] \in RowSet \cup {None}
  BY <1>1 DEF Rows
<1>3. Mtime(f) \in Nat /\ (Mtime(f) = 0 <=> tree[f] = None)
  BY <1>2 DEF Mtime, RowSet
<1>4. Mtime(f) <= clock
  BY <1>1 DEF Mtime, IInv, Past
<1> QED BY <1>1, <1>2, <1>3, <1>4 DEF WalkSet, Rows, Shas

\* A kept row: as it was, with the mtime the file has or had.
LEMMA KeepInv ==
  ASSUME IInv, NEW w \in Walks, NEW f \in Files, NEW next \in {"queued", "kept"}, NEW m \in Nat \ {0},
         NEW h \in Contents \cup {None}, Keep(w, f, next, m, h), At(w, "walk"),
         walk[w].old.rows[f] # None, m <= clock,
         h # None => h = walk[w].old.rows[f].content,
         walk[w].step[f] \in {"decide", "hash"}, walk[w].lone => Mtime(f) = m,
         Mtime(f) = m => tree[f].content = walk[w].old.rows[f].content
  PROVE  IInv' /\ SameStage
<1> DEFINE c == walk[w].old.rows[f].content
<1>1. next \in Steps /\ c \in Contents /\ clock \in Nat
  BY WalkTypes DEF Steps, RowSet
<1>2. /\ Moves(w, f)
      /\ walk'[w].step[f] = next /\ walk'[w].mtime[f] = m /\ walk'[w].sha[f] = h
      /\ walk'[w].rows[f] = Row(c, m) /\ walk'[w].lone = walk[w].lone
  BY <1>1, KeepMoves DEF IInv
<1>3. Local(w, f)
  BY DEF IInv
<1>4. walk'[w].rows[f] # None /\ walk'[w].rows[f].content = c /\ walk'[w].rows[f].mtime = m
  BY <1>1, <1>2, RowIsNotNone
<1>5. UNCHANGED <<tree, clock>> /\ walk'[w].old = walk[w].old /\ walk'[w].shas = walk[w].shas /\ walk'[w].at = "walk"
  BY <1>2 DEF Moves, At
<1>6. Vouches(f, walk[w].rows[f])'
  BY <1>4, <1>5 DEF Vouches, Mtime
<1>7. Vouches(f, walk[w].old.rows[f])' /\ Pair(walk[w].old.rows[f], walk[w].shas[f])'
  BY <1>3, <1>5 DEF Local, Vouches, Pair
<1>8. Pair(walk[w].rows[f], walk[w].sha[f])'
  BY <1>2, <1>4 DEF Pair
<1>s. (walk[w].lone => Sure(w, f))'
  BY <1>2, <1>3, <1>4, <1>5 DEF Local, Sure, Moves, Mtime
<1>9. Local(w, f)'
  BY <1>2, <1>4, <1>5, <1>6, <1>7, <1>8, <1>s DEF Local, At
<1> QED BY <1>2, <1>9, MovesInv DEF At

\* Steps that leave the row alone, whatever else they set.
LEMMA TurnStep ==
  ASSUME IInv, NEW w \in Walks, NEW f \in Files, NEW next \in Steps,
         Step(w, f, [walk[w] EXCEPT !.step = next])
  PROVE  /\ Moves(w, f)
         /\ walk'[w].step[f] = next /\ walk'[w].mtime[f] = walk[w].mtime[f] /\ walk'[w].rows[f] = walk[w].rows[f]
         /\ walk'[w].sha[f] = walk[w].sha[f] /\ walk'[w].lone = walk[w].lone
<1>1. walk[w] \in WalkSet /\ Types
  BY DEF IInv, Types
<1>2. /\ walk[w].mtime \in [Files -> Nat] /\ walk[w].rows \in [Files -> RowSet \cup {None}]
      /\ walk[w].sha \in [Files -> Contents \cup {None}]
  BY <1>1 DEF WalkSet, Rows, Shas
<1>3. PICK k : k = [walk[w] EXCEPT !.step = next]
  OBVIOUS
<1>4. k \in Drafts /\ k.step = next /\ k.lone = walk[w].lone
  BY <1>1, <1>2, <1>3 DEF WalkSet, Drafts, Shas
<1>5. /\ \A g \in Files \ {f} : /\ k.mtime[g] = walk[w].mtime[g] /\ k.rows[g] = walk[w].rows[g]
                                /\ k.sha[g] = walk[w].sha[g]
      /\ k.mtime[f] = walk[w].mtime[f] /\ k.sha[f] = walk[w].sha[f] /\ k.rows[f] = walk[w].rows[f]
  BY <1>1, <1>2, <1>3 DEF WalkSet
<1>6. k.at = walk[w].at /\ k.old = walk[w].old /\ k.shas = walk[w].shas /\ k.scope = walk[w].scope
      /\ k.capped = walk[w].capped
  BY <1>1, <1>3 DEF WalkSet
<1>7. Step(w, f, k)
  BY <1>3
<1>8. /\ Moves(w, f)
      /\ walk'[w].step[f] = k.step /\ walk'[w].mtime[f] = k.mtime[f] /\ walk'[w].rows[f] = k.rows[f]
      /\ walk'[w].sha[f] = k.sha[f] /\ walk'[w].lone = k.lone
  BY <1>1, <1>4, <1>5, <1>6, <1>7, StepMoves
<1> QED BY <1>4, <1>5, <1>8

LEMMA TurnFails ==
  ASSUME IInv, NEW w \in Walks, NEW f \in Files, NEW next \in Steps,
         Step(w, f, [walk[w] EXCEPT !.step = next, !.lone = FALSE])
  PROVE  /\ Moves(w, f)
         /\ walk'[w].step[f] = next /\ walk'[w].mtime[f] = walk[w].mtime[f] /\ walk'[w].rows[f] = walk[w].rows[f]
         /\ walk'[w].sha[f] = walk[w].sha[f] /\ walk'[w].lone = FALSE
<1>1. walk[w] \in WalkSet /\ Types
  BY DEF IInv, Types
<1>2. /\ walk[w].mtime \in [Files -> Nat] /\ walk[w].rows \in [Files -> RowSet \cup {None}]
      /\ walk[w].sha \in [Files -> Contents \cup {None}]
  BY <1>1 DEF WalkSet, Rows, Shas
<1>3. PICK k : k = [walk[w] EXCEPT !.step = next, !.lone = FALSE]
  OBVIOUS
<1>4. k \in Drafts /\ k.step = next /\ k.lone = FALSE
  BY <1>1, <1>2, <1>3 DEF WalkSet, Drafts, Shas
<1>5. /\ \A g \in Files \ {f} : /\ k.mtime[g] = walk[w].mtime[g] /\ k.rows[g] = walk[w].rows[g]
                                /\ k.sha[g] = walk[w].sha[g]
      /\ k.mtime[f] = walk[w].mtime[f] /\ k.sha[f] = walk[w].sha[f] /\ k.rows[f] = walk[w].rows[f]
  BY <1>1, <1>2, <1>3 DEF WalkSet
<1>6. k.at = walk[w].at /\ k.old = walk[w].old /\ k.shas = walk[w].shas /\ k.scope = walk[w].scope
      /\ k.capped = walk[w].capped
  BY <1>1, <1>3 DEF WalkSet
<1>7. Step(w, f, k)
  BY <1>3
<1>8. /\ Moves(w, f)
      /\ walk'[w].step[f] = k.step /\ walk'[w].mtime[f] = k.mtime[f] /\ walk'[w].rows[f] = k.rows[f]
      /\ walk'[w].sha[f] = k.sha[f] /\ walk'[w].lone = k.lone
  BY <1>1, <1>4, <1>5, <1>6, <1>7, StepMoves
<1> QED BY <1>4, <1>5, <1>8

LEMMA DecideInv == ASSUME IInv, NEW w \in Walks, NEW f \in Files, Decide(w, f) PROVE IInv' /\ SameStage
<1>0. Local(w, f) /\ Types
  BY DEF IInv
<1>1. /\ walk[w].step[f] = "decide" /\ walk[w].old.rows[f] \in RowSet /\ At(w, "walk")
      /\ walk[w].shas[f] \in Contents \cup {None}
  BY <1>0, WalkTypes DEF Decide, Local
<1>2. PICK m \in Nat, sha \in Contents \cup {None} : m = Mtime(f) /\ sha = walk[w].shas[f]
  BY <1>1, WalkTypes
<1>3. CASE m = walk[w].old.rows[f].mtime /\ Keep(w, f, IF sha = None THEN "queued" ELSE "kept", m, sha)
  <2>1. PICK next \in {"queued", "kept"} : next = IF sha = None THEN "queued" ELSE "kept"
    OBVIOUS
  <2>2. Keep(w, f, next, m, sha)
    BY <1>3, <2>1
  <2>3. m \in Nat \ {0} /\ m <= clock /\ tree[f] # None /\ tree[f].mtime = m
    BY <1>1, <1>2, <1>3, WalkTypes DEF RowSet, Mtime
  <2>4. walk[w].old.rows[f] # None
    BY <1>0, <1>1 DEF Local
  <2>5. tree[f].content = walk[w].old.rows[f].content
    BY <1>0, <1>3, <2>3, <2>4, SMTT(60) DEF Local, Vouches
  <2>6. sha # None => sha = walk[w].old.rows[f].content
    BY <1>0, <1>2, <2>4 DEF Local, Pair
  <2>7. Mtime(f) = m
    BY <1>2
  <2> QED BY <1>1, <2>2, <2>3, <2>4, <2>5, <2>6, <2>7, KeepInv
<1>4. CASE m \notin {0, walk[w].old.rows[f].mtime} /\ sha # None
           /\ Step(w, f, [walk[w] EXCEPT !.step = "hash", !.mtime[f] = m])
  <2>2. "hash" \in Steps
    BY DEF Steps
  <2>2a. PICK k : k = [walk[w] EXCEPT !.step = "hash", !.mtime[f] = m]
    OBVIOUS
  <2>2b. /\ walk[w] \in WalkSet /\ walk[w].mtime \in [Files -> Nat] /\ walk[w].rows \in [Files -> RowSet \cup {None}]
        /\ walk[w].sha \in [Files -> Contents \cup {None}]
    BY WalkTypes DEF WalkSet, Rows, Shas
  <2>2c. k \in Drafts /\ k.step = "hash" /\ (k.lone => walk[w].lone)
    BY <2>2a, <2>2b, <2>2 DEF WalkSet, Drafts, Shas
  <2>2d. /\ \A g \in Files \ {f} : /\ k.mtime[g] = walk[w].mtime[g] /\ k.rows[g] = walk[w].rows[g]
                                  /\ k.sha[g] = walk[w].sha[g]
        /\ k.mtime[f] = m /\ k.sha[f] = walk[w].sha[f] /\ k.rows[f] = walk[w].rows[f]
    BY <2>2a, <2>2b DEF WalkSet
  <2>2e. k.at = walk[w].at /\ k.old = walk[w].old /\ k.shas = walk[w].shas /\ k.scope = walk[w].scope
        /\ k.capped = walk[w].capped
    BY <2>2a, <2>2b DEF WalkSet
  <2>2f. Step(w, f, k)
    BY <1>4, <2>2a
  <2>2g. /\ Moves(w, f)
        /\ walk'[w].step[f] = k.step /\ walk'[w].mtime[f] = k.mtime[f] /\ walk'[w].rows[f] = k.rows[f]
        /\ walk'[w].sha[f] = k.sha[f]
    BY <1>0, <2>2c, <2>2d, <2>2e, <2>2f, StepMoves
  <2>3. /\ Moves(w, f)
        /\ walk'[w].step[f] = "hash" /\ walk'[w].mtime[f] = m /\ walk'[w].rows[f] = walk[w].rows[f]
    BY <2>2c, <2>2d, <2>2g
  <2>4. m <= clock /\ m # 0
    BY <1>2, <1>4, WalkTypes
  <2>5. Local(w, f)'
    BY <1>0, <1>1, <1>2, <1>4, <2>3, <2>4, SMTT(60) DEF Local, Moves, Vouches, Pair, At, Sure, Mtime
  <2> QED BY <1>1, <2>3, <2>5, MovesInv DEF At
<1>5. CASE Step(w, f, [walk[w] EXCEPT !.step = "parse"])
  <2>2. "parse" \in Steps
    BY DEF Steps
  <2>3. /\ Moves(w, f)
        /\ walk'[w].step[f] = "parse" /\ walk'[w].mtime[f] = walk[w].mtime[f] /\ walk'[w].rows[f] = walk[w].rows[f]
    BY <1>5, <2>2, TurnStep
  <2>5. Local(w, f)'
    BY <1>0, <1>1, <2>3 DEF Local, Moves, Vouches, Pair, At, Sure, Mtime
  <2> QED BY <1>1, <2>3, <2>5, MovesInv DEF At
<1> QED BY <1>2, <1>3, <1>4, <1>5 DEF Decide

LEMMA HashInv == ASSUME IInv, NEW w \in Walks, NEW f \in Files, Hash(w, f) PROVE IInv' /\ SameStage
<1>0. Local(w, f) /\ Types
  BY DEF IInv
<1>1. /\ walk[w].step[f] = "hash" /\ walk[w].old.rows[f] \in RowSet /\ At(w, "walk")
      /\ walk[w].shas[f] \in Contents /\ walk[w].mtime[f] \in Nat \ {0}
      /\ walk[w].old.rows[f] # None /\ walk[w].shas[f] # None
  BY <1>0, WalkTypes DEF Hash, Local
<1>2. PICK m \in Nat \ {0}, sha \in Contents : m = walk[w].mtime[f] /\ sha = walk[w].shas[f]
  BY <1>1
<1>3. CASE tree[f] # None /\ tree[f].content = sha /\ Keep(w, f, "kept", m, sha)
  <2>1. m <= clock
    BY <1>0, <1>2 DEF Local
  <2>2. sha = walk[w].old.rows[f].content
    BY <1>0, <1>1, <1>2 DEF Local, Pair
  <2>3. "kept" \in {"queued", "kept"} /\ sha \in Contents \cup {None}
    OBVIOUS
  <2>4. walk[w].lone => Mtime(f) = m
    BY <1>0, <1>1, <1>2 DEF Local, Sure
  <2> QED BY <1>1, <1>3, <2>1, <2>2, <2>3, <2>4, KeepInv
<1>4. CASE Step(w, f, [walk[w] EXCEPT !.step = "parse"])
  <2>2. "parse" \in Steps
    BY DEF Steps
  <2>3. /\ Moves(w, f)
        /\ walk'[w].step[f] = "parse" /\ walk'[w].mtime[f] = m /\ walk'[w].rows[f] = walk[w].rows[f]
    BY <1>2, <1>4, <2>2, TurnStep
  <2>5. Local(w, f)'
    BY <1>0, <1>1, <1>2, <2>3 DEF Local, Moves, Vouches, Pair, At, Sure, Mtime
  <2> QED BY <1>1, <2>3, <2>5, MovesInv DEF At
<1> QED BY <1>2, <1>3, <1>4 DEF Hash

LEMMA DrainInv == ASSUME IInv, NEW w \in Walks, NEW f \in Files, Drain(w, f) PROVE IInv' /\ SameStage
<1>0. Local(w, f) /\ Types
  BY DEF IInv
<1>1. walk[w].step[f] = "queued" /\ At(w, "walk")
  BY <1>0 DEF Drain, Local
<1>2. PICK m \in Nat : m = walk[w].mtime[f]
  BY WalkTypes
<1>3. PICK h \in Contents \cup {None} : h = IF tree[f] = None THEN None ELSE tree[f].content
  BY WalkTypes DEF RowSet
<1>4. "drained" \in Steps
  BY DEF Steps
<1>5. Step(w, f, [walk[w] EXCEPT !.step = "drained", !.sha[f] = h])
  BY <1>3 DEF Drain
<1>5a. PICK k : k = [walk[w] EXCEPT !.step = "drained", !.sha[f] = h]
  OBVIOUS
<1>5b. /\ walk[w] \in WalkSet /\ walk[w].mtime \in [Files -> Nat] /\ walk[w].rows \in [Files -> RowSet \cup {None}]
      /\ walk[w].sha \in [Files -> Contents \cup {None}]
  BY WalkTypes DEF WalkSet, Rows, Shas
<1>5c. k \in Drafts /\ k.step = "drained" /\ (k.lone => walk[w].lone)
  BY <1>5a, <1>5b, <1>4 DEF WalkSet, Drafts, Shas
<1>5d. /\ \A g \in Files \ {f} : /\ k.mtime[g] = walk[w].mtime[g] /\ k.rows[g] = walk[w].rows[g]
                                /\ k.sha[g] = walk[w].sha[g]
      /\ k.mtime[f] = walk[w].mtime[f] /\ k.sha[f] = h /\ k.rows[f] = walk[w].rows[f]
  BY <1>5a, <1>5b DEF WalkSet
<1>5e. k.at = walk[w].at /\ k.old = walk[w].old /\ k.shas = walk[w].shas /\ k.scope = walk[w].scope
      /\ k.capped = walk[w].capped
  BY <1>5a, <1>5b DEF WalkSet
<1>5f. Step(w, f, k)
  BY <1>5, <1>5a
<1>5g. /\ Moves(w, f)
      /\ walk'[w].step[f] = k.step /\ walk'[w].mtime[f] = k.mtime[f] /\ walk'[w].rows[f] = k.rows[f]
      /\ walk'[w].sha[f] = k.sha[f]
  BY <1>0, <1>5c, <1>5d, <1>5e, <1>5f, StepMoves
<1>6. /\ Moves(w, f)
      /\ walk'[w].step[f] = "drained" /\ walk'[w].mtime[f] = m /\ walk'[w].sha[f] = h /\ walk'[w].rows[f] = walk[w].rows[f]
  BY <1>2, <1>5c, <1>5d, <1>5g
<1>7. Mtime(f) = m => Pair(walk[w].rows[f], h)
  BY <1>0, <1>1, <1>2, <1>3 DEF Local, Vouches, Mtime, Pair
<1>8. Local(w, f)'
  BY <1>0, <1>1, <1>2, <1>6, <1>7, SMTT(60) DEF Local, Moves, Vouches, Pair, At, Mtime, Sure
<1> QED BY <1>1, <1>6, <1>8, MovesInv DEF At

LEMMA DrainCheckInv == ASSUME IInv, NEW w \in Walks, NEW f \in Files, DrainCheck(w, f) PROVE IInv' /\ SameStage
<1>0. Local(w, f) /\ Types
  BY DEF IInv
<1>1. walk[w].step[f] = "drained" /\ At(w, "walk")
  BY <1>0 DEF DrainCheck, Local
<1>2. PICK m \in Nat : m = walk[w].mtime[f]
  BY WalkTypes
<1>3. PICK h \in Contents \cup {None} : h = IF Mtime(f) = walk[w].mtime[f] THEN walk[w].sha[f] ELSE None
  BY WalkTypes
<1>4. "kept" \in Steps
  BY DEF Steps
<1>5. Step(w, f, [walk[w] EXCEPT !.step = "kept", !.sha[f] = h])
  BY <1>3 DEF DrainCheck
<1>5a. PICK k : k = [walk[w] EXCEPT !.step = "kept", !.sha[f] = h]
  OBVIOUS
<1>5b. /\ walk[w] \in WalkSet /\ walk[w].mtime \in [Files -> Nat] /\ walk[w].rows \in [Files -> RowSet \cup {None}]
      /\ walk[w].sha \in [Files -> Contents \cup {None}]
  BY WalkTypes DEF WalkSet, Rows, Shas
<1>5c. k \in Drafts /\ k.step = "kept" /\ (k.lone => walk[w].lone)
  BY <1>5a, <1>5b, <1>4 DEF WalkSet, Drafts, Shas
<1>5d. /\ \A g \in Files \ {f} : /\ k.mtime[g] = walk[w].mtime[g] /\ k.rows[g] = walk[w].rows[g]
                                /\ k.sha[g] = walk[w].sha[g]
      /\ k.mtime[f] = walk[w].mtime[f] /\ k.sha[f] = h /\ k.rows[f] = walk[w].rows[f]
  BY <1>5a, <1>5b DEF WalkSet
<1>5e. k.at = walk[w].at /\ k.old = walk[w].old /\ k.shas = walk[w].shas /\ k.scope = walk[w].scope
      /\ k.capped = walk[w].capped
  BY <1>5a, <1>5b DEF WalkSet
<1>5f. Step(w, f, k)
  BY <1>5, <1>5a
<1>5g. /\ Moves(w, f)
      /\ walk'[w].step[f] = k.step /\ walk'[w].mtime[f] = k.mtime[f] /\ walk'[w].rows[f] = k.rows[f]
      /\ walk'[w].sha[f] = k.sha[f]
  BY <1>0, <1>5c, <1>5d, <1>5e, <1>5f, StepMoves
<1>6. /\ Moves(w, f)
      /\ walk'[w].step[f] = "kept" /\ walk'[w].mtime[f] = m /\ walk'[w].sha[f] = h /\ walk'[w].rows[f] = walk[w].rows[f]
  BY <1>2, <1>5c, <1>5d, <1>5g
<1>7. Pair(walk[w].rows[f], h)
  BY <1>0, <1>1, <1>3 DEF Local, Pair
<1>8. Local(w, f)'
  BY <1>0, <1>1, <1>2, <1>6, <1>7 DEF Local, Moves, Vouches, Pair, At, Mtime, Sure
<1> QED BY <1>1, <1>6, <1>8, MovesInv DEF At

LEMMA ParseStatInv == ASSUME IInv, NEW w \in Walks, NEW f \in Files, ParseStat(w, f) PROVE IInv' /\ SameStage
<1>0. Local(w, f) /\ Types
  BY DEF IInv
<1>1. walk[w].step[f] = "parse" /\ At(w, "walk")
  BY <1>0 DEF ParseStat, Local
<1>2. PICK m \in Nat : m = Mtime(f)
  BY WalkTypes
<1>3. PICK next \in Steps : next = IF tree[f] = None THEN "failed" ELSE "read"
  BY DEF Steps
<1>4. Step(w, f, [walk[w] EXCEPT !.step = next, !.mtime[f] = m])
  BY <1>2, <1>3 DEF ParseStat
<1>4a. PICK k : k = [walk[w] EXCEPT !.step = next, !.mtime[f] = m]
  OBVIOUS
<1>4b. /\ walk[w] \in WalkSet /\ walk[w].mtime \in [Files -> Nat] /\ walk[w].rows \in [Files -> RowSet \cup {None}]
      /\ walk[w].sha \in [Files -> Contents \cup {None}]
  BY WalkTypes DEF WalkSet, Rows, Shas
<1>4c. k \in Drafts /\ k.step = next /\ (k.lone => walk[w].lone)
  BY <1>4a, <1>4b DEF WalkSet, Drafts, Shas
<1>4d. /\ \A g \in Files \ {f} : /\ k.mtime[g] = walk[w].mtime[g] /\ k.rows[g] = walk[w].rows[g]
                                /\ k.sha[g] = walk[w].sha[g]
      /\ k.mtime[f] = m /\ k.sha[f] = walk[w].sha[f] /\ k.rows[f] = walk[w].rows[f]
  BY <1>4a, <1>4b DEF WalkSet
<1>4e. k.at = walk[w].at /\ k.old = walk[w].old /\ k.shas = walk[w].shas /\ k.scope = walk[w].scope
      /\ k.capped = walk[w].capped
  BY <1>4a, <1>4b DEF WalkSet
<1>4f. Step(w, f, k)
  BY <1>4, <1>4a
<1>4g. /\ Moves(w, f)
      /\ walk'[w].step[f] = k.step /\ walk'[w].mtime[f] = k.mtime[f] /\ walk'[w].rows[f] = k.rows[f]
      /\ walk'[w].sha[f] = k.sha[f]
  BY <1>0, <1>4c, <1>4d, <1>4e, <1>4f, StepMoves
<1>5. /\ Moves(w, f)
      /\ walk'[w].step[f] = next /\ walk'[w].mtime[f] = m /\ walk'[w].rows[f] = walk[w].rows[f]
  BY <1>4c, <1>4d, <1>4g
<1>6. m <= clock /\ (next = "read" => m # 0) /\ next \in {"failed", "read"}
  BY <1>2, <1>3, WalkTypes
<1>s. (walk[w].lone => Sure(w, f))'
  <2> SUFFICES ASSUME walk'[w].lone PROVE Sure(w, f)'
    OBVIOUS
  <2>1. walk[w].lone
    BY <1>5 DEF Moves
  <2>2. tree[f] # None /\ f \in walk[w].scope
    BY <1>0, <1>1, <2>1 DEF Local, Sure
  <2>3. next = "read" /\ Mtime(f)' = m
    BY <1>2, <1>3, <1>5, <2>2 DEF Moves, Mtime
  <2> QED BY <1>5, <2>2, <2>3 DEF Sure, Moves
<1>7. Local(w, f)'
  BY <1>0, <1>1, <1>5, <1>6, <1>s DEF Local, Moves, Vouches, Pair, At
<1> QED BY <1>1, <1>5, <1>7, MovesInv DEF At

\* A row from what was read now, under the mtime of the stat before.
LEMMA ParseReadFields ==
  ASSUME IInv, NEW w \in Walks, NEW f \in Files, ParseRead(w, f), tree[f] # None
  PROVE  /\ Moves(w, f)
         /\ walk'[w].step[f] = "parsed" /\ walk'[w].mtime[f] = walk[w].mtime[f]
         /\ walk'[w].sha[f] = tree[f].content /\ walk'[w].rows[f] = Row(tree[f].content, walk[w].mtime[f])
         /\ walk'[w].lone = walk[w].lone
<1>0. Local(w, f) /\ Types /\ walk[w] \in WalkSet
  BY WalkTypes DEF IInv
<1>1. walk[w].step[f] = "read" /\ walk[w].mtime[f] \in Nat \ {0} /\ tree[f].content \in Contents
  BY <1>0, WalkTypes DEF ParseRead, Local, RowSet
<1>2. PICK c \in Contents, m \in Nat \ {0} : c = tree[f].content /\ m = walk[w].mtime[f]
  BY <1>1
<1>3. PICK r \in RowSet : r = Row(c, m)
  BY DEF Row, RowSet
<1>4. PICK k : k = [walk[w] EXCEPT !.step = "parsed", !.sha[f] = c, !.rows[f] = r]
  OBVIOUS
<1>5. Step(w, f, k)
  BY <1>2, <1>3, <1>4 DEF ParseRead
<1>6. /\ walk[w].rows \in [Files -> RowSet \cup {None}] /\ walk[w].sha \in [Files -> Contents \cup {None}]
  BY <1>0 DEF WalkSet, Rows, Shas
<1>7. k \in Drafts /\ k.step = "parsed" /\ k.lone = walk[w].lone
  BY <1>0, <1>4, <1>6 DEF WalkSet, Drafts, Rows, Shas, Steps
<1>8. /\ k.mtime = walk[w].mtime /\ k.rows = [walk[w].rows EXCEPT ![f] = r] /\ k.sha = [walk[w].sha EXCEPT ![f] = c]
      /\ k.at = walk[w].at /\ k.old = walk[w].old /\ k.shas = walk[w].shas /\ k.scope = walk[w].scope
      /\ k.capped = walk[w].capped
  BY <1>0, <1>4 DEF WalkSet
<1>9. /\ \A g \in Files \ {f} : /\ k.mtime[g] = walk[w].mtime[g] /\ k.rows[g] = walk[w].rows[g]
                                /\ k.sha[g] = walk[w].sha[g]
      /\ k.mtime[f] = m /\ k.sha[f] = c /\ k.rows[f] = r
  BY <1>2, <1>6, <1>8
<1>10. k.at = walk[w].at /\ k.old = walk[w].old /\ k.shas = walk[w].shas /\ k.scope = walk[w].scope
       /\ k.capped = walk[w].capped
  BY <1>8
<1>11. /\ Moves(w, f)
       /\ walk'[w].step[f] = k.step /\ walk'[w].mtime[f] = k.mtime[f] /\ walk'[w].rows[f] = k.rows[f]
       /\ walk'[w].sha[f] = k.sha[f] /\ walk'[w].lone = k.lone
  BY <1>0, <1>5, <1>7, <1>9, <1>10, StepMoves
<1> QED BY <1>2, <1>3, <1>7, <1>9, <1>11

LEMMA ParseReadInv == ASSUME IInv, NEW w \in Walks, NEW f \in Files, ParseRead(w, f) PROVE IInv' /\ SameStage
<1>0. Local(w, f) /\ Types
  BY DEF IInv
<1>1. walk[w].step[f] = "read" /\ At(w, "walk") /\ walk[w].mtime[f] \in Nat \ {0}
  BY <1>0, WalkTypes DEF ParseRead, Local
<1>2. CASE tree[f] = None
  <2>2. "failed" \in Steps /\ Step(w, f, [walk[w] EXCEPT !.step = "failed"])
    BY <1>2 DEF Steps, ParseRead
  <2>3. /\ Moves(w, f)
        /\ walk'[w].step[f] = "failed" /\ walk'[w].mtime[f] = walk[w].mtime[f] /\ walk'[w].rows[f] = walk[w].rows[f]
    BY <2>2, TurnStep
  <2>0. ~walk'[w].lone
    BY <1>0, <1>1, <1>2, <2>3 DEF Local, Sure, Moves
  <2>4. Local(w, f)'
    BY <1>0, <1>1, <2>0, <2>3 DEF Local, Moves, Vouches, Pair, At, Sure, Mtime
  <2> QED BY <1>1, <2>3, <2>4, MovesInv DEF At
<1>3. CASE tree[f] # None
  <2>1. /\ Moves(w, f)
        /\ walk'[w].step[f] = "parsed" /\ walk'[w].mtime[f] = walk[w].mtime[f]
        /\ walk'[w].sha[f] = tree[f].content /\ walk'[w].rows[f] = Row(tree[f].content, walk[w].mtime[f])
    BY <1>3, ParseReadFields
  <2>2. tree[f].content \in Contents
    BY <1>3, WalkTypes DEF RowSet
  <2>3. /\ walk'[w].rows[f] # None /\ walk'[w].rows[f].content = tree[f].content
        /\ walk'[w].rows[f].mtime = walk[w].mtime[f]
    BY <1>1, <2>1, <2>2, RowIsNotNone
  <2>4. Local(w, f)'
    BY <1>0, <1>1, <2>1, <2>3, SMTT(60) DEF Local, Moves, Vouches, Pair, At, Sure, Mtime
  <2> QED BY <1>1, <2>1, <2>4, MovesInv DEF At
<1> QED BY <1>2, <1>3

LEMMA ParseFailsInv == ASSUME IInv, NEW w \in Walks, NEW f \in Files, ParseFails(w, f) PROVE IInv' /\ SameStage
<1>0. Local(w, f) /\ Types
  BY DEF IInv
<1>1. walk[w].step[f] \in {"parse", "read"} /\ At(w, "walk")
  BY <1>0 DEF ParseFails, Local
<1>3. "failed" \in Steps /\ Step(w, f, [walk[w] EXCEPT !.step = "failed", !.lone = FALSE])
  BY DEF Steps, ParseFails
<1>4. /\ Moves(w, f)
      /\ walk'[w].step[f] = "failed" /\ walk'[w].mtime[f] = walk[w].mtime[f] /\ walk'[w].rows[f] = walk[w].rows[f]
      /\ ~walk'[w].lone
  BY <1>3, TurnFails
<1>5. Local(w, f)'
  BY <1>0, <1>1, <1>4 DEF Local, Moves, Vouches, Pair, At, Sure, Mtime
<1> QED BY <1>1, <1>4, <1>5, MovesInv DEF At

\* Whatever else happens to a walk's file, an edit of it takes a new time.
LEMMA LocalKeeps ==
  ASSUME IInv, NEW w \in Walks, NEW f \in Files, clock' \in Nat, clock' >= clock,
         walk'[w].mtime = walk[w].mtime, walk'[w].old.rows = walk[w].old.rows, walk'[w].rows = walk[w].rows,
         walk'[w].shas = walk[w].shas, walk'[w].sha = walk[w].sha, walk'[w].step = walk[w].step,
         walk'[w].at = walk[w].at \/ walk[w].step[f] \in {"out", "kept", "parsed", "failed"},
         walk'[w].lone => walk[w].lone /\ tree'[f] = tree[f] /\ walk'[w].scope = walk[w].scope
                          /\ walk'[w].capped = walk[w].capped,
         tree'[f] = tree[f] \/ tree'[f] = None \/ (tree'[f].mtime \in Nat /\ tree'[f].mtime > clock)
  PROVE  Local(w, f)'
<1>1. Local(w, f)
  BY DEF IInv
<1>2. walk[w].mtime[f] \in Nat /\ walk[w].mtime[f] <= clock /\ clock \in Nat
      /\ walk[w].old.rows[f] \in RowSet \cup {None} /\ walk[w].rows[f] \in RowSet \cup {None}
  BY <1>1, WalkTypes DEF Local
<1>3. Vouches(f, walk[w].old.rows[f])'
  BY <1>1, <1>2, SMTT(60) DEF Local, Vouches, RowSet
<1>4. Vouches(f, walk[w].rows[f])'
  BY <1>1, <1>2 DEF Local, Vouches, RowSet
<1>5. Pair(walk[w].old.rows[f], walk[w].shas[f])'
  BY <1>1 DEF Local, Pair
<1>6. (walk[w].step[f] \in {"kept", "parsed"} => Pair(walk[w].rows[f], walk[w].sha[f]))'
  BY <1>1 DEF Local, Pair
<1>7. ASSUME walk'[w].step[f] = "drained", Mtime(f)' = walk'[w].mtime[f] PROVE Pair(walk[w].rows[f], walk[w].sha[f])'
  <2>1. walk[w].mtime[f] # 0
    BY <1>1, <1>7 DEF Local
  <2>2. Mtime(f) = walk[w].mtime[f]
    BY <1>2, <1>7, <2>1 DEF Mtime
  <2> QED BY <1>1, <1>7, <2>2 DEF Local, Pair
<1>8. walk'[w].mtime[f] <= clock'
  BY <1>2
<1>9. (walk[w].lone => Sure(w, f))'
  BY <1>1 DEF Local, Sure, Mtime
<1> QED BY <1>1, <1>3, <1>4, <1>5, <1>6, <1>7, <1>8, <1>9 DEF Local, At

LEMMA Disturbed ==
  ASSUME IInv, Disturb
  PROVE  /\ walk' \in [Walks -> WalkSet]
         /\ \A w \in Walks :
              /\ walk'[w].at = walk[w].at /\ walk'[w].old = walk[w].old /\ walk'[w].shas = walk[w].shas
              /\ walk'[w].scope = walk[w].scope /\ walk'[w].capped = walk[w].capped /\ walk'[w].step = walk[w].step
              /\ walk'[w].mtime = walk[w].mtime /\ walk'[w].rows = walk[w].rows /\ walk'[w].sha = walk[w].sha
              /\ walk'[w].lone = FALSE
<1>1. \A w \in Walks : walk[w] \in WalkSet
  BY DEF IInv, Types
<1>2. \A w \in Walks : walk'[w] = [walk[w] EXCEPT !.lone = FALSE]
  BY DEF Disturb
<1>3. \A w \in Walks : [walk[w] EXCEPT !.lone = FALSE] \in WalkSet
  BY <1>1, ZenonT(60) DEF WalkSet
<1> QED BY <1>1, <1>2, <1>3, ZenonT(60) DEF WalkSet, Disturb

LEMMA EditInv == ASSUME IInv, NEW f \in Files, Edit(f) PROVE IInv'
<1>1. clock' = clock + 1 /\ clock \in Nat /\ Disturb /\ UNCHANGED <<index, snapshot, edit, other>>
  BY DEF Edit, Tick, IInv, Types
<1>2. PICK c \in Contents \cup {None} : tree' = [tree EXCEPT ![f] = IF c = None THEN None ELSE Row(c, clock')]
  BY DEF Edit
<1>3. tree \in Rows
  BY DEF IInv, Types
<1>4. tree' \in Rows
  BY <1>1, <1>2, <1>3 DEF Rows, RowSet, Row
<1>5. \A g \in Files : tree'[g] = tree[g] \/ tree'[g] = None \/ (tree'[g].mtime \in Nat /\ tree'[g].mtime = clock')
  BY <1>1, <1>2, <1>3 DEF Rows, Row
<1>6. \A g \in Files : tree'[g] = tree[g] \/ tree'[g] = None \/ (tree'[g].mtime \in Nat /\ tree'[g].mtime > clock)
  BY <1>1, <1>5
<1>w. /\ walk' \in [Walks -> WalkSet]
      /\ \A w \in Walks : /\ walk'[w].at = walk[w].at /\ walk'[w].old = walk[w].old /\ walk'[w].sha = walk[w].sha
  BY <1>1, Disturbed
<1>7. Types'
  BY <1>1, <1>4, <1>w DEF IInv, Types
<1>8. Past'
  <2>1. \A g \in Files : tree'[g] # None => tree'[g].mtime <= clock'
    BY <1>1, <1>3, <1>5 DEF IInv, Past, Rows, RowSet
  <2>2. index'.time <= clock' /\ snapshot'.time <= clock'
    BY <1>1 DEF IInv, Types, Past
  <2>3. (other' # None => other'.time <= clock') /\ (edit' # None => edit'.mtime <= clock')
    BY <1>1 DEF IInv, Types, Past
  <2>4. \A w \in Walks : walk'[w].old.time <= clock'
    BY <1>1, <1>w DEF IInv, Types, Past, WalkSet
  <2> QED BY <2>1, <2>2, <2>3, <2>4 DEF Past
<1>9. Paired'
  BY <1>1, Disturbed DEF IInv, Paired, Pairs, At
<1>10. \A g \in Files : Vouches(g, index.rows[g])'
  <2> TAKE g \in Files
  <2>1. Vouches(g, index.rows[g]) /\ index.rows[g] \in RowSet \cup {None}
    BY DEF IInv, Types, Rows
  <2> QED BY <1>1, <1>6, <2>1 DEF Vouches, RowSet
<1>11. \A w \in Walks, g \in Files : Local(w, g)'
  <2> TAKE w \in Walks, g \in Files
  <2>1. clock' \in Nat /\ clock' >= clock
    BY <1>1
  <2> QED BY <1>1, <1>6, <2>1, Disturbed, LocalKeeps
<1>12. \A w \in Walks : Calm(w)'
  BY <1>1, Disturbed DEF Calm
<1> QED BY <1>7, <1>8, <1>9, <1>10, <1>11, <1>12 DEF IInv

\* A commit: new rows under a new time.
LEMMA CommitInv ==
  ASSUME IInv, clock' = clock + 1, UNCHANGED <<tree, snapshot>>,
         index' \in [time : Nat, rows : Rows], index'.time = clock',
         \A f \in Files : Vouches(f, index.rows[f])',
         walk' \in [Walks -> WalkSet], \A w \in Walks : walk'[w].old.time <= clock',
         \A w \in Walks : walk'[w].at = "saved" /\ walk'[w].old.time = clock' => Pairs(index.rows, walk[w].sha)',
         \A w \in Walks, f \in Files : Local(w, f)', \A w \in Walks : walk'[w].at = "walk" => ~walk'[w].lone,
         edit' = None \/ UNCHANGED edit,
         UNCHANGED other \/ /\ other' \in [time : Nat, shas : Shas] /\ other'.time = clock'
                            /\ Pairs(index.rows, other.shas)'
  PROVE  IInv'
<1>1. clock \in Nat /\ snapshot.time <= clock /\ snapshot.time \in Nat /\ index'.time = clock + 1
  BY DEF IInv, Types, Past
<1>2. Types'
  BY <1>1 DEF IInv, Types
<1>3. Past'
  <2>1. \A f \in Files : tree'[f] # None => tree'[f].mtime <= clock'
    BY <1>1 DEF IInv, Types, Past, Rows, RowSet
  <2>2. index'.time <= clock' /\ snapshot'.time <= clock'
    BY <1>1
  <2>3. other' # None => other'.time <= clock'
    BY <1>1 DEF IInv, Types, Past
  <2>4. edit' # None => edit'.mtime <= clock'
    BY <1>1 DEF IInv, Types, Past
  <2> QED BY <2>1, <2>2, <2>3, <2>4 DEF Past
<1>4. Paired'
  <2>1. snapshot'.time # index'.time
    BY <1>1
  <2>2. other' # None /\ other'.time = index'.time => Pairs(index.rows, other.shas)'
    BY <1>1 DEF IInv, Types, Past
  <2>3. \A w \in Walks : At(w, "saved")' /\ walk'[w].old.time = index'.time => Pairs(index.rows, walk[w].sha)'
    BY DEF At
  <2> QED BY <2>1, <2>2, <2>3 DEF Paired
<1>5. \A w \in Walks : Calm(w)'
  BY DEF Calm, At
<1> QED BY <1>2, <1>3, <1>4, <1>5 DEF IInv

LEMMA EditStatInv == ASSUME IInv, NEW f \in Files, EditStat(f) PROVE IInv'
<1>1. edit' = [file |-> f, mtime |-> Mtime(f)] /\ tree[f] # None /\ UNCHANGED <<tree, index, snapshot, walk, other, clock>>
  BY DEF EditStat
<1>2. Mtime(f) \in Nat \ {0} /\ Mtime(f) <= clock
  BY <1>1 DEF IInv, Types, Past, Rows, RowSet, Mtime
<1>3. Types'
  BY <1>1, <1>2 DEF IInv, Types
<1>4. Past'
  BY <1>1, <1>2 DEF IInv, Past
<1>5. Paired' /\ \A g \in Files : Vouches(g, index.rows[g])'
  BY <1>1 DEF IInv, Paired, Pairs, At, Vouches
<1>6. \A w \in Walks, g \in Files : Local(w, g)'
  <2> TAKE w \in Walks, g \in Files
  <2>1. clock' \in Nat /\ clock' >= clock
    BY <1>1 DEF IInv, Types
  <2> QED BY <1>1, <2>1, LocalKeeps
<1>7. \A w \in Walks : Calm(w)'
  BY <1>1 DEF IInv, Calm, At
<1> QED BY <1>3, <1>4, <1>5, <1>6, <1>7 DEF IInv

\* What a commit leaves of the walks in flight.
LEMMA DisturbedWalks ==
  ASSUME IInv, Disturb, clock' = clock + 1, UNCHANGED tree
  PROVE  /\ walk' \in [Walks -> WalkSet] /\ \A w \in Walks : walk'[w].old.time <= clock /\ ~walk'[w].lone
         /\ \A w \in Walks, f \in Files : Local(w, f)'
<1>1. clock \in Nat /\ clock' \in Nat /\ clock' >= clock
  BY DEF IInv, Types
<1>d. \A w \in Walks : walk'[w].old = walk[w].old /\ ~walk'[w].lone
  BY Disturbed
<1>2. walk' \in [Walks -> WalkSet] /\ \A w \in Walks : walk'[w].old.time <= clock /\ ~walk'[w].lone
  BY <1>d, Disturbed DEF IInv, Past
<1>3. ASSUME NEW w \in Walks, NEW f \in Files PROVE Local(w, f)'
  BY <1>1, Disturbed, LocalKeeps
<1> QED BY <1>2, <1>3

LEMMA VouchesStay ==
  ASSUME IInv, NEW f \in Files, NEW r \in RowSet \cup {None}, Vouches(f, r), clock' = clock + 1, UNCHANGED tree
  PROVE  Vouches(f, r)'
  BY DEF Vouches, RowSet, IInv, Types

LEMMA EditSaveInv == ASSUME IInv, EditSave PROVE IInv'
<1>1. edit # None /\ edit' = None /\ edit \in [file : Files, mtime : Nat \ {0}] /\ UNCHANGED <<tree, snapshot, other>>
  BY DEF EditSave, IInv, Types
<1>2. CASE tree[edit.file] = None
  <2>1. UNCHANGED <<index, walk, clock>>
    BY <1>2 DEF EditSave
  <2>2. Types' /\ Past' /\ Paired' /\ (\A g \in Files : Vouches(g, index.rows[g])') /\ \A w \in Walks : Calm(w)'
    BY <1>1, <2>1 DEF IInv, Types, Past, Paired, Pairs, At, Vouches, Calm
  <2>3. ASSUME NEW w \in Walks, NEW g \in Files PROVE Local(w, g)'
    <3>1. clock' \in Nat /\ clock' >= clock
      BY <2>1 DEF IInv, Types
    <3> QED BY <1>1, <2>1, <3>1, LocalKeeps
  <2> QED BY <2>2, <2>3 DEF IInv
<1>3. CASE tree[edit.file] # None
  <2>1. PICK f \in Files, m \in Nat \ {0} : f = edit.file /\ m = edit.mtime
    BY <1>1
  <2>2. clock' = clock + 1 /\ Disturb
        /\ index' = [time |-> clock', rows |-> [index.rows EXCEPT ![f] = Row(tree[f].content, m)]]
    BY <1>3, <2>1 DEF EditSave, Tick
  <2>3. clock \in Nat /\ index.rows \in Rows /\ tree[f].content \in Contents /\ m <= clock
    BY <1>1, <1>3, <2>1 DEF IInv, Types, Past, Rows, RowSet
  <2>4. PICK c \in Contents : c = tree[f].content
    BY <2>3
  <2>5. index' \in [time : Nat, rows : Rows] /\ index'.time = clock'
        /\ index'.rows[f] = Row(c, m) /\ \A g \in Files \ {f} : index'.rows[g] = index.rows[g]
    BY <2>2, <2>3, <2>4 DEF Rows, RowSet, Row
  <2>6. ASSUME NEW g \in Files PROVE Vouches(g, index.rows[g])'
    <3>1. CASE g = f
      <4>1. index'.rows[g] # None /\ index'.rows[g].content = c /\ index'.rows[g].mtime = m
        BY <2>5, <3>1, RowIsNotNone
      <4>2. m <= clock'
        BY <2>2, <2>3
      <4> QED BY <1>1, <2>4, <3>1, <4>1, <4>2 DEF Vouches
    <3>2. CASE g # f
      <4>1. PICK r \in RowSet \cup {None} : r = index.rows[g]
        BY <2>3 DEF Rows
      <4>2. Vouches(g, r)
        BY <4>1 DEF IInv
      <4>3. Vouches(g, r)'
        BY <1>1, <2>2, <4>2, VouchesStay
      <4> QED BY <2>5, <3>2, <4>1, <4>3 DEF Vouches
    <3> QED BY <3>1, <3>2
  <2>7. \A w \in Walks : walk'[w].old.time <= clock' /\ walk'[w].old.time # clock'
    BY <1>1, <2>2, <2>3, DisturbedWalks DEF WalkSet
  <2> QED BY <1>1, <2>2, <2>5, <2>6, <2>7, DisturbedWalks, CommitInv
<1> QED BY <1>2, <1>3

LEMMA OtherSaveInv == ASSUME IInv, OtherSave PROVE IInv'
<1>1. /\ clock' = clock + 1 /\ Disturb /\ UNCHANGED <<tree, snapshot, edit>>
      /\ index' = [time |-> clock', rows |-> tree]
      /\ other' = [time |-> clock', shas |-> [f \in Files |-> IF tree[f] = None THEN None ELSE tree[f].content]]
  BY DEF OtherSave, Tick
<1>2. clock \in Nat /\ tree \in Rows
  BY DEF IInv, Types
<1>3. index' \in [time : Nat, rows : Rows] /\ index'.time = clock' /\ index'.rows = tree
  BY <1>1, <1>2
<1>4. other' \in [time : Nat, shas : Shas] /\ other'.time = clock' /\ Pairs(index.rows, other.shas)'
  BY <1>1, <1>2, <1>3 DEF Shas, Rows, RowSet, Pairs, Pair
<1>5. \A f \in Files : Vouches(f, index.rows[f])'
  BY <1>1, <1>2, <1>3 DEF Vouches, Rows, RowSet, IInv, Past
<1>6. \A w \in Walks : walk'[w].old.time <= clock' /\ walk'[w].old.time # clock'
  BY <1>1, <1>2, DisturbedWalks DEF WalkSet
<1> QED BY <1>1, <1>3, <1>4, <1>5, <1>6, DisturbedWalks, CommitInv

\* A step that changes neither files, rows nor the clock, and of the walks only what is
\* at rest.
LEMMA QuietInv ==
  ASSUME IInv, UNCHANGED <<tree, index, edit, clock>>,
         snapshot' \in [time : Nat, shas : Shas], snapshot'.time <= clock,
         snapshot'.time = index.time => Pairs(index.rows, snapshot.shas)',
         other' = None \/ UNCHANGED other,
         walk' \in [Walks -> WalkSet], \A w \in Walks : walk'[w].old.time <= clock,
         \A w \in Walks : walk'[w].at = "saved" => walk'[w] = walk[w],
         \A w \in Walks : walk'[w].lone /\ walk'[w].at = "walk" => index = walk'[w].old,
         \A w \in Walks, f \in Files : Local(w, f)'
  PROVE  IInv'
<1>1. Types'
  BY DEF IInv, Types
<1>2. Past'
  BY DEF IInv, Past
<1>3. Paired'
  <2>1. \A w \in Walks : At(w, "saved")' /\ walk'[w].old.time = index'.time => Pairs(index.rows, walk[w].sha)'
    <3> SUFFICES ASSUME NEW w \in Walks, At(w, "saved")', walk'[w].old.time = index'.time
                 PROVE  Pairs(index.rows, walk[w].sha)'
      OBVIOUS
    <3>1. walk'[w] = walk[w] /\ At(w, "saved")
      BY DEF At
    <3> QED BY <3>1 DEF IInv, Paired, Pairs
  <2>2. other' # None /\ other'.time = index'.time => Pairs(index.rows, other.shas)'
    BY DEF IInv, Paired, Pairs
  <2> QED BY <2>1, <2>2 DEF Paired
<1>4. \A g \in Files : Vouches(g, index.rows[g])'
  BY DEF IInv, Vouches
<1>5. \A w \in Walks : Calm(w)'
  BY DEF Calm, At
<1> QED BY <1>1, <1>2, <1>3, <1>4, <1>5 DEF IInv

LEMMA SameLocal ==
  ASSUME IInv, UNCHANGED <<tree, clock>>, NEW w \in Walks, walk'[w] = walk[w], NEW f \in Files
  PROVE  Local(w, f)'
<1>1. clock' \in Nat /\ clock' >= clock
  BY DEF IInv, Types
<1> QED BY <1>1, LocalKeeps

LEMMA OtherSnapshotInv == ASSUME IInv, OtherSnapshot PROVE IInv'
<1>1. other # None /\ snapshot' = other /\ other' = None /\ UNCHANGED <<tree, index, walk, edit, clock>>
  BY DEF OtherSnapshot
<1>2. snapshot' \in [time : Nat, shas : Shas] /\ snapshot'.time <= clock
  BY <1>1 DEF IInv, Types, Past
<1>3. snapshot'.time = index.time => Pairs(index.rows, snapshot.shas)'
  BY <1>1 DEF IInv, Paired, Pairs
<1>4. walk' \in [Walks -> WalkSet] /\ \A w \in Walks : walk'[w].old.time <= clock
  BY <1>1 DEF IInv, Types, Past
<1>5. \A w \in Walks, f \in Files : Local(w, f)'
  BY <1>1, SameLocal
<1>6. \A w \in Walks : walk'[w].lone /\ walk'[w].at = "walk" => index = walk'[w].old
  BY <1>1 DEF IInv, Calm, At
<1> QED BY <1>1, <1>2, <1>3, <1>4, <1>5, <1>6, QuietInv

\* A walk goes back to rest, or its snapshot is saved.
LEMMA RestInv ==
  ASSUME IInv, NEW w \in Walks, walk' = [walk EXCEPT ![w] = Idle], UNCHANGED <<tree, index, edit, other, clock>>,
         snapshot' \in [time : Nat, shas : Shas], snapshot'.time <= clock,
         snapshot'.time = index.time => Pairs(index.rows, snapshot.shas)'
  PROVE  IInv'
<1>1. NoRows \in Rows /\ NoRows \in Shas /\ \A f \in Files : NoRows[f] = None
  BY DEF NoRows, Rows, Shas
<1>2. Idle \in WalkSet /\ Idle.at = "idle" /\ Idle.old.time = 0 /\ Idle.old.rows = NoRows /\ Idle.rows = NoRows /\ ~Idle.lone
      /\ \A f \in Files : Idle.mtime[f] = 0 /\ Idle.step[f] = "out"
  BY <1>1 DEF Idle, WalkSet, Steps
<1>3. walk'[w] = Idle /\ walk' \in [Walks -> WalkSet] /\ \A v \in Walks \ {w} : walk'[v] = walk[v]
  BY <1>2 DEF IInv, Types
<1>4. clock \in Nat /\ \A v \in Walks : walk'[v].old.time <= clock
  BY <1>2, <1>3 DEF IInv, Types, Past
<1>5. \A f \in Files : Local(w, f)'
  BY <1>1, <1>2, <1>3, <1>4 DEF Local, Vouches, Pair
<1>6. \A v \in Walks, f \in Files : Local(v, f)'
  BY <1>3, <1>5, SameLocal
<1>7. \A v \in Walks : walk'[v].at = "saved" => walk'[v] = walk[v]
  BY <1>2, <1>3
<1>8. \A v \in Walks : walk'[v].lone /\ walk'[v].at = "walk" => index = walk'[v].old
  BY <1>2, <1>3 DEF IInv, Calm, At
<1> QED BY <1>3, <1>4, <1>6, <1>7, <1>8, QuietInv

LEMMA RejectInv == ASSUME IInv, NEW w \in Walks, Reject(w) \/ Crash(w) PROVE IInv'
<1>1. walk' = [walk EXCEPT ![w] = Idle] /\ UNCHANGED <<tree, index, snapshot, edit, other, clock>>
  BY DEF Reject, Crash
<1>2. snapshot' \in [time : Nat, shas : Shas] /\ snapshot'.time <= clock
  BY <1>1 DEF IInv, Types, Past
<1>3. snapshot'.time = index.time => Pairs(index.rows, snapshot.shas)'
  BY <1>1 DEF IInv, Paired, Pairs
<1> QED BY <1>1, <1>2, <1>3, RestInv

LEMMA SaveSnapshotInv == ASSUME IInv, NEW w \in Walks, SaveSnapshot(w) PROVE IInv'
<1>1. At(w, "saved") /\ walk' = [walk EXCEPT ![w] = Idle] /\ UNCHANGED <<tree, index, edit, other, clock>>
      /\ (snapshot' = [time |-> walk[w].old.time, shas |-> walk[w].sha] \/ UNCHANGED snapshot)
  BY DEF SaveSnapshot
<1>2. walk[w] \in WalkSet
  BY DEF IInv, Types
<1>3. CASE snapshot' = [time |-> walk[w].old.time, shas |-> walk[w].sha]
  <2>1. snapshot' \in [time : Nat, shas : Shas] /\ snapshot'.time = walk[w].old.time /\ snapshot'.shas = walk[w].sha
    BY <1>2, <1>3 DEF WalkSet
  <2>2. snapshot'.time <= clock
    BY <2>1 DEF IInv, Past
  <2>3. snapshot'.time = index.time => Pairs(index.rows, snapshot.shas)'
    BY <1>1, <2>1 DEF IInv, Paired, Pairs
  <2> QED BY <1>1, <2>1, <2>2, <2>3, RestInv
<1>4. CASE UNCHANGED snapshot
  <2>1. snapshot' \in [time : Nat, shas : Shas] /\ snapshot'.time <= clock
    BY <1>4 DEF IInv, Types, Past
  <2>2. snapshot'.time = index.time => Pairs(index.rows, snapshot.shas)'
    BY <1>1, <1>4 DEF IInv, Paired, Pairs
  <2> QED BY <1>1, <2>1, <2>2, RestInv
<1> QED BY <1>1, <1>3, <1>4

\* What a walk starts with.
LEMMA BeginFields ==
  ASSUME IInv, NEW w \in Walks, Begin(w)
  PROVE  \E scope \in SUBSET Files, capped \in BOOLEAN, found \in SUBSET Files :
           /\ found \subseteq Present(scope) /\ (capped => scope = Files)
           /\ walk' \in [Walks -> WalkSet] /\ \A v \in Walks \ {w} : walk'[v] = walk[v]
           /\ walk'[w].at = "walk" /\ walk'[w].old = index /\ walk'[w].scope = scope /\ walk'[w].capped = capped
           /\ walk'[w].shas = IF snapshot.time = index.time THEN snapshot.shas ELSE NoRows
           /\ (\A f \in Files : walk'[w].step[f] = IF f \notin found THEN "out"
                                                ELSE IF index.rows[f] = None THEN "parse" ELSE "decide")
           /\ walk'[w].rows = NoRows /\ walk'[w].sha = NoRows /\ (\A f \in Files : walk'[w].mtime[f] = 0)
           /\ (walk'[w].lone => capped \/ found = Present(scope))
           /\ UNCHANGED <<tree, index, snapshot, edit, other, clock>>
<1>1. PICK scope \in SUBSET Files \ {{}}, capped \in BOOLEAN, found \in SUBSET Files :
         /\ found \subseteq Present(scope) /\ (capped => scope = Files)
         /\ walk' = [walk EXCEPT ![w] = [Idle EXCEPT
              !.at = "walk", !.old = index, !.scope = scope, !.capped = capped,
              !.shas = IF snapshot.time = index.time THEN snapshot.shas ELSE NoRows,
              !.step = [f \in Files |-> IF f \notin found THEN "out"
                                        ELSE IF index.rows[f] = None THEN "parse" ELSE "decide"],
              !.lone = capped \/ found = Present(scope)]]
         /\ UNCHANGED <<tree, index, snapshot, edit, other, clock>>
  BY ZenonT(60) DEF Begin
<1> DEFINE n == [Idle EXCEPT
              !.at = "walk", !.old = index, !.scope = scope, !.capped = capped,
              !.shas = IF snapshot.time = index.time THEN snapshot.shas ELSE NoRows,
              !.step = [f \in Files |-> IF f \notin found THEN "out"
                                        ELSE IF index.rows[f] = None THEN "parse" ELSE "decide"],
              !.lone = capped \/ found = Present(scope)]
<1>2. NoRows \in Rows /\ NoRows \in Shas
  BY DEF NoRows, Rows, Shas
<1>3. n.at = "walk" /\ n.old = index /\ n.scope = scope /\ n.capped = capped
      /\ n.shas = (IF snapshot.time = index.time THEN snapshot.shas ELSE NoRows)
      /\ n.step = [f \in Files |-> IF f \notin found THEN "out"
                                   ELSE IF index.rows[f] = None THEN "parse" ELSE "decide"]
      /\ n.rows = NoRows /\ n.sha = NoRows /\ n.mtime = [f \in Files |-> 0]
      /\ n.lone = (capped \/ found = Present(scope))
  BY DEF Idle
<1>4. PICK s \in Shas, o \in [time : Nat, rows : Rows], st \in [Files -> Steps], b \in BOOLEAN :
        /\ s = IF snapshot.time = index.time THEN snapshot.shas ELSE NoRows
        /\ o = index
        /\ st = [f \in Files |-> IF f \notin found THEN "out" ELSE IF index.rows[f] = None THEN "parse" ELSE "decide"]
        /\ b = (capped \/ found = Present(scope))
  BY <1>2 DEF IInv, Types, Steps
<1>5. n = [Idle EXCEPT !.at = "walk", !.old = o, !.scope = scope, !.capped = capped, !.shas = s, !.step = st, !.lone = b]
  BY <1>4
<1>6. [Idle EXCEPT !.at = "walk", !.old = o, !.scope = scope, !.capped = capped, !.shas = s, !.step = st, !.lone = b] \in WalkSet
  BY <1>2 DEF WalkSet, Idle
<1>7. walk' = [walk EXCEPT ![w] = n]
  BY <1>1
<1>8. n \in WalkSet
  BY <1>5, <1>6
<1> HIDE DEF n
<1>9. walk'[w] = n /\ walk' \in [Walks -> WalkSet] /\ \A v \in Walks \ {w} : walk'[v] = walk[v]
  BY <1>7, <1>8 DEF IInv, Types
<1>10. \A f \in Files : n.step[f] = IF f \notin found THEN "out" ELSE IF index.rows[f] = None THEN "parse" ELSE "decide"
  BY <1>3
<1>11. \A f \in Files : n.mtime[f] = 0
  BY <1>3
<1>12. n.lone => capped \/ found = Present(scope)
  BY <1>3
<1>13. /\ found \subseteq Present(scope) /\ (capped => scope = Files)
       /\ UNCHANGED <<tree, index, snapshot, edit, other, clock>>
  BY <1>1
<1>14. /\ walk'[w].at = "walk" /\ walk'[w].old = index /\ walk'[w].scope = scope /\ walk'[w].capped = capped
       /\ walk'[w].shas = (IF snapshot.time = index.time THEN snapshot.shas ELSE NoRows)
       /\ walk'[w].rows = NoRows /\ walk'[w].sha = NoRows
  BY <1>3, <1>9
<1>15. (\A f \in Files : walk'[w].mtime[f] = 0) /\ (walk'[w].lone => capped \/ found = Present(scope))
  BY <1>9, <1>11, <1>12
<1>16. \A f \in Files : walk'[w].step[f] = IF f \notin found THEN "out"
                                            ELSE IF index.rows[f] = None THEN "parse" ELSE "decide"
  BY <1>9, <1>10
<1>17. scope \in SUBSET Files
  BY <1>1
<1> QED BY <1>9, <1>13, <1>14, <1>15, <1>16, <1>17, ZenonT(60)

LEMMA BeginInv == ASSUME IInv, NEW w \in Walks, Begin(w) PROVE IInv'
<1>1. PICK scope \in SUBSET Files, capped \in BOOLEAN, found \in SUBSET Files :
           /\ found \subseteq Present(scope) /\ (capped => scope = Files)
           /\ walk' \in [Walks -> WalkSet] /\ \A v \in Walks \ {w} : walk'[v] = walk[v]
           /\ walk'[w].at = "walk" /\ walk'[w].old = index /\ walk'[w].scope = scope /\ walk'[w].capped = capped
           /\ walk'[w].shas = IF snapshot.time = index.time THEN snapshot.shas ELSE NoRows
           /\ (\A f \in Files : walk'[w].step[f] = IF f \notin found THEN "out"
                                                ELSE IF index.rows[f] = None THEN "parse" ELSE "decide")
           /\ walk'[w].rows = NoRows /\ walk'[w].sha = NoRows /\ (\A f \in Files : walk'[w].mtime[f] = 0)
           /\ (walk'[w].lone => capped \/ found = Present(scope))
           /\ UNCHANGED <<tree, index, snapshot, edit, other, clock>>
  BY BeginFields
<1>2. \A f \in Files : NoRows[f] = None
  BY DEF NoRows
<1>3. clock \in Nat /\ index.time <= clock
  BY DEF IInv, Types, Past
<1>4. ASSUME NEW f \in Files PROVE Local(w, f)'
  <2>1. Vouches(f, index.rows[f]) /\ (snapshot.time = index.time => Pair(index.rows[f], snapshot.shas[f]))
    BY DEF IInv, Paired, Pairs
  <2>2. Vouches(f, walk[w].old.rows[f])' /\ Vouches(f, walk[w].rows[f])'
    BY <1>1, <1>2, <2>1 DEF Vouches
  <2>3. Pair(walk[w].old.rows[f], walk[w].shas[f])'
    BY <1>1, <1>2, <2>1 DEF Pair
  <2>4. walk'[w].step[f] \in {"out", "parse", "decide"} /\ (walk'[w].step[f] = "decide" => walk'[w].old.rows[f] # None)
    BY <1>1
  <2>5. (walk[w].lone => Sure(w, f))'
    BY <1>1, <2>4 DEF Sure, Present
  <2> QED BY <1>1, <1>3, <2>2, <2>3, <2>4, <2>5 DEF Local, At
<1>5. \A v \in Walks, f \in Files : Local(v, f)'
  BY <1>1, <1>4, SameLocal
<1>6. \A v \in Walks : walk'[v].old.time <= clock
  BY <1>1, <1>3 DEF IInv, Past
<1>7. \A v \in Walks : walk'[v].at = "saved" => walk'[v] = walk[v]
  BY <1>1
<1>8. snapshot' \in [time : Nat, shas : Shas] /\ snapshot'.time <= clock
  BY <1>1 DEF IInv, Types, Past
<1>9. snapshot'.time = index.time => Pairs(index.rows, snapshot.shas)'
  BY <1>1 DEF IInv, Paired, Pairs
<1>10. UNCHANGED <<tree, index, edit, clock>> /\ UNCHANGED other /\ walk' \in [Walks -> WalkSet]
  BY <1>1
<1>11. \A v \in Walks : walk'[v].lone /\ walk'[v].at = "walk" => index = walk'[v].old
  BY <1>1 DEF IInv, Calm, At
<1> QED BY <1>5, <1>6, <1>7, <1>8, <1>9, <1>10, <1>11, QuietInv

LEMMA MergeFacts ==
  ASSUME NEW w \in Walks, NEW found, NEW old, NEW f \in Files
  PROVE  /\ f \in Walked(w) <=> walk[w].step[f] \in {"kept", "parsed"}
         /\ f \in Walked(w) => Merge(w, found, old)[f] = found[f]
         /\ f \notin Walked(w) => Merge(w, found, old)[f] \in {None, old[f]}
  BY DEF Walked, In, Merge

LEMMA SaveFields ==
  ASSUME IInv, NEW w \in Walks, Save(w)
  PROVE  /\ walk' \in [Walks -> WalkSet]
         /\ \A v \in Walks \ {w} :
              /\ walk'[v].at = walk[v].at /\ walk'[v].old = walk[v].old /\ walk'[v].shas = walk[v].shas
              /\ walk'[v].scope = walk[v].scope /\ walk'[v].capped = walk[v].capped /\ walk'[v].step = walk[v].step
              /\ walk'[v].mtime = walk[v].mtime /\ walk'[v].rows = walk[v].rows /\ walk'[v].sha = walk[v].sha
              /\ walk'[v].lone = FALSE
         /\ walk'[w].at = "saved" /\ walk'[w].old.rows = walk[w].old.rows /\ walk'[w].old.time = clock'
         /\ walk'[w].shas = walk[w].shas /\ walk'[w].step = walk[w].step /\ walk'[w].mtime = walk[w].mtime
         /\ walk'[w].scope = walk[w].scope /\ walk'[w].capped = walk[w].capped /\ walk'[w].lone = walk[w].lone
         /\ walk'[w].rows = walk[w].rows /\ walk'[w].sha = Merge(w, walk[w].sha, walk[w].shas)
         /\ index' \in [time : Nat, rows : Rows] /\ index'.time = clock'
         /\ index'.rows = Merge(w, walk[w].rows, walk[w].old.rows)
         /\ clock' = clock + 1 /\ clock \in Nat /\ UNCHANGED <<tree, snapshot, edit, other>>
         /\ At(w, "walk") /\ \A f \in Files : walk[w].step[f] \in {"out", "kept", "parsed", "failed"}
<1>1. \A v \in Walks : walk[v] \in WalkSet
  BY DEF IInv, Types
<1>2. clock' = clock + 1 /\ clock \in Nat /\ UNCHANGED <<tree, snapshot, edit, other>>
      /\ At(w, "walk") /\ \A f \in Files : walk[w].step[f] \in {"out", "kept", "parsed", "failed"}
  BY DEF Save, Tick, Settled, IInv, Types
<1>3. Merge(w, walk[w].rows, walk[w].old.rows) \in Rows /\ Merge(w, walk[w].sha, walk[w].shas) \in Shas
  BY <1>1 DEF Merge, Rows, Shas, WalkSet
<1>4. PICK R \in Rows, S \in Shas : R = Merge(w, walk[w].rows, walk[w].old.rows) /\ S = Merge(w, walk[w].sha, walk[w].shas)
  BY <1>3
<1>5. index' = [time |-> clock', rows |-> R]
  BY <1>4 DEF Save
<1>6. walk' = [v \in Walks |-> IF v = w THEN [walk[w] EXCEPT !.at = "saved", !.sha = S, !.old.time = clock']
                               ELSE [walk[v] EXCEPT !.lone = FALSE]]
  BY <1>4 DEF Save
<1>7. PICK n : n = [walk[w] EXCEPT !.at = "saved", !.sha = S, !.old.time = clock + 1]
  OBVIOUS
<1>9. /\ n.at = "saved" /\ n.old = [walk[w].old EXCEPT !.time = clock + 1] /\ n.sha = S
      /\ n.scope = walk[w].scope /\ n.capped = walk[w].capped /\ n.lone = walk[w].lone
      /\ n.shas = walk[w].shas /\ n.step = walk[w].step /\ n.mtime = walk[w].mtime /\ n.rows = walk[w].rows
  BY <1>1, <1>7 DEF WalkSet
<1>10. n.old.rows = walk[w].old.rows /\ n.old.time = clock + 1
  BY <1>1, <1>9 DEF WalkSet
<1>8. n \in WalkSet
  <2>0. walk[w].old \in [time : Nat, rows : Rows] /\ clock + 1 \in Nat
    BY <1>1, <1>2 DEF WalkSet
  <2>a. [walk[w].old EXCEPT !.time = clock + 1] \in [time : Nat, rows : Rows]
    BY <2>0
  <2>1. PICK o \in [time : Nat, rows : Rows] : o = [walk[w].old EXCEPT !.time = clock + 1]
    BY <2>a
  <2>2. n = [walk[w] EXCEPT !.at = "saved", !.sha = S, !.old = o]
    BY <1>1, <1>7, <2>1 DEF WalkSet
  <2> QED BY <1>1, <2>2, ZenonT(60) DEF WalkSet
<1>11. walk'[w] = n
  BY <1>2, <1>6, <1>7
<1>12. \A v \in Walks \ {w} : walk'[v] = [walk[v] EXCEPT !.lone = FALSE]
  BY <1>6
<1>13. \A v \in Walks \ {w} :
              /\ walk'[v].at = walk[v].at /\ walk'[v].old = walk[v].old /\ walk'[v].shas = walk[v].shas
              /\ walk'[v].scope = walk[v].scope /\ walk'[v].capped = walk[v].capped /\ walk'[v].step = walk[v].step
              /\ walk'[v].mtime = walk[v].mtime /\ walk'[v].rows = walk[v].rows /\ walk'[v].sha = walk[v].sha
              /\ walk'[v].lone = FALSE /\ walk'[v] \in WalkSet
  <2> TAKE v \in Walks \ {w}
  <2>1. PICK r \in WalkSet : r = walk[v]
    BY <1>1
  <2>2. walk'[v] = [r EXCEPT !.lone = FALSE]
    BY <1>12, <2>1
  <2>3. [r EXCEPT !.lone = FALSE] \in WalkSet
    BY DEF WalkSet
  <2>4. /\ walk'[v].at = r.at /\ walk'[v].old = r.old /\ walk'[v].shas = r.shas
        /\ walk'[v].scope = r.scope /\ walk'[v].capped = r.capped /\ walk'[v].step = r.step
        /\ walk'[v].mtime = r.mtime /\ walk'[v].rows = r.rows /\ walk'[v].sha = r.sha
        /\ walk'[v].lone = FALSE
    BY <2>2 DEF WalkSet
  <2> QED BY <2>1, <2>2, <2>3, <2>4
<1>14. walk' \in [Walks -> WalkSet]
  <2>1. \A v \in Walks : walk'[v] \in WalkSet
    BY <1>8, <1>11, <1>13
  <2> QED BY <1>6, <2>1
<1>15. index' \in [time : Nat, rows : Rows] /\ index'.time = clock' /\ index'.rows = R
  BY <1>2, <1>5
<1> QED BY <1>2, <1>4, <1>9, <1>10, <1>11, <1>13, <1>14, <1>15

LEMMA SaveInv == ASSUME IInv, NEW w \in Walks, Save(w) PROVE IInv'
<1>o. \A u \in Walks \ {w} :
        /\ walk'[u].at = walk[u].at /\ walk'[u].old = walk[u].old /\ walk'[u].shas = walk[u].shas
        /\ walk'[u].scope = walk[u].scope /\ walk'[u].capped = walk[u].capped /\ walk'[u].step = walk[u].step
        /\ walk'[u].mtime = walk[u].mtime /\ walk'[u].rows = walk[u].rows /\ walk'[u].sha = walk[u].sha
        /\ walk'[u].lone = FALSE
  BY SaveFields
<1> DEFINE R == Merge(w, walk[w].rows, walk[w].old.rows)
           S == Merge(w, walk[w].sha, walk[w].shas)
<1>1. \A f \in Files : /\ walk[w].step[f] \in {"kept", "parsed"} => R[f] = walk[w].rows[f] /\ S[f] = walk[w].sha[f]
                       /\ walk[w].step[f] \notin {"kept", "parsed"} =>
                            R[f] \in {None, walk[w].old.rows[f]} /\ S[f] \in {None, walk[w].shas[f]}
  <2> TAKE f \in Files
  <2>1. PICK r, o, h, hs : r = walk[w].rows /\ o = walk[w].old.rows /\ h = walk[w].sha /\ hs = walk[w].shas
    OBVIOUS
  <2>2. R[f] = Merge(w, r, o)[f] /\ S[f] = Merge(w, h, hs)[f]
    BY <2>1
  <2> QED BY <2>1, <2>2, MergeFacts
<1> HIDE DEF R, S
<1>2. walk'[w].sha = S /\ index'.rows = R
  BY SaveFields DEF R, S
<1>s. clock' = clock + 1 /\ clock \in Nat /\ UNCHANGED tree
  BY SaveFields
<1>3. clock' \in Nat /\ clock' >= clock
  BY <1>s
<1>4. ASSUME NEW f \in Files PROVE Vouches(f, index.rows[f])' /\ Pair(index.rows[f], walk[w].sha[f])'
  <2>1. Local(w, f)
    BY DEF IInv
  <2>2. PICK r \in RowSet \cup {None} : r = R[f]
    BY <1>1, WalkTypes
  <2>3. Vouches(f, r)
    BY <1>1, <2>1, <2>2 DEF Local, Vouches
  <2>4. Vouches(f, r)'
    BY <2>3, SaveFields, VouchesStay
  <2>5. Pair(R[f], S[f])
    BY <1>1, <2>1 DEF Local, Pair
  <2> QED BY <1>2, <2>2, <2>4, <2>5 DEF Vouches, Pair
<1>5. ASSUME NEW f \in Files PROVE Local(w, f)'
  <2>1. Local(w, f) /\ walk[w].step[f] \in {"out", "kept", "parsed", "failed"}
    BY SaveFields DEF IInv
  <2>2. PICK r \in RowSet \cup {None}, o \in RowSet \cup {None} : r = walk[w].rows[f] /\ o = walk[w].old.rows[f]
    BY WalkTypes
  <2>3. Vouches(f, r) /\ Vouches(f, o)
    BY <2>1, <2>2 DEF Local
  <2>4. Vouches(f, r)' /\ Vouches(f, o)'
    BY <2>3, SaveFields, VouchesStay
  <2>5. Vouches(f, walk[w].rows[f])' /\ Vouches(f, walk[w].old.rows[f])'
    BY <2>2, <2>4, SaveFields DEF Vouches
  <2>6. Pair(walk[w].old.rows[f], walk[w].shas[f])'
    BY <2>1, SaveFields DEF Local, Pair
  <2>7. (walk[w].step[f] \in {"kept", "parsed"} => Pair(walk[w].rows[f], walk[w].sha[f]))'
    BY <1>1, <1>2, <2>1, SaveFields DEF Local, Pair
  <2>8. walk'[w].mtime[f] <= clock' /\ walk'[w].step[f] \in {"out", "kept", "parsed", "failed"}
    <3>1. walk'[w].mtime = walk[w].mtime /\ walk'[w].step = walk[w].step
      BY SaveFields
    <3>2. walk[w].mtime[f] \in Nat /\ walk[w].mtime[f] <= clock
      BY <2>1, WalkTypes DEF Local
    <3> QED BY <1>s, <2>1, <3>1, <3>2
  <2>9. (walk[w].lone => Sure(w, f))'
    BY <1>s, <2>1, SaveFields DEF Local, Sure, Mtime
  <2> QED BY <2>5, <2>6, <2>7, <2>8, <2>9 DEF Local
<1>6. ASSUME NEW v \in Walks, NEW f \in Files PROVE Local(v, f)'
  <2>1. CASE v # w
    <3>1. /\ walk'[v].at = walk[v].at /\ walk'[v].old.rows = walk[v].old.rows /\ walk'[v].shas = walk[v].shas
          /\ walk'[v].step = walk[v].step /\ walk'[v].mtime = walk[v].mtime
          /\ walk'[v].rows = walk[v].rows /\ walk'[v].sha = walk[v].sha /\ walk'[v].lone = FALSE
      BY <2>1, <1>o
    <3> QED BY <1>3, <1>s, <3>1, LocalKeeps
  <2> QED BY <1>5, <2>1
<1>7. \A v \in Walks : walk'[v].old.time <= clock' /\ (v # w => walk'[v].old.time # clock')
  <2>1. \A v \in Walks : walk[v].old.time \in Nat /\ walk[v].old.time <= clock
    BY DEF IInv, Types, Past, WalkSet
  <2>2. walk'[w].old.time = clock' /\ \A v \in Walks \ {w} : walk'[v].old = walk[v].old
    BY SaveFields, ZenonT(60)
  <2> QED BY <1>s, <2>1, <2>2
<1>8. \A v \in Walks : walk'[v].at = "saved" /\ walk'[v].old.time = clock' => Pairs(index.rows, walk[v].sha)'
  BY <1>4, <1>7 DEF Pairs
<1>9. \A v \in Walks : walk'[v].at = "walk" => ~walk'[v].lone
  <2>1. walk'[w].at = "saved"
    BY SaveFields
  <2> QED BY <1>o, <2>1
<1> QED BY <1>4, <1>6, <1>7, <1>8, <1>9, SaveFields, CommitInv

LEMMA NextIInv == ASSUME IInv, [Next]_vars PROVE IInv'
<1>1. ASSUME NEW f \in Files, Edit(f) PROVE IInv'
  BY <1>1, EditInv
<1>2. ASSUME NEW f \in Files, EditStat(f) PROVE IInv'
  BY <1>2, EditStatInv
<1>3. ASSUME NEW w \in Walks, NEW f \in Files, WalkStep(w, f) PROVE IInv'
  BY <1>3, DecideInv, HashInv, DrainInv, DrainCheckInv, ParseStatInv, ParseReadInv, ParseFailsInv DEF WalkStep
<1>4. CASE EditSave \/ OtherSave \/ OtherSnapshot
  BY <1>4, EditSaveInv, OtherSaveInv, OtherSnapshotInv
<1>5. ASSUME NEW w \in Walks, Begin(w) \/ Reject(w) \/ Save(w) \/ SaveSnapshot(w) \/ Crash(w) PROVE IInv'
  BY <1>5, BeginInv, RejectInv, SaveInv, SaveSnapshotInv
<1>6. CASE UNCHANGED vars
  <2>1. Types' /\ Past' /\ Paired' /\ \A f \in Files : Vouches(f, index.rows[f])'
    BY <1>6 DEF IInv, Types, Past, Paired, Pairs, At, Vouches, vars
  <2>3. \A w \in Walks : Calm(w)'
    BY <1>6 DEF IInv, Calm, At, vars
  <2>2. \A w \in Walks, f \in Files : Local(w, f)'
    BY <1>6, SameLocal DEF vars
  <2> QED BY <2>1, <2>2, <2>3 DEF IInv
<1> QED BY <1>1, <1>2, <1>3, <1>4, <1>5, <1>6 DEF Next

\* A row with the file's mtime describes the file: every later walk may skip it.
THEOREM RowsVouch == Spec => []RowVouches
<1>1. IInv => RowVouches
  BY DEF IInv, RowVouches, Vouches
<1> QED BY <1>1, InitIInv, NextIInv, PTL DEF Spec

\* A snapshot taken for the index's own has the hash of what each row was parsed from.
THEOREM SnapshotsPair == Spec => []SnapshotPairs
<1>1. IInv => SnapshotPairs
  BY DEF IInv, SnapshotPairs, Paired, Pairs, Pair
<1> QED BY <1>1, InitIInv, NextIInv, PTL DEF Spec

\* Only a save takes a walk to "saved".
LEMMA OnlySaved ==
  ASSUME IInv, Next, NEW w \in Walks, At(w, "walk"), walk'[w].at = "saved"
  PROVE  Save(w)
<1>0. \A v \in Walks : walk[v] \in WalkSet /\ walk \in [Walks -> WalkSet]
  BY DEF IInv, Types
<1>1. ASSUME NEW f \in Files, Edit(f) \/ EditStat(f) PROVE FALSE
  <2>1. Disturb \/ UNCHANGED walk
    BY <1>1 DEF Edit, EditStat
  <2> QED BY <2>1, Disturbed DEF At
<1>2. ASSUME NEW v \in Walks, NEW f \in Files, WalkStep(v, f) PROVE FALSE
  <2>1. SameStage
    BY <1>2, DecideInv, HashInv, DrainInv, DrainCheckInv, ParseStatInv, ParseReadInv, ParseFailsInv DEF WalkStep
  <2> QED BY <2>1 DEF SameStage, At
<1>3. CASE EditSave \/ OtherSave \/ OtherSnapshot
  <2>1. Disturb \/ UNCHANGED walk
    BY <1>3 DEF EditSave, OtherSave, OtherSnapshot
  <2> QED BY <2>1, Disturbed DEF At
<1>4. ASSUME NEW v \in Walks, Begin(v) PROVE FALSE
  <2>1. walk'[v].at = "walk" /\ \A u \in Walks \ {v} : walk'[u] = walk[u]
    BY <1>4, BeginFields
  <2> QED BY <2>1 DEF At
<1>5. ASSUME NEW v \in Walks, Reject(v) \/ SaveSnapshot(v) \/ Crash(v) PROVE FALSE
  <2>1. walk' = [walk EXCEPT ![v] = Idle] /\ Idle.at = "idle"
    BY <1>5 DEF Reject, SaveSnapshot, Crash, Idle
  <2> QED BY <1>0, <2>1 DEF At
<1>6. ASSUME NEW v \in Walks, Save(v) PROVE v = w
  <2>1. \A u \in Walks \ {v} : walk'[u].at = walk[u].at
    BY <1>6, SaveFields, ZenonT(60)
  <2> QED BY <2>1 DEF At
<1> QED BY <1>1, <1>2, <1>3, <1>4, <1>5, <1>6 DEF Next

LEMMA SaveIsRight ==
  ASSUME IInv, NEW w \in Walks, Save(w), walk[w].lone
  PROVE  Right(w)
<1>1. index = walk[w].old /\ index'.rows = Merge(w, walk[w].rows, walk[w].old.rows)
  BY SaveFields DEF IInv, Calm
<1>2. PICK r, o : r = walk[w].rows /\ o = walk[w].old.rows
  OBVIOUS
<1>3. index'.rows = Merge(w, r, o) /\ index.rows = o
  BY <1>1, <1>2
<1>4. ASSUME NEW f \in Files
      PROVE  IF f \in IF walk[w].capped THEN Walked(w) ELSE walk[w].scope
             THEN IF tree[f] = None THEN index'.rows[f] = None
                  ELSE index'.rows[f] # None /\ index'.rows[f].content = tree[f].content
             ELSE index'.rows[f] = index.rows[f]
  <2>1. Sure(w, f) /\ walk[w].step[f] \in {"out", "kept", "parsed"}
    <3>1. Sure(w, f)
      BY DEF IInv, Local
    <3>2. walk[w].step[f] \in {"out", "kept", "parsed", "failed"}
      BY SaveFields
    <3> QED BY <3>1, <3>2 DEF Sure
  <2>2. CASE f \in Walked(w)
    <3>1. walk[w].step[f] \in {"kept", "parsed"} /\ index'.rows[f] = r[f]
      BY <1>3, <2>2, MergeFacts
    <3>2. tree[f] # None /\ f \in walk[w].scope /\ r[f] # None /\ r[f].content = tree[f].content
      BY <1>2, <2>1, <3>1 DEF Sure
    <3> QED BY <2>2, <3>1, <3>2
  <2>3. CASE f \notin Walked(w)
    <3>1. walk[w].step[f] = "out"
      BY <2>1, <2>3, MergeFacts
    <3>2. index'.rows[f] = IF f \in Preserved(w) THEN o[f] ELSE None
      BY <1>3, <2>3 DEF Merge
    <3>3. f \in Preserved(w) <=> o[f] # None /\ (walk[w].capped \/ f \notin walk[w].scope)
      BY <1>2, <2>3 DEF Preserved, Known
    <3>4. CASE walk[w].capped
      BY <1>3, <2>3, <3>2, <3>3, <3>4
    <3>5. CASE ~walk[w].capped /\ f \in walk[w].scope
      BY <2>1, <3>1, <3>2, <3>3, <3>5 DEF Sure
    <3>6. CASE ~walk[w].capped /\ f \notin walk[w].scope
      BY <1>3, <3>2, <3>3, <3>6
    <3> QED BY <3>4, <3>5, <3>6
  <2> QED BY <2>2, <2>3
<1> QED BY <1>4 DEF Right

\* A walk nobody disturbed and that failed nowhere stores the files of its scope as they
\* are and keeps every other row.
THEOREM WalksAreRight == Spec => WalkIsRight
<1>1. ASSUME IInv, Next, NEW w \in Walks, At(w, "walk"), walk'[w].at = "saved", walk[w].lone
      PROVE  Right(w)
  BY <1>1, OnlySaved, SaveIsRight
<1>2. IInv /\ [Next]_vars =>
        [\A w \in Walks : At(w, "walk") /\ walk'[w].at = "saved" /\ walk[w].lone => Right(w)]_vars
  BY <1>1
<1> QED BY <1>2, InitIInv, NextIInv, PTL DEF Spec, WalkIsRight

-----------------------------------------------------------------------------
(* One file: index_file, the hook and the watcher *)

FilePlaces == {"idle", "stat", "hash", "lookup", "statAgain", "read", "save", "failed", "remove"}
MapEntry == [mtime : Nat, hash : Nat]
FileRow == [mtime : Nat, content : Nat]
FileCall == [kind : {"tool", "hook", "watch"}, at : FilePlaces, known : MapEntry \cup {Absent},
             st : Nat, hash : Nat \cup {Absent}, mtime : Nat, content : Nat, since : Nat, alone : BOOLEAN]

FileTypes ==
    /\ edits \in Nat /\ disk \in [mtime : Nat, content : Nat \cup {Absent}]
    /\ row \in FileRow \cup {Absent} /\ mem \in MapEntry \cup {Absent}
    /\ call \in [Calls -> FileCall]

InUse(c) == call[c].at # "idle"
Apart == Absent \notin Nat \cup FileRow

\* One call goes on, or is over.
FileMoves(c, r) == r \in FileCall /\ call' \in [Calls -> FileCall] /\ call'[c] = r /\ \A d \in Calls \ {c} : call'[d] = call[d]

LEMMA FileGo ==
    ASSUME FileTypes, NEW c \in Calls, NEW a \in FilePlaces, File!Go(c, a)
    PROVE  \E r \in FileCall :
             /\ FileMoves(c, r) /\ r.at = a /\ r.kind = call[c].kind /\ r.known = call[c].known /\ r.st = call[c].st
             /\ r.hash = call[c].hash /\ r.mtime = call[c].mtime /\ r.content = call[c].content
             /\ r.since = call[c].since /\ r.alone = call[c].alone
<1>1. PICK r : r = [call[c] EXCEPT !.at = a]
  OBVIOUS
<1>2. r \in FileCall
  BY <1>1 DEF FileTypes, FileCall
<1>3. call' = [call EXCEPT ![c] = r]
  BY <1>1 DEF File!Go
<1>4. FileMoves(c, r)
  BY <1>2, <1>3 DEF FileMoves, FileTypes
<1> QED BY <1>1, <1>2, <1>4 DEF FileTypes, FileCall

LEMMA FileIdle == File!NoCall \in FileCall /\ File!NoCall.at = "idle" /\ File!NoCall.since = 0
                  /\ File!NoCall.known = Absent /\ File!NoCall.kind = "tool"
  BY DEF File!NoCall, FileCall, FilePlaces

LEMMA FileEnd ==
    ASSUME FileTypes, NEW c \in Calls, File!End(c) PROVE FileMoves(c, File!NoCall)
  BY FileIdle DEF File!End, FileMoves, FileTypes

-----------------------------------------------------------------------------
(* What each step does to its call *)

SameCall(r, s) == r.kind = s.kind /\ r.since = s.since /\ r.alone = s.alone

LEMMA StatDoes ==
    ASSUME FileTypes, NEW c \in Calls, File!Stat(c)
    PROVE  /\ call[c].at = "stat" /\ UNCHANGED <<disk, edits, row, mem>>
           /\ \/ /\ OnDisk /\ FileMoves(c, File!NoCall)
                 /\ mem # Absent /\ mem.mtime = disk.mtime
              \/ \E r \in FileCall :
                   /\ FileMoves(c, r) /\ SameCall(r, call[c])
                   /\ \/ ~OnDisk /\ r.at = "remove" /\ r.known = call[c].known
                      \/ /\ OnDisk /\ r.at = "hash" /\ r.st = disk.mtime
                         /\ r.known = IF r.kind = "tool" THEN mem ELSE Absent
<1>1. call[c].at = "stat" /\ UNCHANGED <<disk, edits, row, mem>>
  BY DEF File!Stat, File!At
<1>2. CASE ~OnDisk
  <2>1. File!Go(c, "remove")
    BY <1>2 DEF File!Stat, File!OnDisk, OnDisk
  <2>2. "remove" \in FilePlaces
    BY DEF FilePlaces
  <2> QED BY <1>1, <1>2, <2>1, <2>2, FileGo DEF SameCall
<1>3. CASE OnDisk
  <2>1. PICK known \in MapEntry \cup {Absent} : known = IF call[c].kind = "tool" THEN mem ELSE Absent
    BY DEF FileTypes
  <2>2. CASE known # Absent /\ known.mtime = disk.mtime
    <3>1. File!End(c)
      BY <1>3, <2>1, <2>2 DEF File!Stat, File!OnDisk, OnDisk, File!Remembers
    <3> QED BY <1>1, <1>3, <2>1, <2>2, <3>1, FileEnd
  <2>3. CASE ~(known # Absent /\ known.mtime = disk.mtime)
    <3>1. call' = [call EXCEPT ![c].at = "hash", ![c].st = disk.mtime, ![c].known = known]
      BY <1>3, <2>1, <2>3 DEF File!Stat, File!OnDisk, OnDisk, File!Remembers
    <3>2. PICK r : r = [call[c] EXCEPT !.at = "hash", !.st = disk.mtime, !.known = known]
      OBVIOUS
    <3>3. r \in FileCall
      BY <2>1, <3>2, ZenonT(60) DEF FileTypes, FileCall, FilePlaces
    <3>4. FileMoves(c, r)
      BY <3>1, <3>2, <3>3 DEF FileMoves, FileTypes
    <3>5. r.at = "hash" /\ r.st = disk.mtime /\ r.known = known /\ SameCall(r, call[c])
      BY <3>2 DEF FileTypes, FileCall, SameCall
    <3> QED BY <1>1, <1>3, <2>1, <3>3, <3>4, <3>5 DEF SameCall
  <2> QED BY <2>2, <2>3
<1> QED BY <1>2, <1>3

LEMMA HashDoes ==
    ASSUME FileTypes, NEW c \in Calls, File!Hash(c)
    PROVE  /\ call[c].at = "hash" /\ UNCHANGED <<disk, edits, row>> /\ mem' \in MapEntry \cup {Absent}
           /\ \/ /\ FileMoves(c, File!NoCall)
                 /\ call[c].known # Absent /\ OnDisk /\ call[c].known.hash = disk.content
                 /\ \/ /\ mem # Absent /\ mem.hash = call[c].known.hash
                       /\ mem' # Absent => mem'.mtime = call[c].st /\ mem'.hash = mem.hash
                    \/ (mem # call[c].known \/ ~call[c].alone) /\ mem' = mem
              \/ \E r \in FileCall :
                   /\ FileMoves(c, r) /\ SameCall(r, call[c]) /\ mem' = mem
                   /\ r.hash = disk.content /\ r.st = call[c].st /\ r.known = call[c].known
                   /\ r.at = IF r.known = Absent THEN "lookup" ELSE "statAgain"
<1>1. call[c].at = "hash" /\ UNCHANGED <<disk, edits, row>>
  BY DEF File!Hash, File!At
<1>2. PICK known \in MapEntry \cup {Absent} : known = call[c].known
  BY DEF FileTypes, FileCall
<1>3. CASE known # Absent /\ OnDisk /\ known.hash = disk.content
  <2>1. File!End(c)
    BY <1>2, <1>3 DEF File!Hash, File!OnDisk, OnDisk
  <2>2. CASE mem # Absent /\ mem.hash = known.hash /\ mem' = [mem EXCEPT !.mtime = call[c].st]
    <3>1. mem \in MapEntry /\ call[c].st \in Nat
      BY <2>2 DEF FileTypes, FileCall
    <3>2. mem' \in MapEntry /\ mem'.mtime = call[c].st /\ mem'.hash = mem.hash
      BY <2>2, <3>1 DEF MapEntry
    <3> QED BY <1>1, <1>2, <1>3, <2>1, <2>2, <3>2, FileEnd
  <2>3. CASE (mem # known \/ ~call[c].alone) /\ mem' = mem
    BY <1>1, <1>2, <1>3, <2>1, <2>3, FileEnd DEF FileTypes
  <2> QED BY <1>2, <1>3, <2>2, <2>3 DEF File!Hash, File!OnDisk, OnDisk
<1>4. CASE ~(known # Absent /\ OnDisk /\ known.hash = disk.content)
  <2>1. PICK a \in {"lookup", "statAgain"} : a = IF known = Absent THEN "lookup" ELSE "statAgain"
    OBVIOUS
  <2>2. call' = [call EXCEPT ![c].hash = disk.content, ![c].at = a] /\ mem' = mem
    BY <1>2, <1>4, <2>1 DEF File!Hash, File!OnDisk, OnDisk
  <2>3. PICK r : r = [call[c] EXCEPT !.hash = disk.content, !.at = a]
    OBVIOUS
  <2>4. r \in FileCall
    BY <2>1, <2>3, ZenonT(60) DEF FileTypes, FileCall, FilePlaces
  <2>5. FileMoves(c, r)
    BY <2>2, <2>3, <2>4 DEF FileMoves, FileTypes
  <2>6. r.hash = disk.content /\ r.at = a /\ r.st = call[c].st /\ r.known = call[c].known /\ SameCall(r, call[c])
    BY <2>3 DEF FileTypes, FileCall, SameCall
  <2> QED BY <1>1, <1>2, <2>1, <2>2, <2>4, <2>5, <2>6 DEF FileTypes
<1> QED BY <1>3, <1>4

\* The map's entry is of the call that had a hash.
LEMMA RememberDoes ==
    ASSUME FileTypes, NEW c \in Calls, File!Remember(c)
    PROVE  /\ mem' \in MapEntry \cup {Absent}
           /\ \/ mem' = mem /\ (call[c].kind # "tool" \/ call[c].hash = Absent)
              \/ /\ call[c].kind = "tool" /\ call[c].hash # Absent
                 /\ mem'.mtime = call[c].st /\ mem'.hash = call[c].hash
<1>1. CASE call[c].kind = "tool" /\ call[c].hash # Absent
  <2>1. mem' = [mtime |-> call[c].st, hash |-> call[c].hash]
    BY <1>1 DEF File!Remember, File!Remembers
  <2>2. call[c].st \in Nat /\ call[c].hash \in Nat
    BY <1>1 DEF FileTypes, FileCall
  <2> QED BY <1>1, <2>1, <2>2 DEF MapEntry
<1>2. CASE ~(call[c].kind = "tool" /\ call[c].hash # Absent)
  BY <1>2 DEF File!Remember, File!Remembers, FileTypes
<1> QED BY <1>1, <1>2

LEMMA LookupDoes ==
    ASSUME FileTypes, NEW c \in Calls, File!Lookup(c)
    PROVE  /\ call[c].at = "lookup" /\ UNCHANGED <<disk, edits, row>>
           /\ \/ FileMoves(c, File!NoCall) /\ row # Absent /\ row.mtime = call[c].st /\ File!Remember(c)
              \/ \E r \in FileCall :
                   /\ FileMoves(c, r) /\ SameCall(r, call[c]) /\ mem' = mem
                   /\ r.at = "statAgain" /\ r.hash = call[c].hash /\ r.st = call[c].st /\ r.known = call[c].known
<1>1. call[c].at = "lookup" /\ UNCHANGED <<disk, edits, row>>
  BY DEF File!Lookup, File!At
<1>2. CASE row # Absent /\ row.mtime = call[c].st
  BY <1>1, <1>2, FileEnd DEF File!Lookup
<1>3. CASE ~(row # Absent /\ row.mtime = call[c].st)
  <2>1. File!Go(c, "statAgain") /\ mem' = mem
    BY <1>3 DEF File!Lookup
  <2>2. "statAgain" \in FilePlaces
    BY DEF FilePlaces
  <2> QED BY <1>1, <2>1, <2>2, FileGo DEF SameCall
<1> QED BY <1>2, <1>3

\* The mtime first, then the content.
LEMMA ReadsDo ==
    ASSUME FileTypes, NEW c \in Calls, File!StatAgain(c) \/ File!ReadAgain(c)
    PROVE  /\ UNCHANGED <<disk, edits, row, mem>>
           /\ \E r \in FileCall :
                /\ FileMoves(c, r) /\ SameCall(r, call[c]) /\ r.hash = call[c].hash /\ r.st = call[c].st
                /\ r.known = call[c].known
                /\ \/ ~OnDisk /\ r.at = "failed" /\ call[c].at # "idle"
                   \/ OnDisk /\ call[c].at = "statAgain" /\ r.at = "read" /\ r.mtime = disk.mtime
                   \/ /\ OnDisk /\ call[c].at = "read" /\ r.at = "save"
                      /\ r.mtime = call[c].mtime /\ r.content = disk.content
<1>1. UNCHANGED <<disk, edits, row, mem>> /\ File!ParseReads[1] = "mtime" /\ File!ParseReads[2] = "content"
  BY DEF File!StatAgain, File!ReadAgain, File!ParseReads
<1>2. CASE ~OnDisk
  <2>1. File!Go(c, "failed") /\ call[c].at # "idle"
    BY <1>2 DEF File!StatAgain, File!ReadAgain, File!Reading, File!OnDisk, OnDisk, File!At
  <2>2. "failed" \in FilePlaces
    BY DEF FilePlaces
  <2> QED BY <1>1, <1>2, <2>1, <2>2, FileGo DEF SameCall
<1>3. CASE OnDisk /\ File!StatAgain(c)
  <2>1. call[c].at = "statAgain" /\ call' = [call EXCEPT ![c].at = "read", ![c].mtime = disk.mtime, ![c].content = @]
    BY <1>1, <1>3 DEF File!StatAgain, File!Reading, File!OnDisk, OnDisk, File!At
  <2>2. PICK r : r = [call[c] EXCEPT !.at = "read", !.mtime = disk.mtime, !.content = @]
    OBVIOUS
  <2>3. r \in FileCall
    BY <2>2, ZenonT(60) DEF FileTypes, FileCall, FilePlaces
  <2>4. FileMoves(c, r)
    BY <2>1, <2>2, <2>3 DEF FileMoves, FileTypes
  <2>5. r.hash = call[c].hash /\ r.at = "read" /\ r.st = call[c].st /\ r.mtime = disk.mtime /\ SameCall(r, call[c])
      /\ r.known = call[c].known
    BY <2>2 DEF FileTypes, FileCall, SameCall
  <2> QED BY <1>1, <1>3, <2>1, <2>3, <2>4, <2>5
<1>4. CASE OnDisk /\ File!ReadAgain(c)
  <2>1. call[c].at = "read" /\ call' = [call EXCEPT ![c].at = "save", ![c].mtime = @, ![c].content = disk.content]
    BY <1>1, <1>4 DEF File!ReadAgain, File!Reading, File!OnDisk, OnDisk, File!At
  <2>2. PICK r : r = [call[c] EXCEPT !.at = "save", !.mtime = @, !.content = disk.content]
    OBVIOUS
  <2>3. disk.content \in Nat
    BY <1>4 DEF FileTypes, OnDisk
  <2>4. r \in FileCall
    BY <2>2, <2>3, ZenonT(60) DEF FileTypes, FileCall, FilePlaces
  <2>5. FileMoves(c, r)
    BY <2>1, <2>2, <2>4 DEF FileMoves, FileTypes
  <2>6. r.hash = call[c].hash /\ r.at = "save" /\ r.st = call[c].st /\ r.mtime = call[c].mtime
        /\ r.content = disk.content /\ SameCall(r, call[c]) /\ r.known = call[c].known
    BY <2>2 DEF FileTypes, FileCall, SameCall
  <2> QED BY <1>1, <1>4, <2>1, <2>4, <2>5, <2>6
<1> QED BY <1>2, <1>3, <1>4

LEMMA SaveDoes ==
    ASSUME FileTypes, NEW c \in Calls, File!Save(c)
    PROVE  /\ call[c].at = "save" /\ UNCHANGED <<disk, edits>> /\ FileMoves(c, File!NoCall) /\ File!Remember(c)
           /\ row' \in FileRow /\ row'.mtime = call[c].mtime /\ row'.content = call[c].content
<1>1. row' = [mtime |-> call[c].mtime, content |-> call[c].content]
  BY DEF File!Save
<1>2. call[c].mtime \in Nat /\ call[c].content \in Nat
  BY DEF FileTypes, FileCall
<1> QED BY <1>1, <1>2, FileEnd DEF File!Save, File!At, FileRow

LEMMA FailsDo ==
    ASSUME FileTypes, NEW c \in Calls, File!Fail(c) \/ File!GiveError(c)
    PROVE  /\ call[c].at \in {"save", "failed"} /\ UNCHANGED <<disk, edits, row, mem>>
           /\ \/ FileMoves(c, File!NoCall) /\ call[c].at = "failed"
              \/ \E r \in FileCall : FileMoves(c, r) /\ SameCall(r, call[c]) /\ r.at = "failed" /\ r.known = call[c].known
<1>1. "failed" \in FilePlaces
  BY DEF FilePlaces
<1> QED BY <1>1, FileGo, FileEnd DEF File!Fail, File!GiveError, File!At, SameCall

LEMMA RemoveDoes ==
    ASSUME FileTypes, NEW c \in Calls, File!Remove(c)
    PROVE  /\ call[c].at = "remove" /\ UNCHANGED <<disk, edits>> /\ FileMoves(c, File!NoCall)
           /\ row' = Absent /\ mem' = IF call[c].kind = "tool" THEN Absent ELSE mem
  BY FileEnd DEF File!Remove, File!At, File!Remembers

LEMMA EditDoes ==
    ASSUME FileTypes, Apart, File!Edit
    PROVE  /\ UNCHANGED <<row, mem, call>> /\ edits' = edits + 1 /\ FileTypes'
           /\ disk'.mtime = edits' \/ (disk'.mtime = disk.mtime /\ File!SameTick \in Admitted)
           /\ disk'.content \in {edits', Absent} \/ File!Revert \in Admitted
           /\ File!TornSeed \in Admitted \/ \A c \in Calls :
                ~(call[c].at = "hash" /\ call[c].kind = "tool" /\ call[c].known = Absent)
           /\ disk'.content # Absent \/ File!LostRead \in Admitted \/ \A c \in Calls : call[c].at # "hash"
<1>1. UNCHANGED <<row, mem, call>> /\ edits' = edits + 1 /\ edits' \in Nat
  BY DEF File!Edit, FileTypes
<1>2. PICK m \in {edits', disk.mtime}, new \in {edits', Absent} \cup 0 .. edits :
        /\ m = disk.mtime => File!SameTick \in Admitted
        /\ new \in 0 .. edits => File!Revert \in Admitted
        /\ new = Absent => File!LostRead \in Admitted \/ ~ \E c \in Calls : File!At(c, "hash")
        /\ disk' = [mtime |-> m, content |-> new]
  BY DEF File!Edit
<1>3. m \in Nat /\ new \in Nat \cup {Absent}
  BY <1>1, <1>2 DEF FileTypes
<1>4. disk'.mtime = m /\ disk'.content = new /\ FileTypes'
  BY <1>1, <1>2, <1>3 DEF FileTypes
<1>5. File!TornSeed \in Admitted \/ \A c \in Calls :
        ~(call[c].at = "hash" /\ call[c].kind = "tool" /\ call[c].known = Absent)
  BY DEF File!Edit, File!FirstRead, File!At, File!Remembers
<1> QED BY <1>1, <1>2, <1>4, <1>5 DEF File!At

\* A call begins, and none in flight is alone any more.
LEMMA BeginDoes ==
    ASSUME FileTypes, NEW c \in Calls, NEW k \in {"tool", "hook", "watch"}, File!Begin(c, k)
    PROVE  /\ call[c].at = "idle" /\ UNCHANGED <<disk, edits, row, mem>> /\ call' \in [Calls -> FileCall]
           /\ File!MixedOverlap \in Admitted \/ \A d \in Calls : InUse(d) => k = "tool" /\ call[d].kind = "tool"
           /\ call'[c].kind = k /\ call'[c].since = edits /\ call'[c].known = Absent /\ call'[c].hash = Absent
           /\ call'[c].alone => \A d \in Calls : ~InUse(d)
           /\ call'[c].at = IF k # "watch" THEN "stat" ELSE IF OnDisk THEN "statAgain" ELSE "remove"
           /\ \A d \in Calls \ {c} :
                /\ call'[d].kind = call[d].kind /\ call'[d].at = call[d].at /\ call'[d].known = call[d].known
                /\ call'[d].st = call[d].st /\ call'[d].hash = call[d].hash /\ call'[d].mtime = call[d].mtime
                /\ call'[d].content = call[d].content /\ call'[d].since = call[d].since
                /\ InUse(d) => ~call'[d].alone
<1>1. call[c].at = "idle" /\ UNCHANGED <<disk, edits, row, mem>>
  BY DEF File!Begin, File!At
<1>2. PICK a \in {"stat", "statAgain", "remove"} :
        a = IF k # "watch" THEN "stat" ELSE IF OnDisk THEN "statAgain" ELSE "remove"
  OBVIOUS
<1>3. PICK b \in BOOLEAN : b = (File!InFlight = {})
  OBVIOUS
<1>4. PICK r : r = [File!NoCall EXCEPT !.kind = k, !.since = edits, !.alone = b, !.at = a]
  OBVIOUS
<1>5. r \in FileCall /\ r.kind = k /\ r.since = edits /\ r.alone = b /\ r.at = a /\ r.known = Absent /\ r.hash = Absent
  BY <1>4 DEF File!NoCall, FileCall, FilePlaces, FileTypes
<1>6. call' = [d \in Calls |-> IF d = c THEN r
                               ELSE [call[d] EXCEPT !.alone = @ /\ call[d].at = "idle"]]
  BY <1>2, <1>3, <1>4 DEF File!Begin, File!At, File!OnDisk, OnDisk
<1>7. call'[c] = r
  BY <1>6
<1>8. ASSUME NEW d \in Calls \ {c}
      PROVE  /\ call'[d] \in FileCall
             /\ call'[d].kind = call[d].kind /\ call'[d].at = call[d].at /\ call'[d].known = call[d].known
             /\ call'[d].st = call[d].st /\ call'[d].hash = call[d].hash /\ call'[d].mtime = call[d].mtime
             /\ call'[d].content = call[d].content /\ call'[d].since = call[d].since
             /\ InUse(d) => ~call'[d].alone
  <2>1. PICK e \in BOOLEAN : e = (call[d].alone /\ call[d].at = "idle")
    OBVIOUS
  <2>2. call'[d] = [call[d] EXCEPT !.alone = e]
    BY <1>6, <2>1
  <2>3. call[d] \in FileCall
    BY DEF FileTypes
  <2>4. call'[d] \in FileCall /\ call'[d].alone = e
    BY <2>2, <2>3 DEF FileCall
  <2>5. InUse(d) => ~e
    BY <2>1 DEF InUse
  <2> QED BY <2>2, <2>3, <2>4, <2>5 DEF FileCall
<1>9. call' \in [Calls -> FileCall]
  BY <1>5, <1>6, <1>7, <1>8
<1>10. b => \A d \in Calls : ~InUse(d)
  BY <1>3 DEF File!InFlight, InUse
<1>11. File!MixedOverlap \in Admitted \/ \A d \in Calls : InUse(d) => k = "tool" /\ call[d].kind = "tool"
  BY DEF File!Begin, File!InFlight, InUse
<1> QED BY <1>1, <1>2, <1>5, <1>7, <1>8, <1>9, <1>10, <1>11

-----------------------------------------------------------------------------
(* A row is never ahead of its content *)

AheadCall(r) ==
    /\ r.at = "read" => r.mtime <= edits /\ (OnDisk => r.mtime <= disk.content)
    /\ r.at = "save" => r.mtime <= r.content
AheadInv ==
    /\ FileTypes /\ disk.mtime <= edits /\ (OnDisk => disk.mtime <= disk.content)
    /\ \A c \in Calls : AheadCall(call[c])
    /\ RowIsNotAhead

LEMMA AheadMoves ==
    ASSUME AheadInv, NEW c \in Calls, NEW r \in FileCall, FileMoves(c, r), AheadCall(r), UNCHANGED <<disk, edits>>,
           mem' \in MapEntry \cup {Absent}, row' \in FileRow \cup {Absent}, RowIsNotAhead'
    PROVE  AheadInv'
<1>1. FileTypes' /\ disk'.mtime <= edits' /\ (OnDisk' => disk'.mtime <= disk'.content)
  BY DEF AheadInv, FileTypes, FileMoves, OnDisk
<1>2. \A d \in Calls : AheadCall(call[d])'
  BY DEF AheadInv, AheadCall, FileMoves, OnDisk
<1> QED BY <1>1, <1>2 DEF AheadInv

LEMMA AheadNext == ASSUME AheadInv, Apart, File!Revert \notin Admitted, [File!Next]_file PROVE AheadInv'
<1>0. FileTypes /\ RowIsNotAhead /\ edits \in Nat /\ disk.mtime \in Nat /\ row \in FileRow \cup {Absent}
      /\ mem \in MapEntry \cup {Absent}
  BY DEF AheadInv, FileTypes
<1>1. CASE UNCHANGED file
  BY <1>1 DEF file, AheadInv, FileTypes, AheadCall, RowIsNotAhead, OnDisk
<1>2. CASE File!Edit
  <2>1. /\ UNCHANGED <<row, mem, call>> /\ edits' = edits + 1 /\ FileTypes'
        /\ disk'.mtime = edits' \/ disk'.mtime = disk.mtime
        /\ disk'.content \in {edits', Absent}
    BY <1>0, <1>2, EditDoes
  <2>2. disk'.mtime <= edits' /\ (OnDisk' => disk'.mtime <= disk'.content)
    BY <1>0, <2>1 DEF AheadInv, OnDisk
  <2>3. ASSUME NEW c \in Calls PROVE AheadCall(call[c])'
    <3>1. call[c] \in FileCall /\ AheadCall(call[c])
      BY <1>0 DEF AheadInv, FileTypes
    <3> QED BY <1>0, <2>1, <3>1 DEF AheadCall, FileCall, OnDisk
  <2> QED BY <1>0, <2>1, <2>2, <2>3 DEF AheadInv, RowIsNotAhead
<1>3. ASSUME NEW c \in Calls, NEW k \in File!Kinds, File!Begin(c, k) PROVE AheadInv'
  <2>1. k \in {"tool", "hook", "watch"}
    BY DEF File!Kinds
  <2>2. /\ UNCHANGED <<disk, edits, row, mem>> /\ call' \in [Calls -> FileCall]
        /\ call'[c].at \notin {"read", "save"}
        /\ \A d \in Calls \ {c} : /\ call'[d].at = call[d].at /\ call'[d].mtime = call[d].mtime
                                  /\ call'[d].content = call[d].content
    BY <1>0, <1>3, <2>1, BeginDoes
  <2>3. \A d \in Calls : AheadCall(call[d])'
    BY <2>2 DEF AheadInv, AheadCall, OnDisk
  <2> QED BY <2>2, <2>3 DEF AheadInv, FileTypes, OnDisk, RowIsNotAhead
<1>4. ASSUME NEW c \in Calls, File!Continue(c) PROVE AheadInv'
  <2>0. call[c] \in FileCall /\ AheadCall(call[c]) /\ AheadCall(File!NoCall)
    BY <1>0, FileIdle DEF AheadInv, FileTypes, AheadCall
  <2>1. CASE File!Stat(c) \/ File!Fail(c) \/ File!GiveError(c)
    <3>1. UNCHANGED <<disk, edits, row, mem>>
      BY <1>0, <2>1, StatDoes, FailsDo
    <3>2. PICK r \in FileCall : FileMoves(c, r) /\ r.at \in {"idle", "remove", "hash", "failed"}
      BY <1>0, <2>1, StatDoes, FailsDo, FileIdle
    <3>3. AheadCall(r)
      BY <3>2 DEF AheadCall
    <3> QED BY <1>0, <3>1, <3>2, <3>3, AheadMoves DEF RowIsNotAhead
  <2>2. CASE File!Hash(c)
    <3>1. UNCHANGED <<disk, edits, row>> /\ mem' \in MapEntry \cup {Absent}
      BY <1>0, <2>2, HashDoes
    <3>2. PICK r \in FileCall : FileMoves(c, r) /\ r.at \in {"idle", "lookup", "statAgain"}
      BY <1>0, <2>2, HashDoes, FileIdle
    <3>3. AheadCall(r)
      BY <3>2 DEF AheadCall
    <3> QED BY <1>0, <3>1, <3>2, <3>3, AheadMoves DEF RowIsNotAhead
  <2>3. CASE File!Lookup(c)
    <3>1. UNCHANGED <<disk, edits, row>> /\ mem' \in MapEntry \cup {Absent}
      BY <1>0, <2>3, LookupDoes, RememberDoes
    <3>2. PICK r \in FileCall : FileMoves(c, r) /\ r.at \in {"idle", "statAgain"}
      BY <1>0, <2>3, LookupDoes, FileIdle
    <3>3. AheadCall(r)
      BY <3>2 DEF AheadCall
    <3> QED BY <1>0, <3>1, <3>2, <3>3, AheadMoves DEF RowIsNotAhead
  <2>4. CASE File!StatAgain(c) \/ File!ReadAgain(c)
    <3>1. UNCHANGED <<disk, edits, row, mem>>
      BY <1>0, <2>4, ReadsDo
    <3>2. PICK r \in FileCall :
            /\ FileMoves(c, r)
            /\ \/ r.at = "failed"
               \/ OnDisk /\ r.at = "read" /\ r.mtime = disk.mtime
               \/ OnDisk /\ call[c].at = "read" /\ r.at = "save" /\ r.mtime = call[c].mtime /\ r.content = disk.content
      BY <1>0, <2>4, ReadsDo
    <3>3. AheadCall(r)
      BY <2>0, <3>2 DEF AheadCall, AheadInv
    <3> QED BY <1>0, <3>1, <3>2, <3>3, AheadMoves DEF RowIsNotAhead
  <2>5. CASE File!Save(c)
    <3>1. UNCHANGED <<disk, edits>> /\ FileMoves(c, File!NoCall) /\ mem' \in MapEntry \cup {Absent}
          /\ row' \in FileRow /\ call[c].at = "save" /\ row'.mtime = call[c].mtime /\ row'.content = call[c].content
      BY <1>0, <2>5, SaveDoes, RememberDoes
    <3>2. RowIsNotAhead'
      BY <2>0, <3>1 DEF AheadCall, RowIsNotAhead
    <3> QED BY <2>0, <3>1, <3>2, AheadMoves, FileIdle
  <2>6. CASE File!Remove(c)
    <3>1. UNCHANGED <<disk, edits>> /\ FileMoves(c, File!NoCall) /\ mem' \in MapEntry \cup {Absent} /\ row' = Absent
      BY <1>0, <2>6, RemoveDoes
    <3>2. RowIsNotAhead'
      BY <3>1 DEF RowIsNotAhead
    <3> QED BY <2>0, <3>1, <3>2, AheadMoves, FileIdle
  <2> QED BY <1>4, <2>1, <2>2, <2>3, <2>4, <2>5, <2>6 DEF File!Continue
<1> QED BY <1>1, <1>2, <1>3, <1>4 DEF File!Next

LEMMA FileInit ==
    ASSUME File!Init
    PROVE  /\ FileTypes /\ disk.mtime = 0 /\ disk.content = 0 /\ edits = 0 /\ mem = Absent
           /\ row # Absent => row.mtime = 0 /\ row.content = 0
           /\ \A c \in Calls : call[c] = File!NoCall /\ call[c].at = "idle"
  BY FileIdle DEF File!Init, FileTypes, FileRow, MapEntry

\* parseOneFile reads the mtime before the content, so a row's mtime is never that of a
\* later edit than its content's: as long as no content comes back (Revert), whatever else
\* is admitted and however calls, hooks and handlers overlap.
THEOREM RowsAreNotAhead ==
    ASSUME Apart, File!Revert \notin Admitted PROVE File!Spec => []RowIsNotAhead
<1>1. File!Init => AheadInv
  BY FileInit DEF AheadInv, AheadCall, RowIsNotAhead
<1>2. AheadInv /\ [File!Next]_file => AheadInv'
  BY AheadNext
<1>3. AheadInv => RowIsNotAhead
  BY DEF AheadInv
<1> QED BY <1>1, <1>2, <1>3, PTL DEF File!Spec, File!file, file

-----------------------------------------------------------------------------
(* With nothing admitted: a call that ran alone leaves the row right, and   *)
(* the map never vouches for a row that is not                              *)

\* Two calls in flight are index_file's, and neither is alone.
Together ==
    \A c, d \in Calls : InUse(c) /\ InUse(d) /\ c # d =>
        call[c].kind = "tool" /\ call[d].kind = "tool" /\ ~call[c].alone
\* The row and the map entry are of edits up to now; an entry with the hash of what is on
\* disk comes with the row of what is on disk.
Kept ==
    /\ disk.mtime = edits /\ (OnDisk => disk.content = edits)
    /\ row # Absent => row.mtime <= row.content /\ row.content <= edits
    /\ mem # Absent => /\ mem.mtime <= mem.hash /\ mem.hash <= edits
                       /\ mem.hash = edits => OnDisk /\ row # Absent /\ row.content = edits
\* What a call has read is of some moment since it began, its second read is no older than
\* its hash, and nothing but index_file is about to change the row behind the map's back.
Hashing(r) ==
    /\ OnDisk /\ r.since <= r.st /\ r.st <= edits
    /\ r.kind = "tool" /\ r.known = Absent => r.st = edits
    /\ r.known # Absent /\ r.alone => r.known = mem
LookingUp(r) ==
    /\ r.hash # Absent /\ r.since <= r.st /\ r.st <= r.hash /\ r.hash <= edits
    /\ (r.kind = "tool" => r.hash = r.st) /\ (r.hash = edits => OnDisk)
Parsing(r) ==
    /\ r.kind = "tool" => r.hash # Absent
    /\ r.hash # Absent => r.st <= r.hash /\ r.hash <= edits /\ (r.hash = edits => OnDisk)
Saving(r) ==
    /\ r.mtime <= r.content /\ r.since <= r.content /\ r.content <= edits /\ (r.content = edits => OnDisk)
    /\ r.hash # Absent => r.hash <= r.content
    /\ r.kind # "tool" /\ mem # Absent => mem.hash <= r.content
Removing(r) ==
    /\ r.since = edits => ~OnDisk
    /\ r.kind # "tool" /\ mem # Absent => mem.hash < edits
Honest(r) ==
    /\ r.since <= edits /\ (r.kind # "tool" => r.known = Absent)
    /\ r.at = "hash" => Hashing(r)
    /\ r.at = "lookup" => LookingUp(r)
    /\ r.at \in {"statAgain", "read", "save"} => Parsing(r)
    /\ r.at = "read" => r.mtime <= edits
    /\ r.at = "save" => Saving(r)
    /\ r.at = "remove" => Removing(r)
FileInv == FileTypes /\ Together /\ Kept /\ \A c \in Calls : Honest(call[c])

LEMMA FileMoved ==
    ASSUME FileInv, NEW c \in Calls, NEW r \in FileCall, InUse(c), FileMoves(c, r), r = File!NoCall \/ SameCall(r, call[c]),
           UNCHANGED <<disk, edits>>, mem' = mem \/ call[c].kind = "tool",
           mem' \in MapEntry \cup {Absent}, row' \in FileRow \cup {Absent}, Kept', Honest(r)'
    PROVE  FileInv'
<1>1. FileTypes'
  BY DEF FileInv, FileTypes, FileMoves
<1>2. r.at = "idle" \/ SameCall(r, call[c])
  BY FileIdle
<1>3. Together'
  BY <1>2 DEF FileInv, Together, FileMoves, SameCall, InUse
<1>4. ASSUME NEW d \in Calls PROVE Honest(call[d])'
  <2>1. CASE d = c
    BY <2>1 DEF FileMoves
  <2>2. CASE d # c
    <3>1. call'[d] = call[d] /\ Honest(call[d])
      BY <2>2 DEF FileMoves, FileInv
    <3>2. InUse(d) => call[c].kind = "tool" /\ call[d].kind = "tool" /\ ~call[d].alone
      BY <2>2 DEF FileInv, Together
    <3>3. CASE InUse(d)
      BY <3>1, <3>2, <3>3 DEF Honest, Hashing, LookingUp, Parsing, Saving, Removing, OnDisk
    <3>4. CASE ~InUse(d)
      BY <3>1, <3>4 DEF Honest, InUse
    <3> QED BY <3>3, <3>4
  <2> QED BY <2>1, <2>2
<1> QED BY <1>1, <1>3, <1>4 DEF FileInv

LEMMA FileFacts ==
    ASSUME FileInv
    PROVE  /\ FileTypes /\ Kept /\ edits \in Nat /\ disk.mtime = edits /\ (OnDisk => disk.content = edits)
           /\ row \in FileRow \cup {Absent} /\ mem \in MapEntry \cup {Absent}
           /\ row # Absent => row.mtime \in Nat /\ row.content \in Nat
           /\ mem # Absent => mem.mtime \in Nat /\ mem.hash \in Nat
           /\ \A c \in Calls : call[c] \in FileCall /\ Honest(call[c]) /\ Honest(File!NoCall)
<1>1. FileTypes /\ Kept /\ edits \in Nat /\ disk.mtime = edits /\ (OnDisk => disk.content = edits)
      /\ row \in FileRow \cup {Absent} /\ mem \in MapEntry \cup {Absent}
  BY DEF FileInv, FileTypes, Kept
<1>2. \A c \in Calls : call[c] \in FileCall /\ Honest(call[c])
  BY DEF FileInv, FileTypes
<1>3. Honest(File!NoCall)
  BY <1>1, FileIdle DEF Honest
<1> QED BY <1>1, <1>2, <1>3 DEF FileRow, MapEntry

LEMMA FileInvStat == ASSUME FileInv, NEW c \in Calls, File!Stat(c) PROVE FileInv'
<1>0. FileTypes /\ Kept /\ edits \in Nat /\ call[c] \in FileCall /\ Honest(call[c]) /\ Honest(File!NoCall)
      /\ disk.mtime = edits
  BY FileFacts
<1>1. call[c].at = "stat" /\ UNCHANGED <<disk, edits, row, mem>> /\ InUse(c) /\ Kept'
      /\ mem \in MapEntry \cup {Absent} /\ row \in FileRow \cup {Absent}
  <2>1. call[c].at = "stat" /\ UNCHANGED <<disk, edits, row, mem>>
    BY <1>0, StatDoes
  <2> QED BY <2>1, FileFacts DEF Kept, OnDisk, InUse
<1>2. PICK r \in FileCall :
        /\ FileMoves(c, r)
        /\ \/ r = File!NoCall
           \/ SameCall(r, call[c]) /\ ~OnDisk /\ r.at = "remove" /\ r.known = call[c].known
           \/ /\ SameCall(r, call[c]) /\ OnDisk /\ r.at = "hash" /\ r.st = disk.mtime
              /\ r.known = IF r.kind = "tool" THEN mem ELSE Absent
  BY <1>0, StatDoes, FileIdle
<1>3. CASE r = File!NoCall
  <2>1. Honest(r)'
    BY <1>0, <1>1, <1>3, FileIdle DEF Honest
  <2> QED BY <1>1, <1>2, <1>3, <2>1, FileMoved
<1>4. CASE SameCall(r, call[c]) /\ ~OnDisk /\ r.at = "remove" /\ r.known = call[c].known
  <2>1. Removing(r)
    BY <1>0, <1>4, FileFacts DEF Removing, Kept
  <2>2. Honest(r)'
    BY <1>0, <1>1, <1>4, <2>1 DEF Honest, SameCall, Removing, OnDisk
  <2> QED BY <1>1, <1>2, <1>4, <2>2, FileMoved
<1>5. CASE /\ SameCall(r, call[c]) /\ OnDisk /\ r.at = "hash" /\ r.st = disk.mtime
           /\ r.known = IF r.kind = "tool" THEN mem ELSE Absent
  <2>1. Hashing(r)
    BY <1>0, <1>5 DEF Hashing, SameCall, Honest
  <2>2. Honest(r)'
    BY <1>0, <1>1, <1>5, <2>1 DEF Honest, SameCall, Hashing, OnDisk
  <2> QED BY <1>1, <1>2, <1>5, <2>2, FileMoved
<1> QED BY <1>2, <1>3, <1>4, <1>5

LEMMA FileInvHash == ASSUME FileInv, NEW c \in Calls, File!Hash(c) PROVE FileInv'
<1>0. FileTypes /\ Kept /\ edits \in Nat /\ call[c] \in FileCall /\ Honest(call[c]) /\ Honest(File!NoCall)
      /\ (OnDisk => disk.content = edits) /\ row \in FileRow \cup {Absent} /\ mem \in MapEntry \cup {Absent}
  BY FileFacts
<1>1. call[c].at = "hash" /\ InUse(c) /\ UNCHANGED <<disk, edits, row>> /\ mem' \in MapEntry \cup {Absent}
  BY <1>0, HashDoes DEF InUse
<1>2. Hashing(call[c])
  BY <1>0, <1>1 DEF Honest
<1>3. CASE /\ FileMoves(c, File!NoCall)
           /\ call[c].known # Absent /\ OnDisk /\ call[c].known.hash = disk.content
           /\ \/ /\ mem # Absent /\ mem.hash = call[c].known.hash
                 /\ mem' # Absent => mem'.mtime = call[c].st /\ mem'.hash = mem.hash
              \/ (mem # call[c].known \/ ~call[c].alone) /\ mem' = mem
  <2>1. call[c].kind = "tool"
    BY <1>0, <1>3 DEF Honest
  <2>2. Kept'
    BY <1>0, <1>1, <1>2, <1>3 DEF Kept, OnDisk, Hashing
  <2>3. Honest(File!NoCall)'
    BY <1>0, <1>1, FileIdle DEF Honest
  <2> QED BY <1>0, <1>1, <1>3, <2>1, <2>2, <2>3, FileMoved, FileIdle
<1>4. CASE \E r \in FileCall :
             /\ FileMoves(c, r) /\ SameCall(r, call[c]) /\ mem' = mem
             /\ r.hash = disk.content /\ r.st = call[c].st /\ r.known = call[c].known
             /\ r.at = IF r.known = Absent THEN "lookup" ELSE "statAgain"
  <2>1. PICK r \in FileCall :
             /\ FileMoves(c, r) /\ SameCall(r, call[c]) /\ mem' = mem
             /\ r.hash = disk.content /\ r.st = call[c].st /\ r.known = call[c].known
             /\ r.at = IF r.known = Absent THEN "lookup" ELSE "statAgain"
    BY <1>4
  <2>2. Kept'
    BY <1>0, <1>1, <2>1 DEF Kept, OnDisk
  <2>3. r.at = "lookup" => LookingUp(r)
    BY <1>0, <1>2, <2>1 DEF LookingUp, Hashing, SameCall, OnDisk, FileCall
  <2>4. r.at = "statAgain" => Parsing(r)
    BY <1>0, <1>2, <2>1 DEF Parsing, Hashing, SameCall, OnDisk, FileCall
  <2>5. Honest(r)'
    BY <1>0, <1>1, <2>1, <2>3, <2>4 DEF Honest, SameCall, LookingUp, Parsing, OnDisk
  <2> QED BY <1>0, <1>1, <2>1, <2>2, <2>5, FileMoved
<1> QED BY <1>0, <1>3, <1>4, HashDoes

LEMMA FileInvLookup == ASSUME FileInv, NEW c \in Calls, File!Lookup(c) PROVE FileInv'
<1>0. FileTypes /\ Kept /\ edits \in Nat /\ call[c] \in FileCall /\ Honest(call[c]) /\ Honest(File!NoCall)
      /\ row \in FileRow \cup {Absent} /\ mem \in MapEntry \cup {Absent}
      /\ (row # Absent => row.mtime \in Nat /\ row.content \in Nat)
  BY FileFacts
<1>1. call[c].at = "lookup" /\ InUse(c) /\ UNCHANGED <<disk, edits, row>>
  BY <1>0, LookupDoes DEF InUse
<1>2. LookingUp(call[c]) /\ call[c].hash \in Nat /\ call[c].st \in Nat
  BY <1>0, <1>1 DEF Honest, LookingUp, FileCall
<1>3. CASE FileMoves(c, File!NoCall) /\ row # Absent /\ row.mtime = call[c].st /\ File!Remember(c)
  <2>1. /\ mem' \in MapEntry \cup {Absent}
        /\ \/ mem' = mem
           \/ call[c].kind = "tool" /\ mem'.mtime = call[c].st /\ mem'.hash = call[c].hash
    BY <1>0, <1>3, RememberDoes
  <2>2. Kept'
    BY <1>0, <1>1, <1>2, <1>3, <2>1 DEF Kept, OnDisk, LookingUp
  <2>3. Honest(File!NoCall)'
    BY <1>0, <1>1, FileIdle DEF Honest
  <2> QED BY <1>0, <1>1, <1>3, <2>1, <2>2, <2>3, FileMoved, FileIdle
<1>4. CASE \E r \in FileCall :
             /\ FileMoves(c, r) /\ SameCall(r, call[c]) /\ mem' = mem
             /\ r.at = "statAgain" /\ r.hash = call[c].hash /\ r.st = call[c].st /\ r.known = call[c].known
  <2>1. PICK r \in FileCall :
             /\ FileMoves(c, r) /\ SameCall(r, call[c]) /\ mem' = mem
             /\ r.at = "statAgain" /\ r.hash = call[c].hash /\ r.st = call[c].st /\ r.known = call[c].known
    BY <1>4
  <2>2. Kept'
    BY <1>0, <1>1, <2>1 DEF Kept, OnDisk
  <2>3. Parsing(r)
    BY <1>2, <2>1 DEF Parsing, LookingUp
  <2>4. Honest(r)'
    BY <1>0, <1>1, <2>1, <2>3 DEF Honest, SameCall, Parsing, OnDisk
  <2> QED BY <1>0, <1>1, <2>1, <2>2, <2>4, FileMoved
<1> QED BY <1>0, <1>3, <1>4, LookupDoes

LEMMA FileInvReads == ASSUME FileInv, NEW c \in Calls, File!StatAgain(c) \/ File!ReadAgain(c) PROVE FileInv'
<1>0. FileTypes /\ Kept /\ edits \in Nat /\ call[c] \in FileCall /\ Honest(call[c])
      /\ disk.mtime = edits /\ (OnDisk => disk.content = edits)
      /\ row \in FileRow \cup {Absent} /\ mem \in MapEntry \cup {Absent} /\ (mem # Absent => mem.hash \in Nat)
  BY FileFacts
<1>1. PICK r \in FileCall :
        /\ UNCHANGED <<disk, edits, row, mem>>
        /\ FileMoves(c, r) /\ SameCall(r, call[c]) /\ r.hash = call[c].hash /\ r.st = call[c].st /\ r.known = call[c].known
        /\ \/ ~OnDisk /\ r.at = "failed" /\ call[c].at # "idle"
           \/ OnDisk /\ call[c].at = "statAgain" /\ r.at = "read" /\ r.mtime = disk.mtime
           \/ /\ OnDisk /\ call[c].at = "read" /\ r.at = "save"
              /\ r.mtime = call[c].mtime /\ r.content = disk.content
  BY <1>0, ReadsDo
<1>2. InUse(c) /\ Kept'
  BY <1>0, <1>1 DEF InUse, Kept, OnDisk
<1>3. r.at \in {"read", "save"} => Parsing(r)
  BY <1>0, <1>1 DEF Honest, Parsing, SameCall
<1>4. r.at = "read" => r.mtime <= edits
  BY <1>0, <1>1
<1>5. r.at = "save" => Saving(r)
  <2>1. r.at = "save" => r.mtime <= r.content /\ r.since <= r.content /\ r.content = edits /\ OnDisk
    BY <1>0, <1>1 DEF Honest, SameCall
  <2>2. mem # Absent => mem.hash <= edits
    BY <1>0 DEF Kept
  <2> QED BY <1>0, <1>1, <1>3, <2>1, <2>2 DEF Saving, Parsing
<1>6. Honest(r)'
  BY <1>0, <1>1, <1>3, <1>4, <1>5 DEF Honest, SameCall, Parsing, Saving, OnDisk
<1> QED BY <1>0, <1>1, <1>2, <1>6, FileMoved

LEMMA FileInvEnds ==
    ASSUME FileInv, Apart, NEW c \in Calls, File!Save(c) \/ File!Fail(c) \/ File!GiveError(c) \/ File!Remove(c) PROVE FileInv'
<1>0. FileTypes /\ Kept /\ edits \in Nat /\ call[c] \in FileCall /\ Honest(call[c]) /\ Honest(File!NoCall)
      /\ row \in FileRow \cup {Absent} /\ mem \in MapEntry \cup {Absent} /\ (mem # Absent => mem.hash \in Nat)
  BY FileFacts
<1>1. CASE File!Save(c)
  <2>1. /\ call[c].at = "save" /\ UNCHANGED <<disk, edits>> /\ FileMoves(c, File!NoCall) /\ InUse(c)
        /\ row' \in FileRow /\ row'.mtime = call[c].mtime /\ row'.content = call[c].content
        /\ mem' \in MapEntry \cup {Absent}
        /\ \/ mem' = mem /\ (call[c].kind # "tool" \/ call[c].hash = Absent)
           \/ /\ call[c].kind = "tool" /\ call[c].hash # Absent
              /\ mem'.mtime = call[c].st /\ mem'.hash = call[c].hash
    BY <1>0, <1>1, SaveDoes, RememberDoes DEF InUse
  <2>2. Saving(call[c]) /\ Parsing(call[c])
    BY <1>0, <2>1 DEF Honest
  <2>3. call[c].mtime \in Nat /\ call[c].content \in Nat /\ call[c].hash \in Nat \cup {Absent} /\ call[c].st \in Nat
    BY <1>0 DEF FileCall
  <2>4. row' # Absent => row'.mtime <= row'.content /\ row'.content <= edits
    BY <2>1, <2>2 DEF Saving
  <2>5. row' # Absent
    BY <2>1 DEF Apart
  <2>6. Kept'
    BY <1>0, <2>1, <2>2, <2>3, <2>4, <2>5 DEF Kept, OnDisk, Saving, Parsing
  <2>7. Honest(File!NoCall)'
    BY <1>0, <2>1, FileIdle DEF Honest
  <2> QED BY <2>1, <2>6, <2>7, FileMoved, FileIdle
<1>2. CASE File!Fail(c) \/ File!GiveError(c)
  <2>1. PICK r \in FileCall :
          /\ call[c].at \in {"save", "failed"} /\ UNCHANGED <<disk, edits, row, mem>>
          /\ FileMoves(c, r)
          /\ r = File!NoCall \/ (SameCall(r, call[c]) /\ r.at = "failed" /\ r.known = call[c].known)
    BY <1>0, <1>2, FailsDo, FileIdle
  <2>2. Kept' /\ InUse(c)
    BY <1>0, <2>1 DEF Kept, OnDisk, InUse
  <2>3. Honest(r)'
    BY <1>0, <2>1, FileIdle DEF Honest, SameCall
  <2> QED BY <1>0, <2>1, <2>2, <2>3, FileMoved
<1>3. CASE File!Remove(c)
  <2>1. /\ call[c].at = "remove" /\ UNCHANGED <<disk, edits>> /\ FileMoves(c, File!NoCall) /\ InUse(c)
        /\ row' = Absent /\ mem' = IF call[c].kind = "tool" THEN Absent ELSE mem
    BY <1>0, <1>3, RemoveDoes DEF InUse
  <2>2. Removing(call[c])
    BY <1>0, <2>1 DEF Honest
  <2>3. Kept'
    BY <1>0, <2>1, <2>2 DEF Kept, OnDisk, Removing
  <2>4. Honest(File!NoCall)'
    BY <1>0, <2>1, FileIdle DEF Honest
  <2> QED BY <1>0, <2>1, <2>3, <2>4, FileMoved, FileIdle
<1> QED BY <1>1, <1>2, <1>3

LEMMA FileInvEdit == ASSUME FileInv, Apart, Admitted = {}, File!Edit PROVE FileInv'
<1>0. FileTypes /\ Kept /\ edits \in Nat /\ (row # Absent => row.content \in Nat /\ row.mtime \in Nat)
      /\ (mem # Absent => mem.mtime \in Nat /\ mem.hash \in Nat)
  BY FileFacts
<1>1. /\ UNCHANGED <<row, mem, call>> /\ edits' = edits + 1 /\ FileTypes'
      /\ disk'.mtime = edits' /\ disk'.content \in {edits', Absent}
      /\ \A c \in Calls : ~(call[c].at = "hash" /\ call[c].kind = "tool" /\ call[c].known = Absent)
      /\ disk'.content # Absent \/ \A c \in Calls : call[c].at # "hash"
  BY <1>0, EditDoes
<1>2. Together'
  BY <1>1 DEF FileInv, Together, InUse
<1>3. Kept'
  BY <1>0, <1>1 DEF Kept, OnDisk
<1>4. ASSUME NEW c \in Calls PROVE Honest(call[c])'
  <2>1. Honest(call[c]) /\ call[c] \in FileCall
    BY FileFacts
  <2>2. PICK r \in FileCall : r = call[c]
    BY <2>1
  <2>3. /\ r.since \in Nat /\ r.st \in Nat /\ r.hash \in Nat \cup {Absent} /\ r.mtime \in Nat /\ r.content \in Nat
        /\ Honest(r) /\ ~(r.at = "hash" /\ r.kind = "tool" /\ r.known = Absent)
        /\ r.at = "hash" => OnDisk'
    BY <1>1, <2>1, <2>2 DEF FileCall, OnDisk
  <2>4. r.at = "hash" => Hashing(r)'
    BY <1>0, <1>1, <2>3 DEF Honest, Hashing
  <2>5. r.at = "lookup" => LookingUp(r)'
    BY <1>0, <1>1, <2>3 DEF Honest, LookingUp
  <2>6. r.at \in {"statAgain", "read", "save"} => Parsing(r)'
    BY <1>0, <1>1, <2>3 DEF Honest, Parsing
  <2>7. r.at = "save" => Saving(r)'
    BY <1>0, <1>1, <2>3 DEF Honest, Saving
  <2>8. r.at = "remove" => Removing(r)'
    BY <1>0, <1>1, <2>3 DEF Honest, Removing
  <2>9. r.since <= edits' /\ (r.at = "read" => r.mtime <= edits')
    BY <1>0, <1>1, <2>3 DEF Honest
  <2>10. Honest(r)'
    BY <1>1, <2>3, <2>4, <2>5, <2>6, <2>7, <2>8, <2>9 DEF Honest
  <2> QED BY <1>1, <2>2, <2>10
<1> QED BY <1>1, <1>2, <1>3, <1>4 DEF FileInv

LEMMA FileInvBegin ==
    ASSUME FileInv, Admitted = {}, NEW c \in Calls, NEW k \in {"tool", "hook", "watch"}, File!Begin(c, k) PROVE FileInv'
<1>0. FileTypes /\ Kept /\ edits \in Nat
  BY FileFacts
<1>1. /\ call[c].at = "idle" /\ UNCHANGED <<disk, edits, row, mem>> /\ call' \in [Calls -> FileCall]
      /\ \A d \in Calls : InUse(d) => k = "tool" /\ call[d].kind = "tool"
      /\ call'[c].kind = k /\ call'[c].since = edits /\ call'[c].known = Absent /\ call'[c].hash = Absent
      /\ call'[c].alone => \A d \in Calls : ~InUse(d)
      /\ call'[c].at = IF k # "watch" THEN "stat" ELSE IF OnDisk THEN "statAgain" ELSE "remove"
  BY <1>0, BeginDoes
<1>2. \A d \in Calls \ {c} :
        /\ call'[d].kind = call[d].kind /\ call'[d].at = call[d].at /\ call'[d].known = call[d].known
        /\ call'[d].st = call[d].st /\ call'[d].hash = call[d].hash /\ call'[d].mtime = call[d].mtime
        /\ call'[d].content = call[d].content /\ call'[d].since = call[d].since
        /\ InUse(d) => ~call'[d].alone
  BY <1>0, BeginDoes
<1>3. FileTypes' /\ Kept'
  BY <1>0, <1>1 DEF FileTypes, Kept, OnDisk
<1>4. Together'
  BY <1>1, <1>2 DEF FileInv, Together, InUse
<1>5. ASSUME NEW d \in Calls \ {c} PROVE Honest(call[d])'
  <2>1. Honest(call[d])
    BY FileFacts
  <2>2. CASE InUse(d)
    BY <1>1, <1>2, <2>1, <2>2 DEF Honest, Hashing, LookingUp, Parsing, Saving, Removing, OnDisk
  <2>3. CASE ~InUse(d)
    BY <1>1, <1>2, <2>1, <2>3 DEF Honest, InUse
  <2> QED BY <2>2, <2>3
<1>6. Honest(call[c])'
  <2>1. k = "watch" /\ ~OnDisk => Removing(call[c])'
    BY <1>0, <1>1, FileFacts DEF Removing, OnDisk, Kept
  <2>2. k = "watch" => Parsing(call[c])'
    BY <1>1 DEF Parsing
  <2> QED BY <1>0, <1>1, <2>1, <2>2 DEF Honest
<1> QED BY <1>3, <1>4, <1>5, <1>6 DEF FileInv

LEMMA FileInvStep == ASSUME FileInv, Apart, Admitted = {}, [File!Next]_file PROVE FileInv'
<1>1. CASE UNCHANGED file
  <2>1. UNCHANGED <<disk, edits, row, mem, call>>
    BY <1>1 DEF file
  <2>2. FileTypes' /\ Together' /\ Kept'
    BY <2>1 DEF FileInv, FileTypes, Together, Kept, InUse, OnDisk
  <2>3. \A c \in Calls : Honest(call[c])'
    BY <2>1 DEF FileInv, Honest, Hashing, LookingUp, Parsing, Saving, Removing, OnDisk
  <2> QED BY <2>2, <2>3 DEF FileInv
<1>2. ASSUME NEW c \in Calls, NEW k \in File!Kinds, File!Begin(c, k) PROVE FileInv'
  BY <1>2, FileInvBegin DEF File!Kinds
<1>3. ASSUME NEW c \in Calls, File!Continue(c) PROVE FileInv'
  BY <1>3, FileInvStat, FileInvHash, FileInvLookup, FileInvReads, FileInvEnds DEF File!Continue
<1> QED BY <1>1, <1>2, <1>3, FileInvEdit DEF File!Next

LEMMA FileInvInit == File!Init => FileInv
<1> SUFFICES ASSUME File!Init PROVE FileInv
  OBVIOUS
<1>1. /\ FileTypes /\ disk.mtime = 0 /\ disk.content = 0 /\ edits = 0 /\ mem = Absent
      /\ row # Absent => row.mtime = 0 /\ row.content = 0
      /\ \A c \in Calls : call[c] = File!NoCall /\ call[c].at = "idle"
  BY FileInit
<1>2. Together /\ Kept
  BY <1>1 DEF Together, Kept, InUse, OnDisk
<1>3. Honest(File!NoCall)
  BY <1>1, FileIdle DEF Honest
<1>4. \A c \in Calls : Honest(call[c])
  BY <1>1, <1>3
<1> QED BY <1>1, <1>2, <1>4 DEF FileInv

\* lastIndexedState holds the mtime a file had when it was hashed.  With nothing in flight,
\* an entry with the mtime the file has now never stands beside a row of something else, or
\* of nothing: indexFile would skip the file for good.
THEOREM MapVouchesForTheRow ==
    ASSUME Apart, Admitted = {} PROVE File!Spec => []MemVouchesForRow
<1>1. FileInv /\ [File!Next]_file => FileInv'
  BY FileInvStep
<1>2. FileInv => MemVouchesForRow
  BY FileFacts DEF Kept, MemVouchesForRow, Current
<1> QED BY <1>1, <1>2, FileInvInit, PTL DEF File!Spec, File!file, file

\* What index_file owes its caller: a call that ran alone, while nobody edited, ends with
\* the row of what is on disk, whichever of its three skips it took.
THEOREM AloneCallsIndex ==
    ASSUME Apart, Admitted = {} PROVE File!Spec => AloneCallIndexes
<1>1. ASSUME FileInv, File!Next, NEW c \in Calls, call[c].at \notin {"idle", "failed"}, call'[c].at = "idle",
             call[c].alone, call[c].since = edits
      PROVE  Current(row')
  <2>0. FileTypes /\ Kept /\ edits \in Nat /\ call[c] \in FileCall /\ Honest(call[c]) /\ (OnDisk => disk.content = edits)
        /\ disk.mtime = edits /\ row \in FileRow \cup {Absent} /\ mem \in MapEntry \cup {Absent}
        /\ (row # Absent => row.mtime \in Nat /\ row.content \in Nat)
        /\ (mem # Absent => mem.mtime \in Nat /\ mem.hash \in Nat)
    BY <1>1, FileFacts
  <2>1. ~File!Edit /\ \A d \in Calls, k \in File!Kinds : ~File!Begin(d, k)
    <3>1. ASSUME NEW d \in Calls, NEW k \in {"tool", "hook", "watch"}, File!Begin(d, k) PROVE FALSE
      <4>1. call[d].at = "idle" /\ \A e \in Calls \ {d} : call'[e].at = call[e].at
        BY <2>0, <3>1, BeginDoes
      <4> QED BY <1>1, <4>1
    <3>2. File!Edit => call' = call
      BY <2>0, EditDoes
    <3> QED BY <1>1, <3>1, <3>2 DEF File!Kinds
  <2>2. PICK d \in Calls : File!Continue(d)
    BY <1>1, <2>1 DEF File!Next
  <2>3. \E r \in FileCall : FileMoves(d, r)
    BY <2>0, <2>2, StatDoes, HashDoes, LookupDoes, ReadsDo, SaveDoes, FailsDo, RemoveDoes, FileIdle DEF File!Continue
  <2>4. d = c
    BY <1>1, <2>3 DEF FileMoves
  <2>5. CASE File!Stat(c)
    <3>1. row' = row /\ mem # Absent /\ mem.mtime = disk.mtime /\ OnDisk
      BY <1>1, <2>0, <2>5, StatDoes DEF FileMoves
    <3> QED BY <2>0, <3>1 DEF Kept, Current
  <2>6. CASE File!Hash(c)
    <3>1. call[c].at = "hash" /\ row' = row /\ call[c].known # Absent /\ OnDisk /\ call[c].known.hash = disk.content
      BY <1>1, <2>0, <2>6, HashDoes DEF FileMoves
    <3>2. call[c].known = mem
      BY <1>1, <2>0, <3>1 DEF Honest, Hashing
    <3> QED BY <2>0, <3>1, <3>2 DEF Kept, Current
  <2>7. CASE File!Lookup(c)
    <3>1. call[c].at = "lookup" /\ row' = row /\ row # Absent /\ row.mtime = call[c].st
      BY <1>1, <2>0, <2>7, LookupDoes DEF FileMoves
    <3>2. call[c].st \in Nat /\ call[c].hash \in Nat /\ LookingUp(call[c])
      BY <2>0, <3>1 DEF Honest, LookingUp, FileCall
    <3>3. row.content = edits /\ OnDisk
      BY <1>1, <2>0, <3>1, <3>2 DEF LookingUp, Kept
    <3> QED BY <2>0, <3>1, <3>3 DEF Current
  <2>8. CASE File!Save(c)
    <3>1. call[c].at = "save" /\ row' \in FileRow /\ row'.content = call[c].content /\ UNCHANGED disk
      BY <2>0, <2>8, SaveDoes
    <3>2. call[c].content = edits /\ OnDisk
      BY <1>1, <2>0, <3>1 DEF Honest, Saving, FileCall
    <3>3. row' # Absent
      BY <3>1 DEF Apart
    <3> QED BY <2>0, <3>1, <3>2, <3>3 DEF Current
  <2>9. CASE File!Remove(c)
    <3>1. call[c].at = "remove" /\ row' = Absent
      BY <2>0, <2>9, RemoveDoes
    <3> QED BY <1>1, <2>0, <3>1 DEF Honest, Removing, Current
  <2>10. CASE File!StatAgain(c) \/ File!ReadAgain(c) \/ File!Fail(c) \/ File!GiveError(c)
    BY <1>1, <2>0, <2>10, ReadsDo, FailsDo DEF FileMoves
  <2> QED BY <2>2, <2>4, <2>5, <2>6, <2>7, <2>8, <2>9, <2>10 DEF File!Continue
<1>2. FileInv /\ [File!Next]_file => FileInv'
  BY FileInvStep
<1>3. FileInv /\ [File!Next]_file =>
        [\A c \in Calls :
           /\ call[c].at \notin {"idle", "failed"} /\ call'[c].at = "idle"
           /\ call[c].alone /\ call[c].since = edits
           => Current(row')]_file
  BY <1>1
<1> QED BY <1>2, <1>3, FileInvInit, PTL DEF File!Spec, File!file, file, AloneCallIndexes

=============================================================================
