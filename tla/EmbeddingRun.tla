---------------------------- MODULE EmbeddingRun ----------------------------
(***************************************************************************)
(* An embedding run (parse.ts embedSymbols, embedding-store.ts batchEmbed  *)
(* and saveEmbeddings) and the checkpoint it appends each paid batch to    *)
(* (embedding-checkpoint.ts): which stored vectors it keeps, which texts   *)
(* it sends to the model, and what a crash anywhere leaves behind.         *)
(*                                                                         *)
(* A text is the number of the edit that wrote it, a vector the text and   *)
(* the model it came from, a batch one text.  The checkpoint's lock is the *)
(* one of FileLock: one live owner, none after a crash.                    *)
(***************************************************************************)
EXTENDS Naturals, Sequences, SequencesExt, FiniteSets

CONSTANTS
    Ids,          \* symbols
    Models,
    Procs,        \* processes that may embed the repository at the same time
    Residents,    \* those that live on between runs; the others are a run's own child
    ResidentModel,  \* the model a resident process is configured with
    None,
    MaxEdits,     \* bound on how often texts have changed when a run starts
    MaxMishaps    \* bound on crashes and failures

ASSUME EmbeddingAssumption ==
    /\ Residents \subseteq Procs /\ ResidentModel \in [Residents -> Models]
    /\ None \notin Models \cup Nat \cup Procs
    /\ MaxEdits \in Nat /\ MaxMishaps \in Nat

VARIABLES
    text,      \* per symbol: its text, or None
    main,      \* the vector file, or None: per symbol a vector and the hash beside it
    meta,      \* the model the meta file names, or None
    partial,   \* the lines of the checkpoint, or None
    lock,      \* who holds the checkpoint
    known,     \* per process, embeddingContentHashes: the hash thought to be the vector's
    proc,      \* per process: its run
    paid,      \* for PaidOnce: each symbol's last line safely appended and not yet folded
    edits, mishaps

vars == <<text, main, meta, partial, lock, known, proc, paid, edits, mishaps>>

Nothing == [i \in Ids |-> None]
\* A run; `misled`, for the properties only, is explained at Misled.
Idle == [at |-> "idle", model |-> None, trusts |-> FALSE, want |-> Nothing, vec |-> Nothing, done |-> {},
         appends |-> FALSE, misled |-> FALSE]
Vector(t, m) == [text |-> t, model |-> m]
Header(m) == [kind |-> "header", id |-> None, vec |-> Vector(None, m)]
Line(i, v) == [kind |-> "vector", id |-> i, vec |-> v]
\* A line without an end, and what another one becomes when it is appended to that.
Torn == [kind |-> "torn", id |-> None, vec |-> None]
Fused == [kind |-> "fused", id |-> None, vec |-> None]

Init ==
    /\ text = [i \in Ids |-> 0]
    /\ main = None /\ meta = None /\ partial = None /\ lock = None
    /\ known = [p \in Procs |-> Nothing] /\ proc = [p \in Procs |-> Idle]
    /\ paid = {} /\ edits = 0 /\ mishaps = 0

At(p, s) == proc[p].at = s
Mishap == mishaps < MaxMishaps /\ mishaps' = mishaps + 1
Symbols(p) == {i \in Ids : proc[p].want[i] # None}

-----------------------------------------------------------------------------
(* The checkpoint's lines *)

\* readPartialState: the model named by a first line that is complete.
HeaderOf(lines) == IF lines # <<>> /\ lines[1].kind = "header" THEN lines[1].vec.model ELSE None
\* loadEmbeddings: malformed lines are skipped, the last of a symbol counts.
Stored(lines) == [i \in Ids |->
    LET mine == SelectSeq(lines, LAMBDA l : l.kind = "vector" /\ l.id = i)
    IN IF mine = <<>> THEN None ELSE Last(mine).vec]
\* Variant: the tail stays.
UncutTail(lines) == lines
\* prepareForAppend: a torn last line goes.
CutTail(lines) == IF lines # <<>> /\ Last(lines).kind = "torn" THEN Front(lines) ELSE lines
\* append: an empty file gets its header first.
Appended(file, m, line) ==
    IF file \in {None, <<>>} THEN <<Header(m), line>>
    ELSE IF Last(file).kind = "torn" THEN Append(Front(file), Fused) ELSE Append(file, line)
\* The same, stopped on its way.  An empty file is discarded like a torn first line.
TornAppends(file, m) ==
    IF file \in {None, <<>>} THEN {file, <<Torn>>, <<Header(m), Torn>>}
    ELSE IF Last(file).kind = "torn" THEN {file} ELSE {file, Append(file, Torn)}

-----------------------------------------------------------------------------
(* A run *)

Hashes(vectors) == [i \in Ids |-> IF vectors[i] = None THEN None ELSE vectors[i].text]
\* primeContentHashes: what is known already stays.
Primed(old, new) == [i \in Ids |-> IF old[i] = None THEN new[i] ELSE old[i]]

\* The editor's change since the last run started, if any: a text is new, gone, or the one
\* it had first.  A run sees none after its start, so it is made no sooner than the next one.
Edit ==
    \/ UNCHANGED <<text, edits>>
    \/ /\ edits < MaxEdits /\ edits' = edits + 1
       /\ \E i \in Ids, t \in {0, edits', None} : t # text[i] /\ text' = [text EXCEPT ![i] = t]

\* A run, by the model its process is configured with: a child is a new process, so any.
\* It takes the symbols of the index, and whether to trust the vector file: the meta names
\* its own model, or there is no file.
Start(p) ==
    /\ At(p, "idle") /\ Edit
    /\ \E m \in Models :
         /\ p \in Residents => m = ResidentModel[p]
         /\ proc' = [proc EXCEPT ![p] = [Idle EXCEPT !.at = "begun", !.model = m, !.want = text',
                       !.trusts = meta = m \/ (meta = None /\ main = None)]]
    /\ UNCHANGED <<main, meta, partial, lock, known, paid, mishaps>>

\* Variant: whatever model the meta names.
ReuseAny(p) == IF main # None THEN main ELSE Nothing
\* The vector file, if it is trusted.
Reuse(p) == IF main # None /\ proc[p].trusts THEN main ELSE Nothing
\* It is, and has a vector of another model.
Misled(p) ==
    /\ proc[p].trusts /\ main # None
    /\ \E i \in Ids : main[i] # None /\ main[i].model # proc[p].model
\* The vectors' hashes on the lines of the vector file.
FileHashes(vectors) == [i \in Ids |-> IF vectors[i] = None THEN None ELSE vectors[i].hash]
Bare(vectors) == [i \in Ids |-> IF vectors[i] = None THEN None ELSE Vector(vectors[i].text, vectors[i].model)]
\* loadEmbeddings; then EmbeddingCheckpoint.open, decide and prepareForAppend.  Only the owner
\* resumes: lines of another model and a torn first line are discarded, anything else unknown
\* is set aside.  The file and the checkpoint are read in one step: every line of both has
\* its own hash, so it does not matter how old one is against the other.
Open(p) ==
    LET mine == FileHashes(Reuse(p))
        resumed == IF partial # None /\ HeaderOf(partial) = proc[p].model THEN Stored(partial) ELSE Nothing
        Opened(vectors, owner) == proc' = [proc EXCEPT ![p].at = "embed", ![p].trusts = FALSE,
            ![p].misled = Misled(p), ![p].vec = vectors, ![p].appends = owner] IN
    /\ At(p, "begun")
    /\ IF lock # None
       THEN /\ UNCHANGED <<partial, lock, paid>>
            /\ known' = [known EXCEPT ![p] = Primed(@, mine)]
            /\ Opened(Bare(Reuse(p)), FALSE)
       ELSE /\ lock' = p
            /\ IF partial # None /\ HeaderOf(partial) = proc[p].model
               THEN partial' = CutTail(partial) /\ UNCHANGED paid
               ELSE partial' = None /\ paid' = {v \in paid : v.vec.model = proc[p].model}
            /\ known' = [known EXCEPT ![p] = Primed(Primed(@, Hashes(resumed)), mine)]
            /\ Opened([i \in Ids |-> IF resumed[i] # None THEN resumed[i] ELSE Bare(Reuse(p))[i]], TRUE)
    /\ UNCHANGED <<text, main, meta, edits, mishaps>>

\* batchEmbed: new symbols, and those whose hash is not the text's.
Todo(p) == {i \in Symbols(p) \ proc[p].done :
              proc[p].vec[i] = None \/ known[p][i] # proc[p].want[i]}
New(p, i) == Vector(proc[p].want[i], proc[p].model)
Answered(p, batch, appends) ==
    proc' = [proc EXCEPT ![p].vec = [i \in Ids |-> IF i \in batch THEN New(p, i) ELSE @[i]],
                         ![p].done = @ \cup batch, ![p].appends = appends]
\* A batch comes back from the model and goes to the checkpoint, if the run has one.  After
\* an append that fails, perhaps half way, there are no more.
Embed(p) ==
    /\ At(p, "embed") /\ Todo(p) # {}
    /\ \/ \E i \in Todo(p) :
            /\ proc[p].appends /\ Answered(p, {i}, TRUE) /\ UNCHANGED mishaps
            /\ partial' = Appended(partial, proc[p].model, Line(i, New(p, i)))
            /\ paid' = {l \in paid : l.id # i} \cup {Line(i, New(p, i))}
       \/ \E i \in Todo(p) :
            /\ proc[p].appends /\ Mishap
            /\ Answered(p, {i}, FALSE) /\ UNCHANGED paid
            /\ partial' \in TornAppends(partial, proc[p].model)
       \* Without a checkpoint only the run's own memory changes: all its batches are one.
       \/ ~proc[p].appends /\ Answered(p, Todo(p), FALSE) /\ UNCHANGED <<partial, paid, mishaps>>
    /\ UNCHANGED <<text, main, meta, lock, known, edits>>

\* The end of a run, the process's too if it is a child's.
Ends(p) ==
    /\ proc' = [proc EXCEPT ![p] = Idle]
    /\ lock' = IF lock = p THEN None ELSE lock
Kept(p, hashes) == known' = [known EXCEPT ![p] = IF p \in Residents THEN hashes ELSE Nothing]

\* The provider rejects a batch: the run ends with what the checkpoint has.
Rejected(p) ==
    /\ At(p, "embed") /\ Todo(p) # {} /\ Mishap
    /\ Ends(p) /\ Kept(p, known[p])
    /\ UNCHANGED <<text, main, meta, partial, paid, edits>>

\* The hashes are published when batchEmbed returns, with those of symbols that are gone
\* deleted; saveEmbeddings then writes them beside the vectors, atomically.
Published(p) == [i \in Ids |-> IF i \in Symbols(p) THEN proc[p].want[i]
                               ELSE IF proc[p].vec[i] # None THEN None ELSE known[p][i]]
Complete(p) == At(p, "embed") /\ Todo(p) = {}
Save(p) ==
    /\ Complete(p)
    /\ main' = [i \in Ids |-> IF i \notin Symbols(p) THEN None
                 ELSE [text |-> proc[p].vec[i].text, model |-> proc[p].vec[i].model, hash |-> Published(p)[i]]]
    /\ known' = [known EXCEPT ![p] = Published(p)]
    /\ proc' = [proc EXCEPT ![p] = [Idle EXCEPT !.at = "saved", !.model = proc[p].model]]
    /\ UNCHANGED <<text, meta, partial, lock, paid, edits, mishaps>>
SaveFails(p) ==
    /\ Complete(p) /\ Mishap
    /\ Ends(p) /\ Kept(p, Published(p))
    /\ UNCHANGED <<text, main, meta, partial, paid, edits>>
SaveMeta(p) ==
    /\ At(p, "saved")
    /\ meta' = proc[p].model
    /\ proc' = [proc EXCEPT ![p].at = "named"]
    /\ UNCHANGED <<text, main, partial, lock, known, paid, edits, mishaps>>

\* discard and release: the vectors are in the vector file.
Discard(p) ==
    /\ At(p, "named")
    /\ IF lock = p THEN partial' = None /\ paid' = {} ELSE UNCHANGED <<partial, paid>>
    /\ Ends(p) /\ Kept(p, known[p])
    /\ UNCHANGED <<text, main, meta, edits, mishaps>>

\* The process dies, in an append perhaps.
Crash(p) ==
    /\ ~At(p, "idle") /\ Mishap
    /\ Ends(p) /\ known' = [known EXCEPT ![p] = Nothing]
    /\ IF At(p, "embed") /\ proc[p].appends /\ Todo(p) # {}
       THEN partial' \in TornAppends(partial, proc[p].model) ELSE UNCHANGED partial
    /\ UNCHANGED <<text, main, meta, paid, edits>>

Next ==
    \E p \in Procs :
         \/ Start(p) \/ Open(p) \/ Embed(p) \/ Rejected(p) \/ Save(p) \/ SaveFails(p)
         \/ SaveMeta(p) \/ Discard(p) \/ Crash(p)
Spec == Init /\ [][Next]_vars

-----------------------------------------------------------------------------
(* Properties *)

TypeOK ==
    /\ text \in [Ids -> 0 .. MaxEdits \cup {None}]
    /\ meta \in Models \cup {None} /\ lock \in Procs \cup {None}
    /\ \A p \in Procs : proc[p].at \in {"idle", "begun", "embed", "saved", "named"}

\* What a run stores is what a run from nothing would have stored: for each symbol the
\* vector of the text it was given, by its own model - whatever was reused of the vector
\* file and of the checkpoint, and whatever runs of any model, crashes and failures came
\* before or overlap.  Not meant is a run that trusts the vector file and finds another
\* model's vectors in it (Misled).  The code writes the file and its meta one after the
\* other (parse.ts:345-346) and reads them so (:302-304): a kill or an overlapping run of
\* another model between the two writes, or one that saves between the two reads.
SavedIsFresh ==
    [][\A p \in Procs : At(p, "embed") /\ proc'[p].at = "saved" /\ ~proc[p].misled =>
         \A i \in Ids :
           IF i \in Symbols(p) THEN main'[i] = [text |-> proc[p].want[i], model |-> proc[p].model, hash |-> proc[p].want[i]]
           ELSE main'[i] = None]_vars

\* A vector that was safely in the checkpoint is not bought again by the run that owns the
\* checkpoint, as long as no run has folded it into the vector file, and none of another
\* model has discarded it (embedding-checkpoint.ts decide).
PaidOnce ==
    [][\A p \in Procs \ Residents :
         At(p, "embed") /\ lock = p =>
           \A i \in proc'[p].done \ proc[p].done : Line(i, New(p, i)) \notin paid]_vars
=============================================================================
