---------------------------- MODULE FreshnessProof ----------------------------
(* FreshMeansIndexed for any history, files, calls, failures and moves of HEAD. *)
EXTENDS Freshness, TLAPS

Stages == {"idle", "asked", "moved", "files", "walk", "saved", "registered", "stamping", "update"}
Rec == [kind : {"refresh", "file", "folder"}, at : Stages,
        from : Commits \cup {NoCommit}, cur : Commits \cup {NoCommit},
        todo : SUBSET Files, held : [Files -> Contents \cup {Absent, Unread}],
        late : SUBSET Files, miss : {"none", "diff", "walk"}, stayed : BOOLEAN]

Types ==
    /\ head \in Commits /\ last \in Commits \cup {NoCommit} /\ checked \in BOOLEAN
    /\ row \in [Files -> Contents \cup {Absent}]
    /\ call \in [Calls -> Rec]
    /\ moves \in 0..MaxMoves /\ mishaps \in 0..MaxMishaps
    /\ trail \in [Files -> SUBSET (Contents \cup {Absent})] /\ lapsed \subseteq Files

\* What a call has at each place.
Shape(c) ==
    /\ At(c, "idle") => call[c] = NoCall
    /\ ~ (At(c, "files") \/ At(c, "walk")) => call[c].held = NoCall.held
    /\ At(c, "files") => \A f \in Files : Holds(c, f) => f \in call[c].todo
    /\ At(c, "walk") => \A f \in Files : f \notin call[c].todo => Holds(c, f)
    /\ At(c, "asked") \/ At(c, "moved") \/ At(c, "update") => Is(c, "refresh")
    /\ Is(c, "refresh") /\ ~ At(c, "idle") /\ ~ At(c, "asked") => call[c].cur # NoCommit
    /\ At(c, "stamping") => call[c].from # NoCommit

\* If a file on disk is as at commit k, it is in the index.
Vouches(k, f) ==
    \/ Tree[k][f] = Absent
    \/ Tree[k][f] \in trail[f] /\ (Tree[k][f] = OnDisk(f) => row[f] = OnDisk(f))

FileOK(f) ==
    /\ OnDisk(f) \in trail[f] /\ row[f] \in trail[f]
    /\ last # NoCommit => Vouches(last, f)

\* The commit a check records at its end vouches for a file once it is dealt with.
Dealt(c, f) ==
    \/ At(c, "update") /\ call[c].miss = "none"
    \/ At(c, "files") /\ Is(c, "refresh") /\ f \notin call[c].todo
    \/ Is(c, "refresh") /\ (At(c, "saved") \/ At(c, "registered") \/ At(c, "stamping"))

HeldOK(c, f) ==
    /\ call[c].held[f] \in trail[f]
    /\ row[f] = OnDisk(f) => call[c].held[f] = OnDisk(f) \/ f \in call[c].late
    /\ Is(c, "refresh") /\ Tree[call[c].cur][f] = OnDisk(f) => call[c].held[f] = OnDisk(f)
    /\ At(c, "walk") /\ call[c].stayed => call[c].held[f] = OnDisk(f)

CallOK(c, f) ==
    /\ (At(c, "asked") \/ At(c, "moved")) /\ call[c].from # NoCommit => Vouches(call[c].from, f)
    /\ At(c, "stamping") => Vouches(call[c].from, f)
    /\ call[c].cur # NoCommit => Tree[call[c].cur][f] \in trail[f]
    /\ Dealt(c, f) => Vouches(call[c].cur, f)
    /\ Holds(c, f) => HeldOK(c, f)
    /\ (At(c, "saved") \/ At(c, "registered")) /\ call[c].stayed /\ OnDisk(f) # Absent
       => row[f] = OnDisk(f)

Sound == \A f \in Files \ lapsed : FileOK(f) /\ \A c \in Calls : CallOK(c, f)

IInv == Types /\ (\A c \in Calls : Shape(c)) /\ Sound

-----------------------------------------------------------------------------
(* Frames *)

LEMMA NoCallType == NoCall \in Rec
BY DEF NoCall, Rec, Stages

\* Nothing the other calls are judged by has changed.
LEMMA OthersKeep ==
    ASSUME NEW d, NEW f, CallOK(d, f), call'[d] = call[d], UNCHANGED <<head, row, trail>>
    PROVE CallOK(d, f)'
BY DEF CallOK, Dealt, HeldOK, Holds, Vouches, OnDisk, At, Is

LEMMA ShapeKeeps ==
    ASSUME NEW d, Shape(d), call'[d] = call[d]
    PROVE Shape(d)'
BY DEF Shape, Holds, At, Is

\* A step of call c alone, which reads and may record a commit.
LEMMA LocalStep ==
    ASSUME IInv, NEW c \in Calls, Types', Shape(c)', UNCHANGED <<head, row, trail>>,
           \A d \in Calls \ {c} : call'[d] = call[d], lapsed \subseteq lapsed',
           last' = last \/ last' = NoCommit
             \/ \A f \in Files \ lapsed' : Vouches(last, f)',
           \A f \in Files \ lapsed' : FileOK(f) /\ CallOK(c, f) => CallOK(c, f)'
    PROVE IInv'
<1>1. \A d \in Calls : Shape(d)'
  BY ShapeKeeps DEF IInv
<1>2. ASSUME NEW f \in Files \ lapsed' PROVE FileOK(f)' /\ \A d \in Calls : CallOK(d, f)'
  <2>1. FileOK(f) /\ \A d \in Calls : CallOK(d, f)
    BY <1>2 DEF IInv, Sound
  <2>2. OnDisk(f)' \in trail'[f] /\ row'[f] \in trail'[f]
    BY <2>1 DEF FileOK, OnDisk
  <2>3. last' # NoCommit => Vouches(last, f)'
    <3>1. CASE last' = last
      BY <3>1, <2>1 DEF FileOK, Vouches, OnDisk
    <3>2. CASE last' = NoCommit
      BY <3>2
    <3>3. CASE \A g \in Files \ lapsed' : Vouches(last, g)'
      BY <3>3, <1>2
    <3> QED BY <3>1, <3>2, <3>3
  <2>4. FileOK(f)'
    BY <2>2, <2>3 DEF FileOK
  <2>5. \A d \in Calls : CallOK(d, f)'
    BY <2>1, <1>2, OthersKeep
  <2> QED BY <2>4, <2>5
<1>3. Sound'
  BY <1>2 DEF Sound
<1> QED BY <1>1, <1>3 DEF IInv

\* A call that ends has nothing left to be judged by.
LEMMA EndedOK ==
    ASSUME NEW d, NEW f \in Files, call'[d] = NoCall
    PROVE CallOK(d, f)' /\ Shape(d)'
BY DEF CallOK, Shape, Dealt, Holds, At, Is, NoCall

LEMMA EndStep ==
    ASSUME IInv, NEW c \in Calls, End(c), UNCHANGED <<git, row>>, lapsed \subseteq lapsed',
           lapsed' \subseteq Files, checked' \in BOOLEAN, mishaps' \in 0..MaxMishaps,
           last' \in Commits \cup {NoCommit},
           last' = last \/ \A f \in Files \ lapsed' : Vouches(last, f)'
    PROVE IInv'
<1>1. call' = [call EXCEPT ![c] = NoCall]
  BY DEF End
<1>2. call'[c] = NoCall /\ \A d \in Calls \ {c} : call'[d] = call[d]
  BY <1>1 DEF IInv, Types
<1>3. Types'
  BY <1>1, NoCallType DEF IInv, Types, git
<1>4. Shape(c)'
  BY <1>2 DEF Shape, Holds, At, Is, NoCall
<1>5. \A f \in Files : CallOK(c, f)'
  BY <1>2, EndedOK
<1> QED BY <1>2, <1>3, <1>4, <1>5, LocalStep DEF git

LEMMA CallStep ==
    ASSUME IInv, NEW c \in Calls, NEW l \in Rec, call' = [call EXCEPT ![c] = l],
           UNCHANGED <<git, row>>, lapsed \subseteq lapsed', lapsed' \subseteq Files,
           checked' \in BOOLEAN, mishaps' \in 0..MaxMishaps, last' \in Commits \cup {NoCommit},
           last' = last \/ last' = NoCommit \/ \A f \in Files \ lapsed' : Vouches(last, f)',
           Shape(c)', \A f \in Files \ lapsed' : FileOK(f) /\ CallOK(c, f) => CallOK(c, f)'
    PROVE IInv'
<1>1. \A d \in Calls \ {c} : call'[d] = call[d]
  BY DEF IInv, Types
<1>2. Types'
  BY DEF IInv, Types, git
<1> QED BY <1>1, <1>2, LocalStep DEF git

-----------------------------------------------------------------------------
(* ensureIndexFresh *)

LEMMA BeginStep ==
    ASSUME IInv, NEW c \in Calls, Begin(c) PROVE IInv'
<1> DEFINE l == [call[c] EXCEPT !.at = "asked", !.kind = "refresh", !.from = last]
<1> call[c] \in Rec
  BY DEF IInv, Types
<1>1. l \in Rec
  BY FreshnessAssumption DEF Rec, Stages, IInv, Types
<1>2. call' = [call EXCEPT ![c] = l] /\ call'[c] = l
  BY DEF Begin, IInv, Types
<1>3. call[c] = NoCall
  BY DEF Begin, IInv, Shape
<1>4. l.at = "asked" /\ l.kind = "refresh" /\ l.from = last /\ l.cur = call[c].cur /\ l.held = call[c].held
  BY DEF Rec
<1> HIDE DEF l
<1>5. UNCHANGED <<head, row, last, trail>>
  BY DEF Begin, git, registry
<1>6. Shape(c)'
  BY <1>2, <1>3, <1>4 DEF Shape, Holds, At, Is, NoCall
<1>7. ASSUME NEW f \in Files \ lapsed', FileOK(f) PROVE CallOK(c, f)'
  BY <1>2, <1>3, <1>4, <1>5, <1>7 DEF FileOK, CallOK, Dealt, Holds, At, Is, NoCall, Vouches, OnDisk
<1> QED BY <1>1, <1>2, <1>6, <1>7, CallStep DEF Begin, registry, IInv, Types

LEMMA RevParseStep ==
    ASSUME IInv, NEW c \in Calls, RevParse(c) PROVE IInv'
<1> DEFINE l == [call[c] EXCEPT !.at = "moved", !.cur = head, !.stayed = TRUE]
<1>1. CASE call[c].from = head
  BY <1>1, EndStep DEF RevParse, IInv, Types
<1>2. CASE call[c].from # head
  <2> call[c] \in Rec
    BY DEF IInv, Types
  <2>1. l \in Rec
    BY FreshnessAssumption DEF Rec, Stages, IInv, Types
  <2>2. call' = [call EXCEPT ![c] = l] /\ call'[c] = l
    BY <1>2 DEF RevParse, IInv, Types
  <2>3. Shape(c) /\ head # NoCommit
    BY FreshnessAssumption DEF IInv, Types
  <2>4. Shape(c)'
    BY <2>2, <2>3 DEF RevParse, Shape, Holds, At, Is
  <2>5. ASSUME NEW f \in Files \ lapsed', FileOK(f), CallOK(c, f) PROVE CallOK(c, f)'
    BY <2>2, <2>3, <2>5
    DEF RevParse, git, Shape, FileOK, CallOK, Dealt, HeldOK, Holds, At, Is, NoCall, Vouches, OnDisk
  <2> HIDE DEF l
  <2> QED BY <1>2, <2>1, <2>2, <2>4, <2>5, CallStep DEF RevParse, IInv, Types
<1> QED BY <1>1, <1>2

LEMMA RevParseFailsStep ==
    ASSUME IInv, NEW c \in Calls, RevParseFails(c) PROVE IInv'
BY EndStep, FreshnessAssumption DEF RevParseFails, Mishap, IInv, Types

\* What the diff does not name is the same at both commits, or gone.
LEMMA DiffVouches ==
    ASSUME NEW a, NEW b, NEW f \in Files, f \notin Changed(a, b), Vouches(a, f),
           Tree[b][f] \in trail[f]
    PROVE Vouches(b, f)
BY DEF Changed, Vouches

LEMMA DiffStep ==
    ASSUME IInv, NEW c \in Calls, Diff(c) PROVE IInv'
<1> DEFINE files == IF call[c].from = NoCommit THEN {} ELSE Changed(call[c].from, call[c].cur)
<1> files \subseteq Files
  BY DEF Changed
<1> call[c] \in Rec
  BY DEF IInv, Types
<1>1. At(c, "moved") /\ Is(c, "refresh") /\ call[c].cur # NoCommit /\ call[c].held = NoCall.held
  BY DEF Diff, IInv, Shape, At
<1>2. ASSUME NEW f \in Files, CallOK(c, f), f \notin files, call[c].from # NoCommit
      PROVE Vouches(call[c].cur, f)
  BY <1>1, <1>2, DiffVouches DEF CallOK
<1>3. ASSUME NEW l \in Rec, l.at \in {"files", "walk", "update"},
             l.kind = call[c].kind, l.cur = call[c].cur, l.held = call[c].held,
             l.at = "walk" => l.todo = Files, l.at = "files" => l.todo = files,
             l.at # "walk" => call[c].from # NoCommit, l.at = "update" => files = {},
             call' = [call EXCEPT ![c] = l]
      PROVE IInv'
  <2>1. call'[c] = l
    BY <1>3 DEF IInv, Types
  <2>2. UNCHANGED <<head, row, last, trail>>
    BY DEF Diff, git, registry
  <2>3. Shape(c)'
    BY <1>1, <1>3, <2>1 DEF Shape, Holds, At, Is, NoCall
  <2>4. ASSUME NEW f \in Files \ lapsed', CallOK(c, f) PROVE CallOK(c, f)'
    BY <1>1, <1>2, <1>3, <2>1, <2>2, <2>4
    DEF CallOK, Dealt, Holds, At, Is, NoCall, Vouches, OnDisk
  <2> QED BY <1>3, <2>3, <2>4, CallStep DEF Diff, registry, IInv, Types
<1>4. CASE files # {} /\ Cardinality(files) <= MaxDiff
  <2> DEFINE l == [call[c] EXCEPT !.at = "files", !.todo = files]
  <2>1. call' = [call EXCEPT ![c] = l]
    BY <1>4 DEF Diff, Plan
  <2>2. l \in Rec /\ l.at = "files" /\ l.todo = files /\ l.kind = call[c].kind
        /\ l.cur = call[c].cur /\ l.held = call[c].held
    BY DEF Rec, Stages
  <2> HIDE DEF l
  <2> QED BY <1>3, <1>4, <2>1, <2>2
<1>5. CASE ~ (files # {} /\ Cardinality(files) <= MaxDiff) /\ (files # {} \/ call[c].from = NoCommit)
  <2> DEFINE l == [call[c] EXCEPT !.at = "walk", !.todo = Files]
  <2>1. call' = [call EXCEPT ![c] = l]
    BY <1>5 DEF Diff, Plan
  <2>2. l \in Rec /\ l.at = "walk" /\ l.todo = Files /\ l.kind = call[c].kind
        /\ l.cur = call[c].cur /\ l.held = call[c].held
    BY DEF Rec, Stages
  <2> HIDE DEF l
  <2> QED BY <1>3, <2>1, <2>2
<1>6. CASE files = {} /\ call[c].from # NoCommit
  <2> DEFINE l == [call[c] EXCEPT !.at = "update"]
  <2>1. call' = [call EXCEPT ![c] = l]
    BY <1>6 DEF Diff, Plan
  <2>2. l \in Rec /\ l.at = "update" /\ l.kind = call[c].kind
        /\ l.cur = call[c].cur /\ l.held = call[c].held
    BY DEF Rec, Stages
  <2> HIDE DEF l
  <2> QED BY <1>3, <1>6, <2>1, <2>2
<1> QED BY <1>4, <1>5, <1>6


LEMMA DiffFailsStep ==
    ASSUME IInv, NEW c \in Calls, DiffFails(c) PROVE IInv'
<1> DEFINE l == [call[c] EXCEPT !.at = "update", !.miss = "diff"]
<1> call[c] \in Rec
  BY DEF IInv, Types
<1>1. call' = [call EXCEPT ![c] = l]
  BY DEF DiffFails
<1>2. call'[c] = l
  BY DEF DiffFails, IInv, Types
<1>3. l \in Rec /\ l.at = "update" /\ l.miss = "diff" /\ l.kind = call[c].kind
      /\ l.cur = call[c].cur /\ l.held = call[c].held
  BY DEF Rec, Stages
<1> HIDE DEF l
<1>4. UNCHANGED <<head, row, last, trail>> /\ At(c, "moved") /\ Shape(c)
  BY DEF DiffFails, git, registry, IInv
<1>5. Shape(c)'
  BY <1>2, <1>3, <1>4 DEF Shape, Holds, At, Is, NoCall
<1>6. ASSUME NEW f \in Files, CallOK(c, f) PROVE CallOK(c, f)'
  BY <1>2, <1>3, <1>4, <1>6 DEF CallOK, Dealt, Holds, At, Is, NoCall, Shape, Vouches, OnDisk
<1>7. mishaps' \in 0..MaxMishaps
  BY FreshnessAssumption DEF DiffFails, Mishap, IInv, Types
<1> QED BY <1>1, <1>3, <1>5, <1>6, <1>7, CallStep DEF DiffFails, registry, IInv, Types

LEMMA UpdateStep ==
    ASSUME IInv, NEW c \in Calls, Update(c) PROVE IInv'
<1>1. At(c, "update") /\ call[c].cur \in Commits
  BY DEF Update, IInv, Shape, Types, Rec, At
<1>2. UNCHANGED <<head, row, trail>> /\ last' = call[c].cur
  BY DEF Update, git
<1>3. lapsed \subseteq lapsed' /\ lapsed' \subseteq Files
  BY DEF Update, IInv, Types
<1>4. ASSUME NEW f \in Files \ lapsed' PROVE Vouches(last, f)'
  <2>1. call[c].miss = "none" /\ f \notin lapsed
    BY <1>3, <1>4 DEF Update
  <2>2. Vouches(call[c].cur, f)
    BY <1>1, <2>1 DEF IInv, Sound, CallOK, Dealt
  <2> QED BY <1>2, <2>2 DEF Vouches, OnDisk
<1> QED BY <1>1, <1>2, <1>3, <1>4, EndStep DEF Update, IInv, Types

-----------------------------------------------------------------------------
(* index_file *)

LEMMA BeginFileStep ==
    ASSUME IInv, NEW c \in Calls, NEW f \in Files, BeginFile(c, f) PROVE IInv'
<1> DEFINE l == [call[c] EXCEPT !.at = "files", !.kind = "file", !.todo = {f}]
<1> call[c] \in Rec
  BY DEF IInv, Types
<1>1. call' = [call EXCEPT ![c] = l]
  BY DEF BeginFile
<1>2. call'[c] = l
  BY DEF BeginFile, IInv, Types
<1>3. l \in Rec /\ l.at = "files" /\ l.kind = "file" /\ l.cur = call[c].cur /\ l.held = call[c].held
  BY DEF Rec, Stages
<1> HIDE DEF l
<1>4. call[c] = NoCall /\ UNCHANGED <<head, row, last, trail>>
  BY DEF BeginFile, git, registry, IInv, Shape
<1>5. Shape(c)'
  BY <1>2, <1>3, <1>4 DEF Shape, Holds, At, Is, NoCall
<1>6. ASSUME NEW g \in Files PROVE CallOK(c, g)'
  BY <1>2, <1>3, <1>4 DEF CallOK, Dealt, Holds, At, Is, NoCall
<1> QED BY <1>1, <1>3, <1>5, <1>6, CallStep DEF BeginFile, registry, IInv, Types

\* A file just read is held as it is on disk.
LEMMA ReadOK ==
    ASSUME NEW c, NEW f \in Files, FileOK(f), UNCHANGED <<head, trail>>,
           call'[c].held[f] = OnDisk(f)
    PROVE HeldOK(c, f)'
BY DEF FileOK, HeldOK, OnDisk

LEMMA ReadStep ==
    ASSUME IInv, NEW c \in Calls, NEW f \in Files, Read(c, f) PROVE IInv'
<1> DEFINE h == [call[c].held EXCEPT ![f] = OnDisk(f)]
           l == [call[c] EXCEPT !.held = h]
<1> call[c] \in Rec
  BY DEF IInv, Types
<1>1. call' = [call EXCEPT ![c] = l]
  BY DEF Read
<1>2. call'[c] = l
  BY DEF Read, IInv, Types
<1>3. OnDisk(f) \in Contents \cup {Absent}
  BY FreshnessAssumption DEF OnDisk, IInv, Types
<1>4. call[c].held \in [Files -> Contents \cup {Absent, Unread}]
  BY DEF Rec
<1>5. h \in [Files -> Contents \cup {Absent, Unread}] /\ h[f] = OnDisk(f)
      /\ \A g \in Files \ {f} : h[g] = call[c].held[g]
  BY <1>3, <1>4
<1> HIDE DEF h
<1>6. /\ l \in Rec /\ l.at = call[c].at /\ l.kind = call[c].kind /\ l.cur = call[c].cur
      /\ l.held = h /\ l.todo = call[c].todo /\ l.miss = call[c].miss /\ l.late = call[c].late
      /\ l.stayed = call[c].stayed
  BY <1>5 DEF Rec
<1> HIDE DEF l
<1>7. /\ At(c, "files") /\ f \in call[c].todo /\ Shape(c)
      /\ UNCHANGED <<head, row, last, trail>>
  BY DEF Read, git, registry, IInv
<1>8. Shape(c)'
  BY <1>2, <1>5, <1>6, <1>7 DEF Shape, Holds, At, Is
<1>9. ASSUME NEW g \in Files, FileOK(g), CallOK(c, g) PROVE CallOK(c, g)'
  <2>1. Holds(c, g)' => HeldOK(c, g)'
    <3>1. CASE g = f
      BY <1>2, <1>5, <1>6, <1>7, <1>9, <3>1, ReadOK
    <3>2. CASE g # f
      BY <1>2, <1>5, <1>6, <1>7, <1>9, <3>2 DEF CallOK, HeldOK, Holds, At, Is, OnDisk
    <3> QED BY <3>1, <3>2
  <2> QED BY <1>2, <1>6, <1>7, <1>9, <2>1 DEF CallOK, Dealt, At, Is, Vouches, OnDisk
<1> QED BY <1>1, <1>6, <1>8, <1>9, CallStep DEF Read, registry, IInv, Types

\* What Outdate does to another call.
LEMMA Outdated ==
    ASSUME NEW c, NEW S \in SUBSET Files, NEW d \in Calls \ {c}, call[d] \in Rec
    PROVE  LET l == Outdate(c, S)[d] IN
           /\ l \in Rec /\ l.at = call[d].at /\ l.kind = call[d].kind /\ l.cur = call[d].cur
           /\ l.held = call[d].held /\ l.todo = call[d].todo /\ l.miss = call[d].miss
           /\ l.from = call[d].from /\ l.stayed = call[d].stayed
           /\ \A f \in S : Holds(d, f) /\ call[d].held[f] # call[c].held[f] => f \in l.late
           /\ call[d].late \subseteq l.late
           /\ call[d] = NoCall => l = NoCall
<1> DEFINE S2 == {f \in S : Holds(d, f) /\ call[d].held[f] # call[c].held[f]}
           l == [call[d] EXCEPT !.late = call[d].late \cup S2]
<1>1. Outdate(c, S)[d] = l
  BY DEF Outdate
<1>2. S2 \subseteq Files
  OBVIOUS
<1>3. call[d].late \cup S2 \in SUBSET Files
  BY <1>2 DEF Rec
<1>4. call[d] = NoCall => S2 = {}
  BY DEF NoCall, Holds
<1>5. \A f \in S : Holds(d, f) /\ call[d].held[f] # call[c].held[f] => f \in S2
  OBVIOUS
<1> HIDE DEF S2
<1>6. /\ l \in Rec /\ l.at = call[d].at /\ l.kind = call[d].kind /\ l.cur = call[d].cur
      /\ l.held = call[d].held /\ l.todo = call[d].todo /\ l.miss = call[d].miss
      /\ l.from = call[d].from /\ l.stayed = call[d].stayed /\ l.late = call[d].late \cup S2
  BY <1>3 DEF Rec
<1>7. call[d] = NoCall => l = NoCall
  BY <1>4 DEF NoCall
<1> HIDE DEF l
<1> QED BY <1>1, <1>5, <1>6, <1>7

\* What is saved over a row: for a file that has not lapsed, a row that was up
\* to date still is.
LEMMA SavedRow ==
    ASSUME NEW c \in Calls, NEW f \in Files, FileOK(f), CallOK(c, f), Holds(c, f),
           f \notin call[c].late, row'[f] = call[c].held[f], UNCHANGED <<head, last, trail>>
    PROVE  FileOK(f)' /\ (row[f] = OnDisk(f) => row'[f] = OnDisk(f))
<1>1. HeldOK(c, f)
  BY DEF CallOK
<1>2. row[f] = OnDisk(f) => row'[f] = OnDisk(f)
  BY <1>1 DEF HeldOK
<1>3. FileOK(f)'
  BY <1>1, <1>2 DEF HeldOK, FileOK, Vouches, OnDisk
<1> QED BY <1>2, <1>3

\* Another call, once a row it may hold a read of has been saved.
LEMMA OtherSaved ==
    ASSUME NEW d, NEW f, NEW l, CallOK(d, f), call'[d] = l,
           l.at = call[d].at, l.kind = call[d].kind, l.cur = call[d].cur, l.held = call[d].held,
           l.todo = call[d].todo, l.miss = call[d].miss, l.from = call[d].from,
           l.stayed = call[d].stayed, UNCHANGED <<head, trail>>,
           row[f] = OnDisk(f) => row'[f] = OnDisk(f),
           Holds(d, f) => HeldOK(d, f)'
    PROVE  CallOK(d, f)'
BY DEF CallOK, Dealt, Holds, Vouches, OnDisk, At, Is

\* A save of the files S by call c, which goes on as l.
LEMMA SaveStepOf ==
    ASSUME IInv, NEW c \in Calls, NEW l \in Rec, NEW S \in SUBSET Files,
           call' = [d \in Calls |-> IF d = c THEN l ELSE Outdate(c, S)[d]],
           row' \in [Files -> Contents \cup {Absent}],
           \A f \in S : Holds(c, f) /\ row'[f] = call[c].held[f],
           \A f \in Files \ S : row'[f] = row[f],
           lapsed' = lapsed \cup (call[c].late \cap S), UNCHANGED <<git, registry, mishaps>>,
           Shape(c)',
           \A f \in Files \ lapsed' : FileOK(f) /\ CallOK(c, f) /\ FileOK(f)' => CallOK(c, f)'
    PROVE  IInv'
<1>1. UNCHANGED <<head, last, trail, moves, checked, mishaps>>
  BY DEF git, registry
<1>2. call'[c] = l /\ \A d \in Calls \ {c} : call'[d] = Outdate(c, S)[d]
  OBVIOUS
<1>3. \A d \in Calls : call[d] \in Rec
  BY DEF IInv, Types
<1>4. Types'
  <2>1. \A d \in Calls : call'[d] \in Rec
    BY <1>2, <1>3, Outdated
  <2>2. call' \in [Calls -> Rec]
    BY <2>1
  <2> QED BY <1>1, <2>2 DEF IInv, Types
<1>5. \A d \in Calls : Shape(d)'
  <2>1. ASSUME NEW d \in Calls \ {c} PROVE Shape(d)'
    <3>1. Shape(d) /\ call[d] \in Rec
      BY <1>3 DEF IInv
    <3>2. /\ call'[d].at = call[d].at /\ call'[d].kind = call[d].kind /\ call'[d].cur = call[d].cur
          /\ call'[d].held = call[d].held /\ call'[d].todo = call[d].todo
          /\ call'[d].from = call[d].from
      BY <1>2, <3>1, Outdated
    <3>3. At(d, "idle") => call'[d] = NoCall
      BY <1>2, <3>1, Outdated DEF Shape, At
    <3> QED BY <3>1, <3>2, <3>3 DEF Shape, Holds, At, Is
  <2> QED BY <2>1
<1>6. ASSUME NEW f \in Files \ lapsed' PROVE FileOK(f)' /\ \A d \in Calls : CallOK(d, f)'
  <2>1. FileOK(f) /\ (\A d \in Calls : CallOK(d, f)) /\ f \notin lapsed
    BY <1>6 DEF IInv, Sound
  <2>2. FileOK(f)' /\ (row[f] = OnDisk(f) => row'[f] = OnDisk(f))
    <3>1. CASE f \in S
      BY <1>1, <1>6, <2>1, <3>1, SavedRow
    <3>2. CASE f \notin S
      BY <1>1, <2>1, <3>2 DEF FileOK, Vouches, OnDisk
    <3> QED BY <3>1, <3>2
  <2>3. CallOK(c, f)'
    BY <1>6, <2>1, <2>2
  <2>4. ASSUME NEW d \in Calls \ {c} PROVE CallOK(d, f)'
    <3> DEFINE m == Outdate(c, S)[d]
    <3>1. /\ m.at = call[d].at /\ m.kind = call[d].kind /\ m.cur = call[d].cur
          /\ m.held = call[d].held /\ m.todo = call[d].todo /\ m.miss = call[d].miss
          /\ m.from = call[d].from /\ m.stayed = call[d].stayed /\ call[d].late \subseteq m.late
      BY <1>3, Outdated
    <3>2. f \in S /\ Holds(d, f) /\ call[d].held[f] # call[c].held[f] => f \in m.late
      BY <1>3, Outdated
    <3>3. call'[d] = m /\ CallOK(d, f)
      BY <1>2, <2>1
    <3> HIDE DEF m
    <3>4. ASSUME Holds(d, f) PROVE HeldOK(d, f)'
      <4>1. HeldOK(d, f)
        BY <3>3, <3>4 DEF CallOK
      <4>2. row'[f] = OnDisk(f) => call[d].held[f] = OnDisk(f) \/ f \in m.late
        <5>1. CASE f \in S
          BY <3>2, <3>4, <5>1
        <5>2. CASE f \notin S
          BY <3>1, <4>1, <5>2 DEF HeldOK
        <5> QED BY <5>1, <5>2
      <4> QED BY <1>1, <3>1, <3>3, <4>1, <4>2 DEF HeldOK, OnDisk, At, Is
    <3> QED BY <1>1, <2>2, <3>1, <3>3, <3>4, OtherSaved
  <2> QED BY <2>2, <2>3, <2>4
<1>7. Sound'
  BY <1>6 DEF Sound
<1> QED BY <1>4, <1>5, <1>7 DEF IInv

\* The call after a file, in its three cases.
LEMMA AfterIs ==
    ASSUME NEW c, NEW f \in Files, call[c] \in Rec, Shape(c), At(c, "files")
    PROVE  LET l == After(c, f) IN
           /\ l \in Rec
           /\ \/ l = NoCall
              \/ /\ l.at = "files" /\ l.kind = call[c].kind /\ l.cur = call[c].cur
                 /\ l.todo = call[c].todo \ {f} /\ l.held[f] = Unread
                 /\ (\A g \in Files \ {f} : l.held[g] = call[c].held[g])
                 /\ l.late = call[c].late \ {f} /\ l.stayed = call[c].stayed
              \/ /\ l.at = "update" /\ l.kind = "refresh" /\ l.kind = call[c].kind
                 /\ l.cur = call[c].cur /\ call[c].todo \subseteq {f} /\ l.held = NoCall.held
<1> DEFINE rest == call[c].todo \ {f}
           h == [call[c].held EXCEPT ![f] = Unread]
<1>1. h \in [Files -> Contents \cup {Absent, Unread}]
      /\ h[f] = Unread /\ \A g \in Files \ {f} : h[g] = call[c].held[g]
  BY DEF Rec
<1>2. rest \in SUBSET Files /\ call[c].late \ {f} \in SUBSET Files
  BY DEF Rec
<1>3. CASE rest # {}
  <2> DEFINE l == [call[c] EXCEPT !.todo = rest, !.held = h, !.late = call[c].late \ {f}]
  <2>1. After(c, f) = l
    BY <1>3 DEF After
  <2> HIDE DEF h, rest
  <2>2. /\ l \in Rec /\ l.at = call[c].at /\ l.kind = call[c].kind /\ l.cur = call[c].cur
        /\ l.todo = rest /\ l.held = h /\ l.late = call[c].late \ {f} /\ l.stayed = call[c].stayed
    BY <1>1, <1>2 DEF Rec
  <2> HIDE DEF l
  <2> QED BY <1>1, <2>1, <2>2 DEF At, rest
<1>4. CASE rest = {} /\ Is(c, "refresh")
  <2> DEFINE l == [call[c] EXCEPT !.at = "update", !.todo = {}, !.held = h, !.late = {}]
  <2>1. After(c, f) = l
    BY <1>4 DEF After
  <2>2. h = NoCall.held
    BY <1>1, <1>4 DEF NoCall, Shape, Holds
  <2>3. call[c].todo \subseteq {f}
    BY <1>4
  <2> HIDE DEF h, rest
  <2>4. /\ l \in Rec /\ l.at = "update" /\ l.kind = call[c].kind /\ l.cur = call[c].cur /\ l.held = h
    BY <1>1 DEF Rec, Stages
  <2> HIDE DEF l
  <2> QED BY <1>4, <2>1, <2>2, <2>3, <2>4 DEF Is
<1>5. CASE rest = {} /\ ~ Is(c, "refresh")
  BY <1>5, NoCallType DEF After
<1> QED BY <1>3, <1>4, <1>5

LEMMA AfterShape ==
    ASSUME NEW c, NEW f \in Files, call[c] \in Rec, Shape(c), At(c, "files"), call'[c] = After(c, f)
    PROVE  Shape(c)'
BY AfterIs DEF Shape, Holds, At, Is, NoCall

LEMMA AfterOK ==
    ASSUME NEW c, NEW f \in Files, call[c] \in Rec, Shape(c), At(c, "files"), call'[c] = After(c, f),
           NEW g \in Files, CallOK(c, g), UNCHANGED <<head, trail>>, g # f => row'[g] = row[g],
           NEW k, k = call[c].cur, g = f /\ Is(c, "refresh") => Vouches(k, f)'
    PROVE  CallOK(c, g)'
<1>1. CASE call'[c] = NoCall
  BY <1>1, EndedOK
<1>2. CASE /\ call'[c].at = "files" /\ call'[c].kind = call[c].kind /\ call'[c].cur = call[c].cur
           /\ call'[c].todo = call[c].todo \ {f} /\ call'[c].held[f] = Unread
           /\ (\A x \in Files \ {f} : call'[c].held[x] = call[c].held[x])
           /\ call'[c].late = call[c].late \ {f} /\ call'[c].stayed = call[c].stayed
  <2>1. CASE g = f
    BY <1>2, <2>1 DEF CallOK, Dealt, Holds, At, Is, Vouches, OnDisk
  <2>2. CASE g # f
    BY <1>2, <2>2 DEF CallOK, HeldOK, Dealt, Holds, At, Is, Vouches, OnDisk
  <2> QED BY <2>1, <2>2
<1>3. CASE /\ call'[c].at = "update" /\ call'[c].kind = "refresh" /\ call'[c].kind = call[c].kind
           /\ call'[c].cur = call[c].cur /\ call[c].todo \subseteq {f}
           /\ call'[c].held = NoCall.held
  BY <1>3 DEF CallOK, Dealt, Holds, At, Is, Vouches, OnDisk, NoCall
<1> QED BY <1>1, <1>2, <1>3, AfterIs

LEMMA SaveStep ==
    ASSUME IInv, NEW c \in Calls, NEW f \in Files, Save(c, f) PROVE IInv'
<1> DEFINE l == After(c, f)
<1>1. /\ At(c, "files") /\ Holds(c, f) /\ row' = [row EXCEPT ![f] = call[c].held[f]]
      /\ call' = [d \in Calls |-> IF d = c THEN l ELSE Outdate(c, {f})[d]]
      /\ lapsed' = lapsed \cup (call[c].late \cap {f}) /\ UNCHANGED <<git, registry, mishaps>>
  BY DEF Save
<1>2. call[c] \in Rec /\ Shape(c)
  BY DEF IInv, Types
<1>3. call[c].held[f] \in Contents \cup {Absent}
  BY <1>1, <1>2 DEF Rec, Holds
<1>4. /\ row' \in [Files -> Contents \cup {Absent}] /\ row'[f] = call[c].held[f]
      /\ \A g \in Files \ {f} : row'[g] = row[g]
  BY <1>1, <1>3 DEF IInv, Types
<1>5. l \in Rec
  BY <1>1, <1>2, AfterIs
<1> HIDE DEF l
<1>6. call'[c] = l
  BY <1>1
<1>7. Shape(c)'
  BY <1>1, <1>2, <1>6, AfterShape DEF l
<1>8. ASSUME NEW g \in Files \ lapsed', CallOK(c, g), FileOK(g)' PROVE CallOK(c, g)'
  <2>1. UNCHANGED <<head, trail>>
    BY <1>1 DEF git
  <2> PICK k : k = call[c].cur
    OBVIOUS
  <2>2. ASSUME g = f, Is(c, "refresh") PROVE Vouches(k, f)'
    <3>1. HeldOK(c, f) /\ Tree[k][f] \in trail[f]
      BY <1>1, <1>2, <1>8, <2>2 DEF CallOK, Shape, At
    <3> QED BY <1>4, <2>1, <2>2, <3>1 DEF HeldOK, Vouches, OnDisk
  <2> QED BY <1>1, <1>2, <1>4, <1>6, <1>8, <2>1, <2>2, AfterOK DEF l
<1> QED BY <1>1, <1>4, <1>5, <1>7, <1>8, SaveStepOf

LEMMA FileFailsStep ==
    ASSUME IInv, NEW c \in Calls, NEW f \in Files, FileFails(c, f) PROVE IInv'
<1> DEFINE l == After(c, f)
<1>1. /\ At(c, "files") /\ call' = [call EXCEPT ![c] = l] /\ lapsed' = lapsed \cup {f}
      /\ UNCHANGED <<git, row, registry>>
  BY DEF FileFails
<1>2. call[c] \in Rec /\ Shape(c)
  BY DEF IInv, Types
<1>3. l \in Rec
  BY <1>1, <1>2, AfterIs
<1> HIDE DEF l
<1>4. call'[c] = l
  BY <1>1 DEF IInv, Types
<1>5. Shape(c)'
  BY <1>1, <1>2, <1>4, AfterShape DEF l
<1>6. ASSUME NEW g \in Files \ lapsed', CallOK(c, g) PROVE CallOK(c, g)'
  <2> PICK k : k = call[c].cur
    OBVIOUS
  <2>1. g # f
    BY <1>1, <1>6
  <2> QED BY <1>1, <1>2, <1>4, <1>6, <2>1, AfterOK DEF l, git
<1>7. mishaps' \in 0..MaxMishaps
  BY FreshnessAssumption DEF FileFails, Mishap, IInv, Types
<1>8. lapsed \subseteq lapsed' /\ lapsed' \subseteq Files
  BY <1>1 DEF IInv, Types
<1> QED BY <1>1, <1>3, <1>5, <1>6, <1>7, <1>8, CallStep DEF registry, IInv, Types

-----------------------------------------------------------------------------
(* index_folder *)

LEMMA BeginFolderStep ==
    ASSUME IInv, NEW c \in Calls, BeginFolder(c) PROVE IInv'
<1> DEFINE l == [call[c] EXCEPT !.at = "walk", !.kind = "folder", !.todo = Files]
<1> call[c] \in Rec
  BY DEF IInv, Types
<1>1. call' = [call EXCEPT ![c] = l]
  BY DEF BeginFolder
<1>2. call'[c] = l
  BY DEF BeginFolder, IInv, Types
<1>3. l \in Rec /\ l.at = "walk" /\ l.kind = "folder" /\ l.cur = call[c].cur
      /\ l.held = call[c].held /\ l.todo = Files
  BY DEF Rec, Stages
<1> HIDE DEF l
<1>4. call[c] = NoCall
  BY DEF BeginFolder, IInv, Shape
<1>5. Shape(c)'
  BY <1>2, <1>3, <1>4 DEF Shape, Holds, At, Is, NoCall
<1>6. ASSUME NEW g \in Files PROVE CallOK(c, g)'
  BY <1>2, <1>3, <1>4 DEF CallOK, Dealt, Holds, At, Is, NoCall
<1> QED BY <1>1, <1>3, <1>5, <1>6, CallStep DEF BeginFolder, registry, IInv, Types

\* A walk takes x for f: what is on disk, unless f lapses.
LEMMA WalkStepOf ==
    ASSUME IInv, NEW c \in Calls, NEW f \in Files, NEW x \in Contents \cup {Absent},
           At(c, "walk"), UNCHANGED <<git, row, registry>>, mishaps' \in 0..MaxMishaps,
           call' = [call EXCEPT ![c].held[f] = x, ![c].todo = @ \ {f}],
           lapsed' \in {lapsed, lapsed \cup {f}}, x = OnDisk(f) \/ f \in lapsed'
    PROVE  IInv'
<1> DEFINE h == [call[c].held EXCEPT ![f] = x]
           rest == call[c].todo \ {f}
           l == [call[c] EXCEPT !.held = h, !.todo = rest]
<1> call[c] \in Rec
  BY DEF IInv, Types
<1>1. call' = [call EXCEPT ![c] = l]
  BY DEF IInv, Types
<1>2. call'[c] = l
  BY <1>1 DEF IInv, Types
<1>3. h \in [Files -> Contents \cup {Absent, Unread}] /\ h[f] = x
      /\ \A g \in Files \ {f} : h[g] = call[c].held[g]
  BY DEF Rec
<1>4. rest \in SUBSET Files
  BY DEF Rec
<1> HIDE DEF h, rest
<1>5. /\ l \in Rec /\ l.at = call[c].at /\ l.kind = call[c].kind /\ l.cur = call[c].cur
      /\ l.held = h /\ l.todo = rest /\ l.miss = call[c].miss /\ l.late = call[c].late
      /\ l.stayed = call[c].stayed
  BY <1>3, <1>4 DEF Rec
<1> HIDE DEF l
<1>6. Shape(c) /\ UNCHANGED <<head, row, last, trail>> /\ x # Unread
  BY FreshnessAssumption DEF git, registry, IInv
<1>7. Shape(c)'
  <2>1. \A g \in Files : g \notin rest => h[g] # Unread
    BY <1>3, <1>6 DEF Shape, Holds, rest
  <2> QED BY <1>2, <1>5, <1>6, <2>1 DEF Shape, Holds, At, Is
<1>8. ASSUME NEW g \in Files \ lapsed', FileOK(g), CallOK(c, g) PROVE CallOK(c, g)'
  <2>1. Holds(c, g)' => HeldOK(c, g)'
    <3>1. CASE g = f
      BY <1>2, <1>3, <1>5, <1>6, <1>8, <3>1, ReadOK
    <3>2. CASE g # f
      BY <1>2, <1>3, <1>5, <1>6, <1>8, <3>2 DEF CallOK, HeldOK, Holds, At, Is, OnDisk
    <3> QED BY <3>1, <3>2
  <2> QED BY <1>2, <1>5, <1>6, <1>8, <2>1 DEF CallOK, Dealt, At, Is, Vouches, OnDisk
<1>9. lapsed \subseteq lapsed' /\ lapsed' \subseteq Files
  BY DEF IInv, Types
<1> QED BY <1>1, <1>5, <1>7, <1>8, <1>9, CallStep DEF registry, IInv, Types

LEMMA WalkStep ==
    ASSUME IInv, NEW c \in Calls, NEW f \in Files, Walk(c, f) PROVE IInv'
<1> PICK x : x = OnDisk(f)
  OBVIOUS
<1>1. x \in Contents \cup {Absent} /\ mishaps' \in 0..MaxMishaps
  BY FreshnessAssumption DEF Walk, OnDisk, IInv, Types
<1> QED BY <1>1, WalkStepOf DEF Walk

LEMMA WalkMissesStep ==
    ASSUME IInv, NEW c \in Calls, NEW f \in Files, WalkMisses(c, f) PROVE IInv'
<1>1. mishaps' \in 0..MaxMishaps
  BY FreshnessAssumption DEF WalkMisses, Mishap, IInv, Types
<1> QED BY <1>1, WalkStepOf DEF WalkMisses

LEMMA SaveWalkStep ==
    ASSUME IInv, NEW c \in Calls, SaveWalk(c) PROVE IInv'
<1> DEFINE l == [call[c] EXCEPT !.at = "saved", !.held = NoCall.held, !.late = {}]
<1>1. /\ At(c, "walk") /\ call[c].todo = {} /\ row' = call[c].held
      /\ call' = [d \in Calls |-> IF d = c THEN l ELSE Outdate(c, Files)[d]]
      /\ lapsed' = lapsed \cup call[c].late /\ UNCHANGED <<git, registry, mishaps>>
  BY DEF SaveWalk
<1>2. call[c] \in Rec /\ Shape(c)
  BY DEF IInv, Types
<1>3. \A f \in Files : Holds(c, f)
  BY <1>1, <1>2 DEF Shape
<1>4. call[c].held \in [Files -> Contents \cup {Absent}]
  <2>1. call[c].held \in [Files -> Contents \cup {Absent, Unread}]
    BY <1>2 DEF Rec
  <2> QED BY <1>3, <2>1 DEF Holds
<1>5. /\ l \in Rec /\ l.at = "saved" /\ l.kind = call[c].kind /\ l.cur = call[c].cur
      /\ l.held = NoCall.held /\ l.stayed = call[c].stayed
  <2>1. NoCall.held \in [Files -> Contents \cup {Absent, Unread}]
    BY DEF NoCall
  <2> QED BY <1>2, <2>1 DEF Rec, Stages
<1> HIDE DEF l
<1>6. call'[c] = l
  BY <1>1
<1>7. Shape(c)'
  BY <1>1, <1>2, <1>5, <1>6 DEF Shape, Holds, At, Is, NoCall
<1>8. ASSUME NEW f \in Files \ lapsed', CallOK(c, f) PROVE CallOK(c, f)'
  <2>1. HeldOK(c, f) /\ (Is(c, "refresh") => Tree[call[c].cur][f] \in trail[f])
    BY <1>1, <1>2, <1>3, <1>8 DEF CallOK, Shape, At
  <2>2. row'[f] = call[c].held[f] /\ UNCHANGED <<head, trail>>
    BY <1>1 DEF git
  <2> QED BY <1>1, <1>5, <1>6, <1>8, <2>1, <2>2
      DEF CallOK, HeldOK, Dealt, Holds, At, Is, NoCall, Vouches, OnDisk
<1>9. lapsed' = lapsed \cup (call[c].late \cap Files)
  BY <1>1, <1>2 DEF Rec
<1>10. \A f \in Files : Holds(c, f) /\ row'[f] = call[c].held[f]
  BY <1>1, <1>3
<1> QED BY <1>1, <1>4, <1>5, <1>7, <1>8, <1>9, <1>10, SaveStepOf

LEMMA NotWalkedStep ==
    ASSUME IInv, NEW c \in Calls, NotWalked(c) PROVE IInv'
<1> DEFINE m == [NoCall EXCEPT !.at = "update", !.cur = call[c].cur, !.miss = "walk",
                               !.stayed = call[c].stayed]
           l == IF Is(c, "refresh") THEN m ELSE NoCall
<1> call[c] \in Rec
  BY DEF IInv, Types
<1>1. call' = [call EXCEPT ![c] = l]
  BY DEF NotWalked
<1>2. call'[c] = l
  BY <1>1 DEF IInv, Types
<1>3. m \in Rec /\ m.at = "update" /\ m.cur = call[c].cur /\ m.miss = "walk" /\ m.held = NoCall.held
      /\ m.kind = "refresh"
  <2>1. NoCall.kind = "refresh"
    BY DEF NoCall
  <2> QED BY <2>1, NoCallType DEF Rec, Stages
<1> HIDE DEF m
<1>4. /\ At(c, "walk") /\ Shape(c) /\ UNCHANGED <<head, row, last, trail>>
  BY DEF NotWalked, git, registry, IInv
<1>5. l \in Rec
  BY <1>3, NoCallType
<1>6. Shape(c)'
  <2>1. CASE l = NoCall
    BY <1>2, <2>1 DEF Shape, Holds, At, Is, NoCall
  <2>2. CASE l = m /\ Is(c, "refresh")
    BY <1>2, <1>3, <1>4, <2>2 DEF Shape, Holds, At, Is, NoCall
  <2> QED BY <2>1, <2>2
<1>7. ASSUME NEW f \in Files, CallOK(c, f) PROVE CallOK(c, f)'
  <2>1. CASE l = NoCall
    BY <1>2, <2>1, EndedOK
  <2>2. CASE l = m
    BY <1>2, <1>3, <1>4, <1>7, <2>2 DEF CallOK, Dealt, Holds, At, Is, NoCall
  <2> QED BY <2>1, <2>2
<1>8. mishaps' \in 0..MaxMishaps
  BY FreshnessAssumption DEF NotWalked, Mishap, IInv, Types
<1> HIDE DEF l
<1> QED BY <1>1, <1>5, <1>6, <1>7, <1>8, CallStep DEF NotWalked, registry, IInv, Types

LEMMA ThrowsStep ==
    ASSUME IInv, NEW c \in Calls, Throws(c) PROVE IInv'
BY EndStep, FreshnessAssumption DEF Throws, Mishap, registry, IInv, Types

LEMMA RegisterStep ==
    ASSUME IInv, NEW c \in Calls, Register(c) PROVE IInv'
<1> DEFINE l == [call[c] EXCEPT !.at = "registered"]
<1> call[c] \in Rec
  BY DEF IInv, Types
<1>1. call' = [call EXCEPT ![c] = l]
  BY DEF Register
<1>2. call'[c] = l
  BY <1>1 DEF IInv, Types
<1>3. /\ l \in Rec /\ l.at = "registered" /\ l.kind = call[c].kind /\ l.cur = call[c].cur
      /\ l.held = call[c].held /\ l.stayed = call[c].stayed
  BY DEF Rec, Stages
<1> HIDE DEF l
<1>4. /\ At(c, "saved") /\ Shape(c) /\ last' = NoCommit /\ UNCHANGED <<head, row, trail>>
  BY DEF Register, git, IInv
<1>5. Shape(c)'
  BY <1>2, <1>3, <1>4 DEF Shape, Holds, At, Is, NoCall
<1>6. ASSUME NEW f \in Files, CallOK(c, f) PROVE CallOK(c, f)'
  BY <1>2, <1>3, <1>4, <1>6 DEF CallOK, Dealt, Holds, At, Is, NoCall, Shape, Vouches, OnDisk
<1> QED BY <1>1, <1>3, <1>4, <1>5, <1>6, CallStep DEF Register, IInv, Types

LEMMA AskHeadStep ==
    ASSUME IInv, NEW c \in Calls, AskHead(c) PROVE IInv'
<1> DEFINE l == [call[c] EXCEPT !.at = "stamping", !.from = head]
<1> call[c] \in Rec
  BY DEF IInv, Types
<1>1. call' = [call EXCEPT ![c] = l]
  BY DEF AskHead
<1>2. call'[c] = l
  BY <1>1 DEF IInv, Types
<1>3. /\ l \in Rec /\ l.at = "stamping" /\ l.kind = call[c].kind /\ l.cur = call[c].cur
      /\ l.held = call[c].held /\ l.from = head
  BY DEF Rec, Stages, IInv, Types
<1> HIDE DEF l
<1>4. /\ At(c, "registered") /\ Shape(c) /\ UNCHANGED <<head, row, last, trail>>
      /\ lapsed' = IF call[c].stayed THEN lapsed ELSE Files
  BY DEF AskHead, git, registry, IInv
<1>5. Shape(c)'
  BY <1>2, <1>3, <1>4, FreshnessAssumption DEF Shape, Holds, At, Is, NoCall, IInv, Types
<1>6. ASSUME NEW f \in Files \ lapsed', FileOK(f), CallOK(c, f) PROVE CallOK(c, f)'
  <2>1. call[c].stayed
    BY <1>4, <1>6
  <2>2. Vouches(head, f)
    BY <1>4, <1>6, <2>1 DEF CallOK, FileOK, Vouches, OnDisk, At
  <2> QED BY <1>2, <1>3, <1>4, <1>6, <2>2
      DEF CallOK, Dealt, Holds, At, Is, NoCall, Shape, Vouches, OnDisk
<1>7. lapsed \subseteq lapsed' /\ lapsed' \subseteq Files
  BY <1>4 DEF IInv, Types
<1> QED BY <1>1, <1>3, <1>5, <1>6, <1>7, CallStep DEF AskHead, registry, IInv, Types

\* The folder is indexed, and k or nothing was recorded.
LEMMA IndexedStep ==
    ASSUME IInv, NEW c \in Calls, Indexed(c), At(c, "registered") \/ At(c, "stamping"),
           UNCHANGED <<git, row, checked, lapsed>>, mishaps' \in 0..MaxMishaps,
           last' \in Commits \cup {NoCommit},
           last' = last \/ \A f \in Files \ lapsed' : Vouches(last, f)'
    PROVE  IInv'
<1>1. Shape(c) /\ call[c] \in Rec /\ UNCHANGED <<head, row, trail>>
  BY DEF git, IInv, Types
<1>2. CASE ~ Is(c, "refresh")
  BY <1>2, EndStep DEF Indexed, End, IInv, Types
<1>3. CASE Is(c, "refresh")
  <2> DEFINE l == [call[c] EXCEPT !.at = "update"]
  <2>1. call' = [call EXCEPT ![c] = l]
    BY <1>3 DEF Indexed
  <2>2. call'[c] = l
    BY <2>1 DEF IInv, Types
  <2>3. /\ l \in Rec /\ l.at = "update" /\ l.kind = call[c].kind /\ l.cur = call[c].cur
        /\ l.held = call[c].held
    BY <1>1 DEF Rec, Stages
  <2> HIDE DEF l
  <2>4. Shape(c)'
    BY <1>1, <1>3, <2>2, <2>3 DEF Shape, Holds, At, Is, NoCall
  <2>5. ASSUME NEW f \in Files, CallOK(c, f) PROVE CallOK(c, f)'
    BY <1>1, <1>3, <2>2, <2>3, <2>5
    DEF CallOK, Dealt, Holds, At, Is, NoCall, Shape, Vouches, OnDisk
  <2> QED BY <2>1, <2>3, <2>4, <2>5, CallStep DEF IInv, Types
<1> QED BY <1>2, <1>3

LEMMA StampStep ==
    ASSUME IInv, NEW c \in Calls, Stamp(c) PROVE IInv'
<1> PICK k : k = call[c].from
  OBVIOUS
<1>1. /\ At(c, "stamping") /\ Shape(c) /\ call[c] \in Rec /\ last' = k /\ k \in Commits
      /\ UNCHANGED <<head, row, trail, lapsed>>
  BY DEF Stamp, git, IInv, Types, Shape, At, Rec
<1>2. \A f \in Files \ lapsed' : Vouches(last, f)'
  <2>1. ASSUME NEW f \in Files \ lapsed PROVE Vouches(k, f)
    BY <1>1, <2>1 DEF IInv, Sound, CallOK
  <2> QED BY <1>1, <2>1 DEF Vouches, OnDisk
<1> QED BY <1>1, <1>2, IndexedStep DEF Stamp, IInv, Types

LEMMA StampFailsStep ==
    ASSUME IInv, NEW c \in Calls, StampFails(c) PROVE IInv'
<1>1. mishaps' \in 0..MaxMishaps
  BY FreshnessAssumption DEF StampFails, Mishap, IInv, Types
<1> QED BY <1>1, IndexedStep DEF StampFails, registry, IInv, Types

-----------------------------------------------------------------------------
(* git, time and crashes *)

\* A content that is new to a file makes every remembered one a stranger to it.
LEMMA MovedFile ==
    ASSUME NEW f, FileOK(f), UNCHANGED <<row, last>>, trail'[f] = {OnDisk(f)'} \cup trail[f],
           OnDisk(f)' = OnDisk(f) \/ OnDisk(f)' \notin trail[f]
    PROVE  FileOK(f)'
BY DEF FileOK, Vouches, OnDisk

LEMMA MovedVouches ==
    ASSUME NEW k, NEW f, Vouches(k, f), row' = row, trail'[f] = {OnDisk(f)'} \cup trail[f],
           OnDisk(f)' = OnDisk(f) \/ OnDisk(f)' \notin trail[f]
    PROVE  Vouches(k, f)'
BY DEF Vouches, OnDisk

LEMMA MovedCall ==
    ASSUME NEW c, NEW f \in Files, CallOK(c, f), FileOK(f), Shape(c), row' = row,
           trail'[f] = {OnDisk(f)'} \cup trail[f],
           OnDisk(f)' = OnDisk(f) \/ OnDisk(f)' \notin trail[f],
           call'[c].at = call[c].at, call'[c].kind = call[c].kind, call'[c].from = call[c].from,
           call'[c].cur = call[c].cur, call'[c].todo = call[c].todo, call'[c].held = call[c].held,
           call'[c].late = call[c].late, call'[c].miss = call[c].miss, call'[c].stayed = FALSE
    PROVE  CallOK(c, f)'
<1>1. ASSUME Holds(c, f) PROVE HeldOK(c, f)'
  <2>1. Is(c, "refresh") => Tree[call[c].cur][f] \in trail[f]
    BY <1>1 DEF CallOK, Shape, Holds, At, Is, NoCall
  <2>2. HeldOK(c, f) /\ row[f] \in trail[f]
    BY <1>1 DEF CallOK, FileOK
  <2> QED BY <2>1, <2>2 DEF HeldOK, OnDisk, At, Is
<1> PICK from, cur : from = call[c].from /\ cur = call[c].cur
  OBVIOUS
<1>2. (Vouches(from, f) => Vouches(from, f)') /\ (Vouches(cur, f) => Vouches(cur, f)')
  BY MovedVouches
<1>3. /\ Vouches(from, f)' <=> Vouches(call[c].from, f)'
      /\ Vouches(cur, f)' <=> Vouches(call[c].cur, f)'
      /\ Vouches(from, f) <=> Vouches(call[c].from, f)
      /\ Vouches(cur, f) <=> Vouches(call[c].cur, f)
  BY DEF Vouches
<1> QED BY <1>1, <1>2, <1>3 DEF CallOK, Dealt, Holds, At, Is

LEMMA CheckoutStep ==
    ASSUME IInv, NEW h \in Commits, Checkout(h) PROVE IInv'
<1> DEFINE m(c) == [call[c] EXCEPT !.stayed = At(c, "idle")]
<1>1. /\ call' = [c \in Calls |-> m(c)] /\ head' = h /\ UNCHANGED <<row, last, checked, mishaps>>
      /\ moves' \in 0..MaxMoves
  BY FreshnessAssumption DEF Checkout, registry, IInv, Types
<1>2. ASSUME NEW c \in Calls
      PROVE /\ call'[c] \in Rec /\ call'[c].stayed = At(c, "idle")
            /\ call'[c].at = call[c].at /\ call'[c].kind = call[c].kind /\ call'[c].from = call[c].from
            /\ call'[c].cur = call[c].cur /\ call'[c].todo = call[c].todo
            /\ call'[c].held = call[c].held /\ call'[c].late = call[c].late
            /\ call'[c].miss = call[c].miss
  <2>1. call'[c] = m(c) /\ call[c] \in Rec /\ At(c, "idle") \in BOOLEAN
    BY <1>1 DEF IInv, Types, At
  <2> QED BY <2>1 DEF Rec
<1>3. ASSUME NEW c \in Calls, At(c, "idle") PROVE call'[c] = NoCall
  <2>1. call[c] = NoCall
    BY <1>3 DEF IInv, Shape
  <2>2. call'[c] = m(c) /\ At(c, "idle") = TRUE
    BY <1>1, <1>3 DEF At
  <2>3. [NoCall EXCEPT !.stayed = TRUE] = NoCall
    <3>1. NoCall.stayed = TRUE
      BY DEF NoCall
    <3> QED BY <3>1, NoCallType DEF Rec
  <2> QED BY <2>1, <2>2, <2>3
<1>4. ASSUME NEW c \in Calls PROVE Shape(c)'
  <2>1. Shape(c)
    BY DEF IInv
  <2> QED BY <1>2, <1>3, <2>1 DEF Shape, Holds, At, Is
<1>5. \A f \in Files : OnDisk(f)' = Tree[h][f] /\ Tree[h][f] \in Contents \cup {Absent}
  BY <1>1, FreshnessAssumption DEF OnDisk
<1>6. trail' = [f \in Files |-> {Tree[h][f]} \cup IF Quiet THEN {row[f]} ELSE trail[f]]
  BY DEF Checkout
<1>7. Types'
  <2>1. call' \in [Calls -> Rec]
    BY <1>1, <1>2
  <2>2. \A f \in Files : row[f] \in Contents \cup {Absent} /\ trail[f] \subseteq Contents \cup {Absent}
    BY DEF IInv, Types
  <2>3. trail' \in [Files -> SUBSET (Contents \cup {Absent})]
    BY <1>5, <1>6, <2>2
  <2>4. lapsed' \subseteq Files
    BY DEF Checkout, IInv, Types
  <2> QED BY <1>1, <2>1, <2>3, <2>4 DEF IInv, Types
<1>8. ASSUME NEW f \in Files \ lapsed' PROVE FileOK(f)' /\ \A c \in Calls : CallOK(c, f)'
  <2>1. FileOK(f) /\ \A c \in Calls : CallOK(c, f)
    BY <1>8 DEF Checkout, IInv, Sound
  <2>2. CASE Quiet
    <3>1. \A c \in Calls : CallOK(c, f)'
      BY <1>3, <2>2, EndedOK DEF Quiet
    <3>2. FileOK(f)'
      BY <1>1, <1>5, <1>6, <2>1, <2>2 DEF Quiet, FileOK, Vouches, OnDisk
    <3> QED BY <3>1, <3>2
  <2>3. CASE ~ Quiet
    <3>1. trail'[f] = {OnDisk(f)'} \cup trail[f]
      BY <1>5, <1>6, <2>3
    <3>2. OnDisk(f)' = OnDisk(f) \/ OnDisk(f)' \notin trail[f]
      BY <1>5, <1>8, <2>3 DEF Checkout
    <3>3. FileOK(f)'
      BY <1>1, <2>1, <3>1, <3>2, MovedFile
    <3>4. ASSUME NEW c \in Calls PROVE CallOK(c, f)'
      <4>1. CASE At(c, "idle")
        BY <1>3, <4>1, EndedOK
      <4>2. CASE ~ At(c, "idle")
        <5>1. Shape(c) /\ CallOK(c, f) /\ call'[c].stayed = FALSE
          BY <1>2, <2>1, <4>2 DEF IInv
        <5> HIDE DEF m
        <5> QED BY <1>1, <1>2, <2>1, <3>1, <3>2, <5>1, MovedCall
      <4> QED BY <4>1, <4>2
    <3> QED BY <3>3, <3>4
  <2> QED BY <2>2, <2>3
<1>9. Sound'
  BY <1>8 DEF Sound
<1> QED BY <1>4, <1>7, <1>9 DEF IInv

\* The calls that did not survive are as if they had not been made.
LEMMA CutStep ==
    ASSUME IInv, UNCHANGED <<git, row, last, lapsed>>, checked' \in BOOLEAN,
           mishaps' \in 0..MaxMishaps, NEW others \in SUBSET Calls,
           call' = [c \in Calls |-> IF c \in others THEN call[c] ELSE NoCall]
    PROVE  IInv'
<1>1. UNCHANGED <<head, row, last, trail, moves, lapsed>>
  BY DEF git
<1>2. \A c \in Calls : call'[c] = call[c] \/ call'[c] = NoCall
  OBVIOUS
<1>3. Types'
  BY <1>1, NoCallType DEF IInv, Types
<1>4. ASSUME NEW c \in Calls PROVE Shape(c)'
  <2>1. CASE call'[c] = call[c]
    BY <2>1, ShapeKeeps DEF IInv
  <2>2. CASE call'[c] = NoCall
    BY <2>2 DEF Shape, Holds, At, Is, NoCall
  <2> QED BY <1>2, <2>1, <2>2
<1>5. ASSUME NEW f \in Files \ lapsed' PROVE FileOK(f)' /\ \A c \in Calls : CallOK(c, f)'
  <2>1. FileOK(f) /\ \A c \in Calls : CallOK(c, f)
    BY <1>1, <1>5 DEF IInv, Sound
  <2>2. FileOK(f)'
    BY <1>1, <2>1 DEF FileOK, Vouches, OnDisk
  <2>3. \A c \in Calls : CallOK(c, f)'
    BY <1>1, <1>2, <2>1, OthersKeep, EndedOK
  <2> QED BY <2>2, <2>3
<1>6. Sound'
  BY <1>5 DEF Sound
<1> QED BY <1>3, <1>4, <1>6 DEF IInv

LEMMA CrashStep ==
    ASSUME IInv, Crash PROVE IInv'
<1>1. checked' \in BOOLEAN /\ mishaps' \in 0..MaxMishaps
  <2>1. Mishap /\ checked' = FALSE
    BY DEF Crash
  <2>2. mishaps \in 0..MaxMishaps
    BY DEF IInv, Types
  <2>3. mishaps' \in 0..MaxMishaps
    BY <2>1, <2>2, FreshnessAssumption DEF Mishap
  <2> QED BY <2>1, <2>3
<1>2. PICK others \in SUBSET {c \in Calls : ~ Is(c, "refresh")} :
        call' = [c \in Calls |-> IF c \in others THEN call[c] ELSE NoCall]
  BY DEF Crash
<1>3. others \in SUBSET Calls
  OBVIOUS
<1> QED BY <1>1, <1>2, <1>3, CutStep DEF Crash

\* Nothing the invariant reads changes but the throttle.
LEMMA IntervalEndsStep ==
    ASSUME IInv, IntervalEnds PROVE IInv'
<1>1. call' = [c \in Calls |-> IF c \in Calls THEN call[c] ELSE NoCall]
  BY DEF IntervalEnds, IInv, Types
<1> QED BY <1>1, CutStep DEF IntervalEnds, IInv, Types

-----------------------------------------------------------------------------

LEMMA InitInv == Init => IInv
<1> SUFFICES ASSUME Init PROVE IInv
  OBVIOUS
<1>1. \A c \in Calls : call[c] = NoCall
  BY DEF Init
<1>2. Tree[First] \in [Files -> Contents \cup {Absent}]
  BY FreshnessAssumption
<1>3. Types
  <2>1. call \in [Calls -> Rec]
    BY NoCallType DEF Init
  <2>2. trail \in [Files -> SUBSET (Contents \cup {Absent})]
    BY <1>2 DEF Init
  <2>3. /\ head \in Commits /\ last \in Commits \cup {NoCommit} /\ checked \in BOOLEAN
        /\ row \in [Files -> Contents \cup {Absent}] /\ lapsed \subseteq Files
    BY <1>2, FreshnessAssumption DEF Init
  <2>4. moves \in 0..MaxMoves /\ mishaps \in 0..MaxMishaps
    BY FreshnessAssumption DEF Init
  <2> QED BY <2>1, <2>2, <2>3, <2>4 DEF Types
<1>4. ASSUME NEW c \in Calls PROVE Shape(c)
  <2>1. call[c] = NoCall /\ NoCall.at = "idle" /\ \A f \in Files : NoCall.held[f] = Unread
    BY <1>1 DEF NoCall
  <2> QED BY <2>1 DEF Shape, Holds, At, Is
<1>5. ASSUME NEW f \in Files PROVE FileOK(f) /\ \A c \in Calls : CallOK(c, f)
  <2>1. FileOK(f)
    BY DEF Init, FileOK, Vouches, OnDisk
  <2>2. \A c \in Calls : CallOK(c, f)
    BY <1>1 DEF CallOK, Dealt, Holds, At, Is, NoCall
  <2> QED BY <2>1, <2>2
<1> QED BY <1>3, <1>4, <1>5 DEF IInv, Sound

LEMMA NextStep == IInv /\ [Next]_vars => IInv'
<1> SUFFICES ASSUME IInv, [Next]_vars PROVE IInv'
  OBVIOUS
<1>1. ASSUME NEW h \in Commits, Checkout(h) PROVE IInv'
  BY <1>1, CheckoutStep
<1>2. ASSUME NEW c \in Calls, Refresh(c) PROVE IInv'
  BY <1>2, BeginStep, RevParseStep, RevParseFailsStep, DiffStep, DiffFailsStep, UpdateStep DEF Refresh
<1>3. ASSUME NEW c \in Calls, IndexFolder(c) PROVE IInv'
  BY <1>3, WalkStep, WalkMissesStep, BeginFolderStep, SaveWalkStep, NotWalkedStep, ThrowsStep,
     RegisterStep, AskHeadStep, StampStep, StampFailsStep DEF IndexFolder
<1>4. ASSUME NEW c \in Calls, NEW f \in Files, IndexFile(c, f) PROVE IInv'
  BY <1>4, BeginFileStep, ReadStep, SaveStep, FileFailsStep DEF IndexFile
<1>5. CASE IntervalEnds
  BY <1>5, IntervalEndsStep
<1>6. CASE Crash
  BY <1>6, CrashStep
<1>7. CASE UNCHANGED vars
  <2>1. call' = [c \in Calls |-> IF c \in Calls THEN call[c] ELSE NoCall]
    BY <1>7 DEF vars, IInv, Types
  <2>2. UNCHANGED <<git, row, last, lapsed>> /\ checked' \in BOOLEAN /\ mishaps' \in 0..MaxMishaps
    BY <1>7 DEF vars, git, IInv, Types
  <2> QED BY <2>1, <2>2, CutStep
<1> QED BY <1>1, <1>2, <1>3, <1>4, <1>5, <1>6, <1>7 DEF Next

LEMMA Invariant == Spec => []IInv
BY InitInv, NextStep, PTL DEF Spec

\* The variables keep their shapes, at any bound on git's moves and on mishaps.
THEOREM TypesHold == Spec => []TypeOK
<1>1. IInv => TypeOK
  BY DEF IInv, Types, TypeOK, Rec, Stages
<1> QED BY <1>1, Invariant, PTL

\* Once the registry names HEAD's commit, the index has every file of it that has
\* not lapsed: for any history, any number of calls of the three kinds under way,
\* however often git moves HEAD under them, reads fail and processes die.
THEOREM FreshIndexed == Spec => []FreshMeansIndexed
<1>1. IInv => FreshMeansIndexed
  <2> SUFFICES ASSUME IInv, last = head, NEW f \in Files \ lapsed, OnDisk(f) # Absent
               PROVE  row[f] = OnDisk(f)
    BY DEF FreshMeansIndexed
  <2>1. Vouches(last, f)
    BY FreshnessAssumption DEF IInv, Types, Sound, FileOK
  <2> QED BY <2>1 DEF Vouches, OnDisk
<1> QED BY <1>1, Invariant, PTL

=============================================================================
