-------------------------- MODULE IndexChildrenProof --------------------------
(***************************************************************************)
(* The safety of index children for any number of requests, runs, roots,   *)
(* options, slots and incremental writes, in three parts: one writer per   *)
(* root; the write barrier, the wish for a watcher and the resident        *)
(* copies; and the gate, which implements a semaphore.                     *)
(***************************************************************************)
EXTENDS IndexChildren, TLAPS, FiniteSetTheorems

Stages == {"unborn", "chained", "parked", "woken", "alive", "closed",
            "untracked", "returned", "adopting", "done"}
Outcomes == {"none", "committed", "completed", "partial", "failed"}

\* The part of TypeOK the argument needs.
Types ==
    /\ run \in [RunIds -> [at : Stages, key : Keys, prev : 0..MaxRuns, watch : BOOLEAN,
                           outcome : Outcomes]]
    /\ byKey \in [Keys -> 0..MaxRuns] /\ tail \in [Roots -> 0..MaxRuns]
    /\ parked \in Seq(RunIds)

Born(i) == ~ At(i, "unborn")

\* A run is in the queue for a slot once, and only while it waits there.
Queue ==
    /\ \A n \in 1..Len(parked) : At(parked[n], "parked")
    /\ \A m, n \in 1..Len(parked) : parked[m] = parked[n] => m = n

\* Runs are numbered in the order they are created.
InOrder == \A i, j \in RunIds : At(i, "unborn") /\ i <= j => At(j, "unborn")

\* p is a run of r no older than j.
Covers(p, r, j) == p \in RunIds /\ Born(p) /\ Root(p) = r /\ j <= p

\* Of two runs of one root the older is done, or the younger still waits for it or
\* for one in between.
Chain ==
    \A i, j \in RunIds :
        Born(i) /\ j < i /\ Root(j) = Root(i)
        => \/ At(j, "done")
           \/ At(i, "chained") /\ run[i].prev < i /\ Covers(run[i].prev, Root(i), j)

\* The tail of a root is no older than any of its runs that is not done.
TailIsLatest ==
    \A j \in RunIds : Born(j) => At(j, "done") \/ Covers(tail[Root(j)], Root(j), j)

IInv == Types /\ Queue /\ InOrder /\ Chain /\ TailIsLatest

-----------------------------------------------------------------------------

\* What a step keeps of a run for the three orders to survive it.
SameBirths == \A j \in RunIds :
    run'[j].key = run[j].key /\ (run'[j].at = "unborn" <=> run[j].at = "unborn")
DoneStays == \A j \in RunIds : run[j].at = "done" => run'[j].at = "done"
ChainedStays == \A j \in RunIds :
    run'[j].prev = run[j].prev /\ (run[j].at = "chained" => run'[j].at = "chained")

LEMMA KeepInOrder ==
    ASSUME InOrder, SameBirths
    PROVE InOrder'
BY DEF InOrder, SameBirths, At

LEMMA KeepTail ==
    ASSUME TailIsLatest, SameBirths, DoneStays, tail' = tail
    PROVE TailIsLatest'
<1> SUFFICES ASSUME NEW j \in RunIds, Born(j)'
            PROVE At(j, "done")' \/ Covers(tail[Root(j)], Root(j), j)'
  BY DEF TailIsLatest, Root
<1>1. Born(j) /\ Root(j)' = Root(j)
  BY DEF SameBirths, Born, At, Root
<1>2. At(j, "done") \/ Covers(tail[Root(j)], Root(j), j)
  BY <1>1 DEF TailIsLatest
<1>3. CASE At(j, "done")
  BY <1>3 DEF DoneStays, At
<1>4. CASE Covers(tail[Root(j)], Root(j), j)
  BY <1>1, <1>4 DEF Covers, SameBirths, Born, At, Root
<1> QED BY <1>2, <1>3, <1>4

LEMMA KeepChain ==
    ASSUME Chain, SameBirths, DoneStays, ChainedStays
    PROVE Chain'
<1> SUFFICES ASSUME NEW i \in RunIds, NEW j \in RunIds,
                    Born(i)', j < i, Root(j)' = Root(i)', ~ At(j, "done")'
            PROVE At(i, "chained")' /\ run'[i].prev < i /\ Covers(run[i].prev, Root(i), j)'
  BY DEF Chain
<1>1. Born(i) /\ Root(j) = Root(i) /\ ~ At(j, "done") /\ Root(i)' = Root(i)
  BY DEF SameBirths, DoneStays, Born, At, Root
<1>2. At(i, "chained") /\ run[i].prev < i /\ Covers(run[i].prev, Root(i), j)
  BY <1>1 DEF Chain
<1>3. run'[i].prev = run[i].prev /\ At(i, "chained")'
  BY <1>2 DEF ChainedStays, At
<1> QED BY <1>1, <1>2, <1>3 DEF Covers, SameBirths, Born, At, Root

-----------------------------------------------------------------------------

LEMMA InitIInv == Init => IInv
<1> SUFFICES ASSUME Init PROVE IInv
  OBVIOUS
<1> USE ChildrenAssumption DEF Init
<1>1. \A i \in RunIds : run[i] = Unborn /\ run[i].at = "unborn"
  BY DEF Unborn
<1>2. Types
  <2>1. Unborn.key \in Keys
    BY DEF Unborn
  <2>2. Unborn \in [at : Stages, key : Keys, prev : 0..MaxRuns, watch : BOOLEAN,
                    outcome : Outcomes]
    BY <2>1 DEF Unborn, Stages, Outcomes, NoRun
  <2> QED BY <2>2 DEF Types, NoRun
<1>3. Queue
  BY DEF Queue
<1>4. InOrder /\ Chain /\ TailIsLatest
  BY <1>1 DEF InOrder, Chain, TailIsLatest, Born, At
<1> QED BY <1>2, <1>3, <1>4 DEF IInv


\* The actions in whose wake nothing changes for the three orders.
LEMMA Quiet ==
    ASSUME IInv, Types', Queue', SameBirths, DoneStays, ChainedStays, tail' = tail
    PROVE IInv'
BY KeepInOrder, KeepTail, KeepChain DEF IInv

\* One run moves on, past "chained" and not from "done".
LEMMA Move ==
    ASSUME Types, NEW i \in RunIds, NEW s \in Stages \ {"unborn", "chained"}, Go(i, s),
           run[i].at \notin {"unborn", "chained", "done"}
    PROVE /\ run' \in [RunIds -> [at : Stages, key : Keys, prev : 0..MaxRuns, watch : BOOLEAN,
                                  outcome : Outcomes]]
          /\ SameBirths /\ DoneStays /\ ChainedStays
          /\ run'[i].at = s /\ \A j \in RunIds \ {i} : run'[j] = run[j]
BY DEF Types, Go, SameBirths, DoneStays, ChainedStays

\* A queue that did not change survives if no run in it moved.
LEMMA KeepQueue ==
    ASSUME Types, Queue, parked' = parked,
           \A j \in RunIds : run[j].at = "parked" => run'[j].at = "parked"
    PROVE Queue'
<1> SUFFICES ASSUME NEW n \in 1..Len(parked) PROVE run'[parked[n]].at = "parked"
  BY DEF Queue, At
<1>1. parked[n] \in RunIds
  BY DEF Types
<1>2. run[parked[n]].at = "parked"
  BY DEF Queue, At
<1> QED BY <1>1, <1>2

LEMMA JoinStep ==
    ASSUME IInv, NEW q \in Requests, NEW k \in Keys, NEW w \in BOOLEAN, Join(q, k, w)
    PROVE IInv'
<1> USE DEF IInv
<1>1. byKey[k] \in RunIds
  BY DEF Join, Types, RunIds, NoRun
<1>2. Types' /\ SameBirths /\ DoneStays /\ ChainedStays
  <2>1. PICK b \in BOOLEAN : run' = [run EXCEPT ![byKey[k]].watch = b]
    BY <1>1 DEF Join, Types
  <2>2. Types'
    <3>1. run' \in [RunIds -> [at : Stages, key : Keys, prev : 0..MaxRuns, watch : BOOLEAN,
                               outcome : Outcomes]]
      BY <1>1, <2>1 DEF Types
    <3> QED BY <3>1 DEF Join, Types, slots
  <2>3. SameBirths /\ DoneStays /\ ChainedStays
    BY <1>1, <2>1 DEF Types, SameBirths, DoneStays, ChainedStays
  <2> QED BY <2>2, <2>3
<1>3. Queue'
  <2>1. \A j \in RunIds : run'[j].at = run[j].at
    BY <1>1 DEF Join, Types
  <2> QED BY <2>1, KeepQueue DEF Join, slots
<1> QED BY <1>2, <1>3, Quiet DEF Join

LEMMA ResumeStep ==
    ASSUME IInv, NEW i \in RunIds, Resume(i) \/ ChildClose(i) \/ Untrack(i) \/ Adopt(i) \/ Adopted(i)
    PROVE IInv'
<1> USE DEF IInv
<1> DEFINE Typed == run' \in [RunIds -> [at : Stages, key : Keys, prev : 0..MaxRuns,
                                        watch : BOOLEAN, outcome : Outcomes]]
<1>1. /\ Typed /\ SameBirths /\ DoneStays /\ ChainedStays
      /\ run[i].at # "parked" /\ \A j \in RunIds \ {i} : run'[j] = run[j]
  <2>1. CASE Resume(i)
    <3>1. Go(i, "alive") /\ run[i].at = "woken"
      BY <2>1 DEF Resume, Spawn, At
    <3>2. "alive" \in Stages \ {"unborn", "chained"}
      BY DEF Stages
    <3> QED BY <3>1, <3>2, Move
  <2>2. CASE ChildClose(i)
    <3>1. PICK o \in {"completed", "partial", "failed"} :
              run' = [run EXCEPT ![i].at = "closed", ![i].outcome = o]
      BY <2>2 DEF ChildClose
    <3>2. run[i].at = "alive"
      BY <2>2 DEF ChildClose, Alive, At
    <3>3. "closed" \in Stages /\ o \in Outcomes
      BY DEF Stages, Outcomes
    <3>4. Typed /\ \A j \in RunIds \ {i} : run'[j] = run[j]
      BY <3>1, <3>3 DEF Types
    <3>5. /\ run'[i].at = "closed" /\ run'[i].key = run[i].key
          /\ run'[i].prev = run[i].prev
      BY <3>1 DEF Types
    <3> QED BY <3>2, <3>4, <3>5 DEF SameBirths, DoneStays, ChainedStays
  <2>3. CASE Untrack(i)
    BY <2>3, Move DEF Untrack, At, Stages
  <2>4. CASE Adopt(i)
    <3>1. PICK s \in {"adopting", "done"} : Go(i, s)
      BY <2>4 DEF Adopt
    <3> QED BY <2>4, <3>1, Move DEF Adopt, At, Stages
  <2>5. CASE Adopted(i)
    BY <2>5, Move DEF Adopted, At, Stages
  <2> QED BY <2>1, <2>2, <2>3, <2>4, <2>5
<1>2. byKey' = byKey /\ tail' = tail /\ parked' = parked
  BY DEF Resume, ChildClose, Untrack, Adopt, Adopted, books, slots
<1>3. Types'
  BY <1>1, <1>2 DEF Types
<1>4. Queue'
  BY <1>1, <1>2, KeepQueue
<1> QED BY <1>1, <1>2, <1>3, <1>4, Quiet

LEMMA CommitStep ==
    ASSUME IInv, NEW i \in RunIds, ChildCommit(i)
    PROVE IInv'
<1> USE DEF IInv
<1>1. /\ Types' /\ SameBirths /\ DoneStays /\ ChainedStays /\ tail' = tail /\ parked' = parked
      /\ \A j \in RunIds : run'[j].at = run[j].at
  BY DEF ChildCommit, Types, Outcomes, SameBirths, DoneStays, ChainedStays, books, slots
<1>2. Queue'
  BY <1>1, KeepQueue
<1> QED BY <1>1, <1>2, Quiet


\* Nothing the orders speak of changes: the requests' and the edits' own steps.
LEMMA BystanderStep ==
    ASSUME IInv, UNCHANGED <<run, byKey, tail, parked>>
    PROVE IInv'
<1>1. Types' /\ Queue'
  BY DEF IInv, Types, Queue, At
<1>2. SameBirths /\ DoneStays /\ ChainedStays
  BY DEF SameBirths, DoneStays, ChainedStays
<1> QED BY <1>1, <1>2, Quiet

LEMMA GiveBackStep ==
    ASSUME IInv, NEW i \in RunIds, GiveBack(i)
    PROVE IInv'
<1> USE DEF IInv
<1>1. run[i].at = "untracked" /\ byKey' = byKey /\ tail' = tail
  BY DEF GiveBack, At, books
<1>2. "returned" \in Stages \ {"unborn", "chained"} /\ "woken" \in Stages
  BY DEF Stages
<1>3. CASE parked = <<>>
  <2>1. Go(i, "returned") /\ parked' = parked
    BY <1>3 DEF GiveBack
  <2>2. /\ SameBirths /\ DoneStays /\ ChainedStays
        /\ \A j \in RunIds \ {i} : run'[j] = run[j]
    BY <1>1, <1>2, <2>1, Move
  <2>3. Types'
    BY <1>1, <1>2, <2>1, Move DEF Types
  <2>4. Queue'
    BY <1>1, <2>1, <2>2, KeepQueue
  <2> QED BY <1>1, <2>2, <2>3, <2>4, Quiet
<1>4. CASE parked # <<>>
  <2> DEFINE h == Head(parked)
  <2>1. /\ h \in RunIds /\ run[h].at = "parked" /\ h # i
        /\ Tail(parked) \in Seq(RunIds) /\ Len(Tail(parked)) = Len(parked) - 1
        /\ \A n \in 1..Len(Tail(parked)) : Tail(parked)[n] = parked[n + 1]
    <3>1. h = parked[1] /\ 1 \in 1..Len(parked)
      BY <1>4 DEF Types
    <3>2. h \in RunIds /\ run[h].at = "parked"
      BY <3>1 DEF Types, Queue, At
    <3> QED BY <1>1, <1>4, <3>2 DEF Types
  <2>2. /\ parked' = Tail(parked)
        /\ run' = [run EXCEPT ![i].at = "returned", ![h].at = "woken"]
    BY <1>4 DEF GiveBack
  <2> HIDE DEF h
  <2>3. /\ run' \in [RunIds -> [at : Stages, key : Keys, prev : 0..MaxRuns, watch : BOOLEAN,
                                outcome : Outcomes]]
        /\ \A j \in RunIds \ {i, h} : run'[j] = run[j]
    <3> DEFINE Runs == [at : Stages, key : Keys, prev : 0..MaxRuns, watch : BOOLEAN,
                        outcome : Outcomes]
               mine == [run[i] EXCEPT !.at = "returned"]
               other == [run[h] EXCEPT !.at = "woken"]
    <3>1. run \in [RunIds -> Runs]
      BY DEF Types
    <3> HIDE DEF Runs, mine, other
    <3>2. run[i] \in Runs /\ run[h] \in Runs
      BY <2>1, <3>1
    <3>3. /\ mine \in Runs /\ other \in Runs
          /\ run' = [run EXCEPT ![i] = mine, ![h] = other]
      <4>1. mine \in Runs
        BY <1>2, <3>2 DEF Runs, mine
      <4>2. other \in Runs
        BY <1>2, <3>2 DEF Runs, other
      <4>3. run' = [run EXCEPT ![i] = mine, ![h] = other]
        BY <2>1, <2>2, <3>1 DEF mine, other
      <4> QED BY <4>1, <4>2, <4>3
    <3>4. run' \in [RunIds -> Runs] /\ \A j \in RunIds \ {i, h} : run'[j] = run[j]
      BY <2>1, <3>1, <3>2, <3>3
    <3> QED BY <3>4 DEF Runs
  <2>4. /\ run'[i].at = "returned" /\ run'[i].key = run[i].key /\ run'[i].prev = run[i].prev
        /\ run'[h].at = "woken" /\ run'[h].key = run[h].key /\ run'[h].prev = run[h].prev
    BY <2>1, <2>2 DEF Types
  <2>5. SameBirths /\ DoneStays /\ ChainedStays
    BY <1>1, <2>1, <2>3, <2>4 DEF SameBirths, DoneStays, ChainedStays
  <2>6. Types'
    BY <1>1, <2>1, <2>2, <2>3 DEF Types
  <2>7. Queue'
    <3>1. ASSUME NEW n \in 1..Len(parked')
          PROVE /\ parked'[n] = parked[n + 1] /\ n + 1 \in 1..Len(parked)
                /\ parked[n + 1] \in RunIds \ {i, h} /\ run[parked[n + 1]].at = "parked"
      <4>1. parked'[n] = parked[n + 1] /\ n + 1 \in 1..Len(parked) /\ n + 1 # 1
        <5>1. n \in 1..Len(Tail(parked)) /\ Len(parked) \in Nat
          BY <2>2 DEF Types
        <5> QED BY <2>1, <2>2, <5>1
      <4>2. parked[n + 1] \in RunIds /\ run[parked[n + 1]].at = "parked"
        BY <4>1 DEF Types, Queue, At
      <4>3. h = parked[1] /\ 1 \in 1..Len(parked)
        BY <1>4 DEF Types, h
      <4>4. parked[n + 1] # h
        BY <4>1, <4>3 DEF Queue
      <4> QED BY <1>1, <4>1, <4>2, <4>4
    <3>2. \A n \in 1..Len(parked') : run'[parked'[n]].at = "parked"
      BY <2>3, <3>1
    <3>3. \A m, n \in 1..Len(parked') : parked'[m] = parked'[n] => m = n
      <4> SUFFICES ASSUME NEW m \in 1..Len(parked'), NEW n \in 1..Len(parked'),
                          parked'[m] = parked'[n]
                  PROVE m = n
        OBVIOUS
      <4>1. parked[m + 1] = parked[n + 1] /\ m + 1 \in 1..Len(parked) /\ n + 1 \in 1..Len(parked)
        BY <3>1
      <4>2. m + 1 = n + 1
        BY <4>1 DEF Queue
      <4> QED BY <2>6, <4>2 DEF Types
    <3> QED BY <3>2, <3>3 DEF Queue, At
  <2> QED BY <1>1, <2>5, <2>6, <2>7, Quiet
<1> QED BY <1>3, <1>4

LEMMA ForgetStep ==
    ASSUME IInv, NEW i \in RunIds, Forget(i)
    PROVE IInv'
<1> USE DEF IInv
<1>1. run' = run /\ parked' = parked /\ run[i].at = "done"
  BY DEF Forget, slots, At
<1>2. Types'
  <2>1. 0 \in 0..MaxRuns
    BY ChildrenAssumption
  <2>2. byKey' \in [Keys -> 0..MaxRuns]
    BY <2>1 DEF Forget, Types, NoRun
  <2>3. tail' \in [Roots -> 0..MaxRuns]
    BY <2>1 DEF Forget, Types, NoRun
  <2> QED BY <1>1, <2>2, <2>3 DEF Types
<1>3. Queue' /\ InOrder' /\ Chain'
  BY <1>1 DEF Queue, InOrder, Chain, Covers, Born, At, Root
<1>4. TailIsLatest'
  <2> SUFFICES ASSUME NEW j \in RunIds, Born(j), ~ At(j, "done")
              PROVE Covers(tail'[Root(j)], Root(j), j)
    BY <1>1 DEF TailIsLatest, Covers, Born, At, Root
  <2>1. Covers(tail[Root(j)], Root(j), j)
    BY DEF TailIsLatest
  <2>2. Root(j) \in Roots
    BY ChildrenAssumption DEF Types, Root
  <2>3. CASE Root(j) = Root(i) /\ tail[Root(i)] = i
    <3>1. j < i
      BY <1>1, <2>1, <2>3 DEF Covers, At, RunIds
    <3>2. At(i, "chained")
      BY <2>3, <3>1, <1>1 DEF Chain, Born, At
    <3> QED BY <1>1, <3>2 DEF At
  <2>4. CASE ~ (Root(j) = Root(i) /\ tail[Root(i)] = i)
    <3>1. tail'[Root(j)] = tail[Root(j)]
      BY <2>2, <2>4 DEF Forget, Types
    <3> QED BY <2>1, <3>1
  <2> QED BY <2>3, <2>4
<1> QED BY <1>2, <1>3, <1>4


LEMMA StartStep ==
    ASSUME IInv, NEW i \in RunIds, Start(i)
    PROVE IInv'
<1> USE DEF IInv
<1>1. run[i].at = "chained" /\ (run[i].prev # NoRun => run[run[i].prev].at = "done")
  BY DEF Start, At
<1>2. byKey' = byKey /\ tail' = tail
  BY DEF Start, books
<1>3. PICK s \in {"parked", "alive"} :
        /\ Go(i, s)
        /\ s = "parked" => parked' = Append(parked, i)
        /\ s = "alive" => parked' = parked
  BY DEF Start, Spawn
<1>4. /\ run' \in [RunIds -> [at : Stages, key : Keys, prev : 0..MaxRuns, watch : BOOLEAN,
                              outcome : Outcomes]]
      /\ \A j \in RunIds \ {i} : run'[j] = run[j]
      /\ run'[i].at = s /\ run'[i].key = run[i].key /\ run'[i].prev = run[i].prev
  <2>1. s \in Stages
    BY DEF Stages
  <2> QED BY <1>3, <2>1 DEF Go, Types
<1>5. SameBirths /\ DoneStays
  BY <1>1, <1>4 DEF SameBirths, DoneStays
<1>6. Types'
  <2>1. parked \in Seq(RunIds)
    BY DEF Types
  <2>2. Append(parked, i) \in Seq(RunIds)
    BY <2>1
  <2>3. parked' \in Seq(RunIds)
    BY <1>3, <2>1, <2>2
  <2> QED BY <1>2, <1>4, <2>3 DEF Types
<1>7. Queue'
  <2>1. CASE s = "alive"
    BY <1>1, <1>3, <1>4, <2>1, KeepQueue
  <2>2. CASE s = "parked"
    <3>1. \A n \in 1..Len(parked) : parked[n] \in RunIds \ {i}
      BY <1>1 DEF Queue, Types, At
    <3>2. /\ Len(parked') = Len(parked) + 1 /\ Len(parked) \in Nat
          /\ parked'[Len(parked) + 1] = i
          /\ \A n \in 1..Len(parked) : parked'[n] = parked[n]
      <4>1. parked \in Seq(RunIds)
        BY DEF Types
      <4>2. parked' = Append(parked, i)
        BY <1>3, <2>2
      <4> QED BY <4>1, <4>2
    <3>3. \A n \in 1..Len(parked') : n \in 1..Len(parked) \/ n = Len(parked) + 1
      BY <3>2
    <3>4. \A n \in 1..Len(parked') : run'[parked'[n]].at = "parked"
      BY <1>4, <2>2, <3>1, <3>2, <3>3 DEF Queue, At
    <3>5. \A m, n \in 1..Len(parked') : parked'[m] = parked'[n] => m = n
      BY <3>1, <3>2, <3>3 DEF Queue
    <3> QED BY <3>4, <3>5 DEF Queue, At
  <2> QED BY <2>1, <2>2
\* The run it queued behind is done, so all the older ones of its root are.
<1>8. \A j \in RunIds : j < i /\ Root(j) = Root(i) => run[j].at = "done"
  <2> SUFFICES ASSUME NEW j \in RunIds, j < i, Root(j) = Root(i), run[j].at # "done"
              PROVE FALSE
    OBVIOUS
  <2> DEFINE p == run[i].prev
  <2>1. Covers(p, Root(i), j)
    BY <1>1 DEF Chain, Born, At
  <2>2. p # NoRun /\ run[p].at = "done"
    BY <1>1, <2>1 DEF Covers, RunIds, NoRun
  <2>3. j < p
    BY <2>1, <2>2 DEF Covers, RunIds
  <2>4. At(j, "done") \/ At(p, "chained")
    BY <2>1, <2>3 DEF Chain, Covers
  <2> QED BY <2>2, <2>4 DEF At
<1>9. Chain'
  <2> SUFFICES ASSUME NEW m \in RunIds, NEW j \in RunIds,
                      Born(m)', j < m, Root(j)' = Root(m)', run'[j].at # "done"
              PROVE At(m, "chained")' /\ run'[m].prev < m /\ Covers(run[m].prev, Root(m), j)'
    BY DEF Chain, At
  <2>1. Born(m) /\ Root(j) = Root(m) /\ run[j].at # "done" /\ Root(m)' = Root(m)
    BY <1>5 DEF SameBirths, DoneStays, Born, At, Root
  <2>2. m # i
    BY <1>8, <2>1
  <2>3. At(m, "chained") /\ run[m].prev < m /\ Covers(run[m].prev, Root(m), j)
    BY <2>1 DEF Chain, At
  <2>4. run'[m] = run[m]
    BY <1>4, <2>2
  <2> QED BY <1>5, <2>1, <2>3, <2>4 DEF Covers, SameBirths, Born, At, Root
<1>10. InOrder' /\ TailIsLatest'
  BY <1>2, <1>5, KeepInOrder, KeepTail
<1> QED BY <1>6, <1>7, <1>9, <1>10

LEMMA CreateStep ==
    ASSUME IInv, NEW q \in Requests, NEW k \in Keys, NEW w \in BOOLEAN, Create(q, k, w)
    PROVE IInv'
<1> USE DEF IInv
<1>1. PICK i \in RunIds :
        /\ At(i, "unborn") /\ \A j \in RunIds : At(j, "unborn") => i <= j
        /\ run' = [run EXCEPT ![i] = [at |-> "chained", key |-> k,
                     prev |-> tail[RootOf[k]], watch |-> w, outcome |-> "none"]]
        /\ byKey' = [byKey EXCEPT ![k] = i]
        /\ tail' = [tail EXCEPT ![RootOf[k]] = i]
  BY DEF Create, Predecessor
<1>2. parked' = parked /\ RootOf[k] \in Roots /\ tail[RootOf[k]] \in 0..MaxRuns /\ i \in 0..MaxRuns
  <2>1. parked' = parked
    BY DEF Create, slots
  <2>2. RootOf[k] \in Roots
    BY ChildrenAssumption
  <2>3. tail[RootOf[k]] \in 0..MaxRuns
    BY <2>2 DEF Types
  <2>4. i \in 0..MaxRuns
    BY ChildrenAssumption DEF RunIds
  <2> QED BY <2>1, <2>2, <2>3, <2>4
<1>3. /\ run'[i] = [at |-> "chained", key |-> k, prev |-> tail[RootOf[k]], watch |-> w,
                    outcome |-> "none"]
      /\ \A j \in RunIds \ {i} : run'[j] = run[j]
  BY <1>1 DEF Types
<1>4. Types'
  <2>1. run'[i] \in [at : Stages, key : Keys, prev : 0..MaxRuns, watch : BOOLEAN, outcome : Outcomes]
    BY <1>2, <1>3 DEF Stages, Outcomes
  <2>2. run' \in [RunIds -> [at : Stages, key : Keys, prev : 0..MaxRuns, watch : BOOLEAN,
                            outcome : Outcomes]]
    BY <1>1, <1>3, <2>1 DEF Types
  <2>3. byKey' \in [Keys -> 0..MaxRuns] /\ tail' \in [Roots -> 0..MaxRuns]
    BY <1>1, <1>2 DEF Types
  <2> QED BY <1>2, <2>2, <2>3 DEF Types
<1>5. Queue'
  BY <1>1, <1>2, <1>3, KeepQueue DEF At
<1>6. \A j \in RunIds : /\ Born(j)' <=> (Born(j) \/ j = i)
                        /\ j # i => Root(j)' = Root(j) /\ (At(j, "done")' <=> At(j, "done"))
  BY <1>3 DEF Born, At, Root
<1>7. Root(i)' = RootOf[k] /\ run'[i].at = "chained" /\ run'[i].prev = tail[RootOf[k]]
  BY <1>3 DEF Root
<1>8. \A j \in RunIds : Born(j) <=> j < i
  BY <1>1 DEF InOrder, Born, At, RunIds
<1>9. InOrder'
  <2> SUFFICES ASSUME NEW a \in RunIds, NEW b \in RunIds, At(a, "unborn")', a <= b
              PROVE At(b, "unborn")'
    BY DEF InOrder
  <2>1. ~ Born(a) /\ a # i
    BY <1>6 DEF Born, At
  <2>2. ~ Born(b) /\ b # i
    BY <1>8, <2>1 DEF RunIds
  <2> QED BY <1>3, <2>2 DEF Born, At
<1>10. TailIsLatest'
  <2> SUFFICES ASSUME NEW j \in RunIds, Born(j)', ~ At(j, "done")'
              PROVE Covers(tail[Root(j)], Root(j), j)'
    BY DEF TailIsLatest
  <2>0. Root(j)' \in Roots
    BY <1>4, ChildrenAssumption DEF Types, Root
  <2>1. CASE Root(j)' = RootOf[k]
    <3>1. tail'[Root(j)'] = i
      BY <1>1, <1>2, <2>1 DEF Types
    <3>2. j <= i
      BY <1>6, <1>8 DEF RunIds
    <3> QED BY <1>6, <1>7, <2>1, <3>1, <3>2 DEF Covers
  <2>2. CASE Root(j)' # RootOf[k]
    <3>1. j # i
      BY <1>7, <2>2
    <3>2. Root(j)' = Root(j) /\ Covers(tail[Root(j)], Root(j), j)
      BY <1>6, <3>1 DEF TailIsLatest
    <3>3. tail'[Root(j)'] = tail[Root(j)]
      BY <1>1, <2>0, <2>2, <3>2 DEF Types
    <3>4. tail[Root(j)] # i
      BY <1>1, <3>2 DEF Covers, Born
    <3> QED BY <1>6, <3>2, <3>3, <3>4 DEF Covers
  <2> QED BY <2>1, <2>2
<1>11. Chain'
  <2> SUFFICES ASSUME NEW m \in RunIds, NEW j \in RunIds,
                      Born(m)', j < m, Root(j)' = Root(m)', ~ At(j, "done")'
              PROVE At(m, "chained")' /\ run'[m].prev < m /\ Covers(run[m].prev, Root(m), j)'
    BY DEF Chain
  <2>1. j # i /\ Born(j)
    BY <1>6, <1>8 DEF RunIds
  <2>2. Root(j)' = Root(j) /\ ~ At(j, "done")
    BY <1>6, <2>1
  <2>3. CASE m = i
    <3>1. Root(j) = RootOf[k]
      BY <1>7, <2>2, <2>3
    <3>2. Covers(tail[RootOf[k]], RootOf[k], j)
      BY <2>1, <2>2, <3>1 DEF TailIsLatest
    <3>3. tail[RootOf[k]] < i /\ tail[RootOf[k]] # i
      BY <1>8, <3>2 DEF Covers, RunIds
    <3> QED BY <1>6, <1>7, <2>3, <3>2, <3>3 DEF Covers, At
  <2>4. CASE m # i
    <3>1. Born(m) /\ Root(m)' = Root(m) /\ run'[m] = run[m]
      BY <1>3, <1>6, <2>4
    <3>2. At(m, "chained") /\ run[m].prev < m /\ Covers(run[m].prev, Root(m), j)
      BY <2>2, <3>1 DEF Chain
    <3>3. run[m].prev # i
      BY <1>1, <3>2 DEF Covers, Born
    <3> QED BY <1>6, <3>1, <3>2, <3>3 DEF Covers, At
  <2> QED BY <2>3, <2>4
<1> QED BY <1>4, <1>5, <1>9, <1>10, <1>11

-----------------------------------------------------------------------------

\* A step nobody takes, as far as all but the copies and the loads of them go.
Beside == UNCHANGED <<run, byKey, tail, running, parked, writer, req, edit, watched>>

Loading == \E r \in Roots : Load(r) \/ Publish(r)

\* The kinds of steps, for any wishes and any roots that are loaded.
Steps ==
    \/ \E q \in Requests :
         \/ \E k \in Keys, w \in BOOLEAN : Join(q, k, w) \/ Create(q, k, w)
         \/ Answer(q)
    \/ \E i \in RunIds : Progress(i) \/ ChildCommit(i)
    \/ \E e \in Edits : Arrive(e) \/ Pass(e) \/ EditCommit(e)
    \/ Beside /\ (Loading \/ UNCHANGED copies)

LEMMA AllSteps == ASSUME [Next]_vars PROVE Steps
<1>1. ASSUME NEW r \in Loaded, Load(r) \/ Publish(r) PROVE Beside /\ Loading
  <2>1. r \in Roots
    BY ChildrenAssumption
  <2> QED BY <1>1, <2>1 DEF Load, Publish, Beside, Loading, books, slots
<1>2. CASE UNCHANGED vars
  BY <1>2 DEF vars, copies, Beside, Steps
<1>3. ASSUME NEW q \in Requests, NEW k \in Keys, NEW w \in Watches, Join(q, k, w) \/ Create(q, k, w)
      PROVE Steps
  BY <1>3, ChildrenAssumption DEF Steps
<1> QED BY <1>1, <1>2, <1>3 DEF Next, Steps

LEMMA NextStep == IInv /\ [Next]_vars => IInv'
<1> SUFFICES ASSUME IInv, [Next]_vars PROVE IInv'
  OBVIOUS
<1>1. ASSUME NEW q \in Requests, NEW k \in Keys, NEW w \in BOOLEAN, Join(q, k, w) \/ Create(q, k, w)
      PROVE IInv'
  BY <1>1, JoinStep, CreateStep
<1>2. ASSUME NEW q \in Requests, Answer(q)
      PROVE IInv'
  BY <1>2, BystanderStep DEF Answer, books, slots
<1>3. ASSUME NEW i \in RunIds, Progress(i)
      PROVE IInv'
  BY <1>3, StartStep, ResumeStep, GiveBackStep, ForgetStep DEF Progress
<1>4. ASSUME NEW i \in RunIds, ChildCommit(i)
      PROVE IInv'
  BY <1>4, CommitStep
<1>5. ASSUME NEW e \in Edits, Arrive(e) \/ Pass(e) \/ EditCommit(e)
      PROVE IInv'
  BY <1>5, BystanderStep DEF Arrive, Pass, EditCommit, books, slots
<1>6. CASE Beside
  BY <1>6, BystanderStep DEF Beside
<1> QED BY <1>1, <1>2, <1>3, <1>4, <1>5, <1>6, AllSteps DEF Steps

\* Of two live children of one root the younger would have to be still chained.
LEMMA ChainExcludes == IInv => OneWriterPerRoot
<1> SUFFICES ASSUME IInv, NEW i \in RunIds, NEW j \in RunIds,
                    Alive(i), Alive(j), Root(i) = Root(j), j < i
            PROVE FALSE
  BY DEF OneWriterPerRoot, RunIds
<1>1. Born(i) /\ ~ At(j, "done") /\ ~ At(i, "chained")
  BY DEF Born, Alive, At
<1> QED BY <1>1 DEF IInv, Chain

\* Whatever the number of roots, options, requests and slots, two index children
\* never rewrite the index of one root at the same time: the runs of a root form
\* one chain behind childRunTailByRoot, and joins, failures, kills and the
\* clean-up of the two maps never break it.
THEOREM OneWriter == Spec => []OneWriterPerRoot
<1>1. Init => IInv
  BY InitIInv
<1>2. IInv /\ [Next]_vars => IInv'
  BY NextStep
<1>3. IInv => OneWriterPerRoot
  BY ChainExcludes
<1> QED BY <1>1, <1>2, <1>3, PTL DEF Spec


-----------------------------------------------------------------------------
(* The write barrier, the wish for a watcher and the resident copies, for     *)
(* any number of requests, runs, roots, slots and incremental writes.         *)

Books ==
    /\ writer \in [Roots -> 0..MaxRuns]
    /\ req \in [Requests -> [at : {"idle", "waiting", "answered"}, run : 0..MaxRuns,
                             watch : BOOLEAN, late : BOOLEAN]]
    /\ edit \in [Edits -> [at : {"idle", "waiting", "passed"}, run : 0..MaxRuns]]
    /\ watched \subseteq Roots

\* From one place in a run's life to the next.
Leads(a, b) ==
    \/ a = b
    \/ a = "unborn" /\ b = "chained"
    \/ a = "chained" /\ b \in {"parked", "alive"}
    \/ a = "parked" /\ b = "woken"
    \/ a = "woken" /\ b = "alive"
    \/ a = "alive" /\ b = "closed"
    \/ a = "closed" /\ b = "untracked"
    \/ a = "untracked" /\ b = "returned"
    \/ a = "returned" /\ b \in {"adopting", "done"}
    \/ a = "adopting" /\ b = "done"

\* A run's key is settled at its birth, its outcome while its child is alive, and a
\* wish for a watcher is not withdrawn.
Lives == \A j \in RunIds :
    /\ Leads(run[j].at, run'[j].at)
    /\ Born(j) => run'[j].key = run[j].key /\ (run[j].watch => run'[j].watch)
    /\ Born(j) /\ ~ Alive(j) => run'[j].outcome = run[j].outcome

\* Only run i moves, to s, keeping all else.
LEMMA GoLives ==
    ASSUME Types, NEW i \in RunIds, NEW s \in Stages, Go(i, s), Leads(run[i].at, s)
    PROVE Lives /\ run'[i].at = s /\ \A j \in RunIds \ {i} : run'[j] = run[j]
<1>1. /\ run'[i].at = s /\ run'[i].key = run[i].key /\ run'[i].watch = run[i].watch
      /\ run'[i].outcome = run[i].outcome /\ \A j \in RunIds \ {i} : run'[j] = run[j]
  BY DEF Go, Types
<1> QED BY <1>1 DEF Lives, Leads

LEMMA SameRuns == ASSUME run' = run PROVE Lives
BY DEF Lives, Leads

LEMMA JoinLives ==
    ASSUME IInv, NEW q \in Requests, NEW k \in Keys, NEW w \in BOOLEAN, Join(q, k, w)
    PROVE /\ Lives /\ \A j \in RunIds : run'[j].at = run[j].at
          /\ byKey[k] \in RunIds /\ (w => run'[byKey[k]].watch)
<1>1. byKey[k] \in RunIds
  BY DEF IInv, Join, Types, RunIds, NoRun
<1>2. run' = [run EXCEPT ![byKey[k]].watch = @ \/ w]
  BY DEF Join
<1>3. \A j \in RunIds :
        /\ run'[j].at = run[j].at /\ run'[j].key = run[j].key /\ run'[j].outcome = run[j].outcome
        /\ run'[j].watch = (run[j].watch \/ (j = byKey[k] /\ w))
  <2> SUFFICES ASSUME NEW j \in RunIds
               PROVE /\ run'[j].at = run[j].at /\ run'[j].key = run[j].key
                     /\ run'[j].outcome = run[j].outcome
                     /\ run'[j].watch = (run[j].watch \/ (j = byKey[k] /\ w))
    OBVIOUS
  <2>1. CASE j = byKey[k]
    BY <1>1, <1>2, <2>1 DEF IInv, Types
  <2>2. CASE j # byKey[k]
    BY <1>1, <1>2, <2>2 DEF IInv, Types
  <2> QED BY <2>1, <2>2
<1> QED BY <1>1, <1>3 DEF Lives, Leads

\* The new run, and nothing else.
LEMMA CreateLives ==
    ASSUME IInv, NEW q \in Requests, NEW k \in Keys, NEW w \in BOOLEAN, Create(q, k, w)
    PROVE \E i \in RunIds :
            /\ ~ Born(i) /\ run'[i].at = "chained" /\ run'[i].key = k /\ run'[i].watch = w
            /\ run'[i].outcome = "none" /\ \A j \in RunIds \ {i} : run'[j] = run[j]
            /\ req' = [req EXCEPT ![q] = [at |-> "waiting", run |-> i, watch |-> w, late |-> FALSE]]
            /\ Lives
<1>1. PICK i \in RunIds :
        /\ At(i, "unborn")
        /\ run' = [run EXCEPT ![i] = [at |-> "chained", key |-> k,
                     prev |-> Predecessor(RootOf[k]), watch |-> w, outcome |-> "none"]]
        /\ req' = [req EXCEPT ![q] = [at |-> "waiting", run |-> i, watch |-> w, late |-> FALSE]]
  BY DEF Create
<1>2. /\ ~ Born(i) /\ run'[i].at = "chained" /\ run'[i].key = k /\ run'[i].watch = w
      /\ run'[i].outcome = "none" /\ \A j \in RunIds \ {i} : run'[j] = run[j]
  BY <1>1 DEF IInv, Types, Born
<1>3. Lives
  BY <1>1, <1>2 DEF Lives, Leads, Born, At
<1> QED BY <1>1, <1>2, <1>3

LEMMA CloseLives ==
    ASSUME Types, NEW i \in RunIds, ChildClose(i)
    PROVE /\ Lives /\ run[i].at = "alive" /\ run'[i].at = "closed"
          /\ \A j \in RunIds \ {i} : run'[j] = run[j]
<1>1. PICK o \in {"completed", "partial", "failed"} :
          run' = [run EXCEPT ![i].at = "closed", ![i].outcome = o]
  BY DEF ChildClose
<1>2. /\ run'[i].at = "closed" /\ run'[i].key = run[i].key /\ run'[i].watch = run[i].watch
      /\ \A j \in RunIds \ {i} : run'[j] = run[j]
  BY <1>1 DEF Types
<1>3. run[i].at = "alive"
  BY DEF ChildClose, Alive, At
<1> QED BY <1>2, <1>3 DEF Lives, Leads, Alive, At

LEMMA CommitLives ==
    ASSUME Types, NEW i \in RunIds, ChildCommit(i)
    PROVE Lives /\ run[i].at = "alive" /\ \A j \in RunIds : run'[j].at = run[j].at
<1>1. run' = [run EXCEPT ![i].outcome = "committed"]
  BY DEF ChildCommit
<1>2. /\ run'[i].at = run[i].at /\ run'[i].key = run[i].key /\ run'[i].watch = run[i].watch
      /\ \A j \in RunIds \ {i} : run'[j] = run[j]
  BY <1>1 DEF Types
<1>3. run[i].at = "alive"
  BY DEF ChildCommit, Alive, At
<1> QED BY <1>2, <1>3 DEF Lives, Leads, Alive, At

\* The slot's next holder, if a run waits for one.
LEMMA GiveBackLives ==
    ASSUME IInv, NEW i \in RunIds, GiveBack(i)
    PROVE /\ Lives /\ run[i].at = "untracked" /\ run'[i].at = "returned"
          /\ \/ parked = <<>> /\ \A j \in RunIds \ {i} : run'[j] = run[j]
             \/ /\ parked # <<>> /\ Head(parked) \in RunIds \ {i}
                /\ run[Head(parked)].at = "parked" /\ run'[Head(parked)].at = "woken"
                /\ \A j \in RunIds \ {i, Head(parked)} : run'[j] = run[j]
<1>1. run[i].at = "untracked" /\ "returned" \in Stages
  BY DEF GiveBack, At, Stages
<1>2. CASE parked = <<>>
  BY <1>1, <1>2, GoLives DEF GiveBack, Leads, IInv
<1>3. CASE parked # <<>>
  <2> DEFINE h == Head(parked)
  <2>1. h \in RunIds /\ run[h].at = "parked"
    <3>1. h = parked[1] /\ 1 \in 1..Len(parked)
      BY <1>3 DEF IInv, Types
    <3> QED BY <3>1 DEF IInv, Types, Queue, At
  <2>2. run' = [run EXCEPT ![i].at = "returned", ![h].at = "woken"]
    BY <1>3 DEF GiveBack
  <2> HIDE DEF h
  <2>3. /\ run'[i].at = "returned" /\ run'[i].key = run[i].key /\ run'[i].watch = run[i].watch
        /\ run'[i].outcome = run[i].outcome
        /\ run'[h].at = "woken" /\ run'[h].key = run[h].key /\ run'[h].watch = run[h].watch
        /\ run'[h].outcome = run[h].outcome
    BY <1>1, <2>1, <2>2 DEF IInv, Types
  <2>4. \A j \in RunIds \ {i, h} : run'[j] = run[j]
    BY <2>1, <2>2 DEF IInv, Types
  <2>5. Lives
    BY <1>1, <2>1, <2>3, <2>4 DEF Lives, Leads
  <2> QED BY <1>1, <1>3, <2>1, <2>3, <2>4, <2>5 DEF h
<1> QED BY <1>2, <1>3

\* A run of the chain's head gets a place: it waits for a slot, or its child starts.
LEMMA StartLives ==
    ASSUME Types, NEW i \in RunIds, Start(i)
    PROVE /\ Lives /\ run[i].at = "chained" /\ \A j \in RunIds \ {i} : run'[j] = run[j]
          /\ \/ run'[i].at = "parked" /\ writer' = writer
             \/ run'[i].at = "alive" /\ Spawn(i)
<1>1. run[i].at = "chained" /\ {"parked", "alive"} \subseteq Stages
  BY DEF Start, At, Stages
<1>2. CASE Go(i, "parked") /\ writer' = writer
  BY <1>1, <1>2, GoLives DEF Leads
<1>3. CASE Spawn(i)
  BY <1>1, <1>3, GoLives DEF Spawn, Leads
<1> QED BY <1>2, <1>3 DEF Start

LEMMA MoveLives ==
    ASSUME Types, NEW i \in RunIds,
           Resume(i) \/ Untrack(i) \/ Adopt(i) \/ Adopted(i)
    PROVE /\ Lives /\ \A j \in RunIds \ {i} : run'[j] = run[j]
          /\ Resume(i) => run[i].at = "woken" /\ run'[i].at = "alive" /\ Spawn(i)
          /\ Untrack(i) => run[i].at = "closed" /\ run'[i].at = "untracked"
          /\ Adopt(i) => /\ run[i].at = "returned"
                         /\ run'[i].at = IF run[i].outcome = "completed" THEN "adopting" ELSE "done"
          /\ Adopted(i) => run[i].at = "adopting" /\ run'[i].at = "done"
<1>1. {"alive", "untracked", "adopting", "done"} \subseteq Stages
  BY DEF Stages
<1>2. CASE Resume(i)
  BY <1>1, <1>2, GoLives DEF Resume, Spawn, At, Leads, Untrack, Adopt, Adopted
<1>3. CASE Untrack(i)
  BY <1>1, <1>3, GoLives DEF Resume, At, Leads, Untrack, Adopt, Adopted
<1>4. CASE Adopt(i)
  BY <1>1, <1>4, GoLives DEF Resume, At, Leads, Untrack, Adopt, Adopted
<1>5. CASE Adopted(i)
  BY <1>1, <1>5, GoLives DEF Resume, At, Leads, Untrack, Adopt, Adopted
<1> QED BY <1>2, <1>3, <1>4, <1>5

\* Every step takes each run at most one place further.
LEMMA Lifecycle == ASSUME IInv, [Next]_vars PROVE Lives
<1>1. ASSUME NEW q \in Requests, NEW k \in Keys, NEW w \in BOOLEAN, Join(q, k, w) \/ Create(q, k, w)
      PROVE Lives
  BY <1>1, JoinLives, CreateLives
<1>2. ASSUME NEW q \in Requests, Answer(q) PROVE Lives
  BY <1>2, SameRuns DEF Answer
<1>3. ASSUME NEW i \in RunIds, Progress(i) PROVE Lives
  BY <1>3, StartLives, MoveLives, CloseLives, GiveBackLives, SameRuns DEF Progress, Forget, IInv
<1>4. ASSUME NEW i \in RunIds, ChildCommit(i) PROVE Lives
  BY <1>4, CommitLives DEF IInv
<1>5. ASSUME NEW e \in Edits, Arrive(e) \/ Pass(e) \/ EditCommit(e) PROVE Lives
  BY <1>5, SameRuns DEF Arrive, Pass, EditCommit
<1>6. CASE Beside
  BY <1>6, SameRuns DEF Beside
<1> QED BY <1>1, <1>2, <1>3, <1>4, <1>5, <1>6, AllSteps DEF Steps

-----------------------------------------------------------------------------
(* What the requests, the barrier and the caches hold *)

LEMMA JoinBooks ==
    ASSUME IInv, Books, NEW q \in Requests, NEW k \in Keys, NEW w \in BOOLEAN, Join(q, k, w)
    PROVE Books'
<1>1. byKey[k] \in 0..MaxRuns
  BY DEF IInv, Types
<1> DEFINE l == run[byKey[k]].at \in {"adopting", "done"}
<1>2. req' = [req EXCEPT ![q] = [at |-> "waiting", run |-> byKey[k], watch |-> w, late |-> l]]
  BY DEF Join
<1>0. l \in BOOLEAN
  OBVIOUS
<1> HIDE DEF l
<1>3. req' \in [Requests -> [at : {"idle", "waiting", "answered"}, run : 0..MaxRuns,
                             watch : BOOLEAN, late : BOOLEAN]]
  BY <1>0, <1>1, <1>2 DEF Books
<1> QED BY <1>3 DEF Join, Books

LEMMA CreateBooks ==
    ASSUME IInv, Books, NEW q \in Requests, NEW k \in Keys, NEW w \in BOOLEAN, Create(q, k, w)
    PROVE Books'
<1>1. PICK i \in RunIds :
        req' = [req EXCEPT ![q] = [at |-> "waiting", run |-> i, watch |-> w, late |-> FALSE]]
  BY DEF Create
<1>2. i \in 0..MaxRuns
  BY ChildrenAssumption DEF RunIds
<1>3. req' \in [Requests -> [at : {"idle", "waiting", "answered"}, run : 0..MaxRuns,
                             watch : BOOLEAN, late : BOOLEAN]]
  BY <1>1, <1>2 DEF Books
<1> QED BY <1>3 DEF Create, Books

LEMMA AnswerBooks == ASSUME Books, NEW q \in Requests, Answer(q) PROVE Books'
BY DEF Answer, Books

LEMMA RunBooks ==
    ASSUME IInv, Books, NEW i \in RunIds, Progress(i) \/ ChildCommit(i)
    PROVE Books'
<1>1. Root(i) \in Roots /\ i \in 0..MaxRuns
  BY ChildrenAssumption DEF IInv, Types, Root, RunIds
<1>2. writer' \in [Roots -> 0..MaxRuns]
  <2>1. PICK n \in 0..MaxRuns : writer' = writer \/ writer' = [writer EXCEPT ![Root(i)] = n]
    <3>1. CASE Start(i) \/ Resume(i)
      BY <1>1, <3>1 DEF Start, Resume, Spawn
    <3>2. CASE Untrack(i)
      <4>1. writer[Root(i)] \in 0..MaxRuns /\ NoRun \in 0..MaxRuns
        BY <1>1, ChildrenAssumption DEF Books, NoRun
      <4> QED BY <3>2, <4>1 DEF Untrack
    <3>3. CASE writer' = writer
      BY <1>1, <3>3
    <3> QED BY <3>1, <3>2, <3>3
            DEF Progress, ChildClose, GiveBack, Adopt, Adopted, Forget, ChildCommit
  <2> QED BY <1>1, <2>1 DEF Books
<1>3. watched' \subseteq Roots
  BY <1>1 DEF Books, Progress, Start, Resume, Spawn, ChildClose, Untrack, GiveBack, Adopt,
              Adopted, Forget, ChildCommit
<1>4. req' = req /\ edit' = edit
  BY DEF Progress, Start, Resume, Spawn, ChildClose, Untrack, GiveBack, Adopt,
         Adopted, Forget, ChildCommit
<1> QED BY <1>2, <1>3, <1>4 DEF Books

LEMMA EditBooks ==
    ASSUME Books, NEW e \in Edits, Arrive(e) \/ Pass(e) \/ EditCommit(e)
    PROVE Books'
<1>1. writer[EditRoot[e]] \in 0..MaxRuns /\ NoRun \in 0..MaxRuns
  BY ChildrenAssumption DEF Books, NoRun
<1>2. edit' \in [Edits -> [at : {"idle", "waiting", "passed"}, run : 0..MaxRuns]]
  <2>1. CASE Arrive(e)
    BY <1>1, <2>1 DEF Arrive, Books
  <2>2. CASE Pass(e)
    BY <1>1, <2>2 DEF Pass, Books
  <2>3. CASE EditCommit(e)
    BY <1>1, <2>3 DEF EditCommit, Books, NoEdit
  <2> QED BY <2>1, <2>2, <2>3
<1> QED BY <1>2 DEF Arrive, Pass, EditCommit, Books

LEMMA BooksStep == ASSUME IInv, Books, [Next]_vars PROVE Books'
<1>1. CASE Beside
  BY <1>1 DEF Beside, Books
<1> QED BY <1>1, JoinBooks, CreateBooks, AnswerBooks, RunBooks, EditBooks, AllSteps DEF Steps

-----------------------------------------------------------------------------
(* The barrier *)

LEMMA ExcludesNext == IInv' => OneWriterPerRoot'
BY ChainExcludes, PTL

LEMMA QuietTracked ==
    ASSUME AliveIsTracked, Lives, writer' = writer, \A j \in RunIds : Alive(j)' => Alive(j)
    PROVE AliveIsTracked'
BY DEF AliveIsTracked, Lives, Born, Alive, At, Root

LEMMA SpawnTracked ==
    ASSUME IInv', Books, AliveIsTracked, Lives, NEW i \in RunIds, Spawn(i), run'[i].at = "alive",
           \A j \in RunIds \ {i} : run'[j] = run[j], Born(i), Types
    PROVE AliveIsTracked'
<1> SUFFICES ASSUME NEW j \in RunIds, Alive(j)' PROVE writer'[Root(j)'] = j
  BY DEF AliveIsTracked
<1>1. Root(i)' = Root(i) /\ Root(i) \in Roots
  BY ChildrenAssumption DEF Lives, Root, Types
<1>2. writer' = [writer EXCEPT ![Root(i)] = i]
  BY DEF Spawn
<1>3. CASE j = i
  BY <1>1, <1>2, <1>3 DEF Books
<1>4. CASE j # i
  <2>1. Alive(j) /\ Root(j)' = Root(j) /\ Root(j) \in Roots
    BY <1>4, ChildrenAssumption DEF Alive, At, Root, Types
  <2>2. Root(j)' # Root(i)'
    BY <1>4, ExcludesNext DEF OneWriterPerRoot, Alive, At
  <2> QED BY <1>1, <1>2, <2>1, <2>2 DEF AliveIsTracked, Books
<1> QED BY <1>3, <1>4

LEMMA UntrackTracked ==
    ASSUME Types, Books, AliveIsTracked, Lives, NEW i \in RunIds, Untrack(i)
    PROVE AliveIsTracked'
<1> SUFFICES ASSUME NEW j \in RunIds, Alive(j)' PROVE writer'[Root(j)'] = j
  BY DEF AliveIsTracked
<1>1. run'[i].at = "untracked" /\ \A m \in RunIds \ {i} : run'[m] = run[m]
  BY MoveLives
<1>2. j # i /\ Alive(j) /\ Root(j)' = Root(j) /\ Root(j) \in Roots
  BY <1>1, ChildrenAssumption DEF Alive, At, Root, Types
<1>3. writer[Root(j)] = j
  BY <1>2 DEF AliveIsTracked
<1>4. writer' = [writer EXCEPT ![Root(i)] = IF @ = i THEN NoRun ELSE @]
  BY DEF Untrack
<1> QED BY <1>2, <1>3, <1>4 DEF Books

LEMMA TrackedStep ==
    ASSUME IInv, IInv', Books, AliveIsTracked, [Next]_vars
    PROVE AliveIsTracked'
<1> USE DEF IInv
<1>0. Lives
  BY Lifecycle
<1>1. ASSUME NEW q \in Requests, NEW k \in Keys, NEW w \in BOOLEAN, Join(q, k, w)
      PROVE AliveIsTracked'
  BY <1>0, <1>1, JoinLives, QuietTracked DEF Join, Alive, At
<1>2. ASSUME NEW q \in Requests, NEW k \in Keys, NEW w \in BOOLEAN, Create(q, k, w)
      PROVE AliveIsTracked'
  BY <1>0, <1>2, CreateLives, QuietTracked DEF Create, Alive, At
<1>3. ASSUME NEW i \in RunIds, Start(i) \/ Resume(i)
      PROVE AliveIsTracked'
  <2>1. CASE Spawn(i) /\ run'[i].at = "alive"
    <3>1. Born(i) /\ \A j \in RunIds \ {i} : run'[j] = run[j]
      BY <1>3, StartLives, MoveLives DEF Born, At
    <3> QED BY <1>0, <2>1, <3>1, SpawnTracked
  <2>2. CASE run'[i].at = "parked" /\ writer' = writer
    <3>1. \A j \in RunIds : Alive(j)' => Alive(j)
      BY <1>3, <2>2, StartLives, MoveLives DEF Alive, At
    <3> QED BY <1>0, <2>2, <3>1, QuietTracked
  <2> QED BY <1>3, <2>1, <2>2, StartLives, MoveLives
<1>4. ASSUME NEW i \in RunIds, Untrack(i)
      PROVE AliveIsTracked'
  BY <1>0, <1>4, UntrackTracked
<1>5. ASSUME NEW i \in RunIds, ChildClose(i) \/ ChildCommit(i) \/ Forget(i)
      PROVE AliveIsTracked'
  <2>1. \A j \in RunIds : Alive(j)' => Alive(j)
    BY <1>5, CloseLives, CommitLives DEF Forget, Alive, At
  <2> QED BY <1>0, <1>5, <2>1, QuietTracked DEF ChildClose, ChildCommit, Forget
<1>6. ASSUME NEW i \in RunIds, Adopt(i) \/ Adopted(i)
      PROVE AliveIsTracked'
  <2>1. \A j \in RunIds : Alive(j)' => Alive(j)
    BY <1>6, MoveLives DEF Alive, At
  <2> QED BY <1>0, <1>6, <2>1, QuietTracked DEF Adopt, Adopted
<1>7. ASSUME NEW i \in RunIds, GiveBack(i)
      PROVE AliveIsTracked'
  <2>1. \A j \in RunIds : Alive(j)' => Alive(j)
    BY <1>7, GiveBackLives DEF Alive, At
  <2> QED BY <1>0, <1>7, <2>1, QuietTracked DEF GiveBack
<1>8. ASSUME run' = run, writer' = writer
      PROVE AliveIsTracked'
  BY <1>8 DEF AliveIsTracked, Alive, At, Root
<1> QED BY <1>1, <1>2, <1>3, <1>4, <1>5, <1>6, <1>7, <1>8, AllSteps
        DEF Steps, Progress, Answer, Arrive, Pass, EditCommit, Beside

\* Nobody gets through the barrier while the child it was told of, or would be told
\* of now, is alive.
LEMMA BarrierHolds ==
    ASSUME AliveIsTracked, Books, NEW e \in Edits, Arrive(e) \/ Pass(e),
           edit'[e].at = "passed"
    PROVE \A i \in RunIds : Alive(i) => Root(i) # EditRoot[e]
<1> SUFFICES ASSUME NEW i \in RunIds, Alive(i), Root(i) = EditRoot[e]
             PROVE FALSE
  OBVIOUS
<1>1. writer[EditRoot[e]] = i /\ i # NoRun
  BY DEF AliveIsTracked, RunIds, NoRun
<1>2. ~ Settled(i)
  BY DEF Settled, AfterClose, Alive, At
<1>3. CASE Arrive(e)
  BY <1>1, <1>3 DEF Arrive, Books
<1>4. CASE Pass(e)
  BY <1>1, <1>2, <1>4 DEF Pass, Books
<1> QED BY <1>3, <1>4

LEMMA BarrierStep ==
    ASSUME IInv, Books, AliveIsTracked, [Next]_vars,
           NEW e \in Edits, edit'[e].at = "passed", edit[e].at # "passed"
    PROVE \A i \in RunIds : Alive(i) => Root(i) # EditRoot[e]
<1>1. edit' # edit
  OBVIOUS
<1>2. PICK f \in Edits : Arrive(f) \/ Pass(f) \/ EditCommit(f)
  BY <1>1, AllSteps DEF Steps, Join, Create, Answer, Progress, Start, Resume, ChildClose, Untrack, GiveBack,
              Adopt, Adopted, Forget, ChildCommit, Beside
<1>3. f = e /\ ~ EditCommit(e)
  BY <1>2 DEF Arrive, Pass, EditCommit, Books, NoEdit
<1> QED BY <1>2, <1>3, BarrierHolds

-----------------------------------------------------------------------------
(* Resident copies *)

Unadopted == {"alive", "closed", "untracked", "returned"}

Copies ==
    /\ resident \in [Roots -> {"current", "old", "raced"}]
    /\ loads \in [Roots -> SUBSET {"current", "old"}]

Old(r) == resident[r] = "old"

\* A run leaves "returned" by adopting, which drops the copy; a copy gets old by the
\* commit of a live child, and no load publishes one the property means.
LEMMA StaleMoves ==
    ASSUME IInv, Copies, [Next]_vars
    PROVE /\ \A m \in RunIds : At(m, "returned") /\ run'[m].at # "returned" => resident'[Root(m)] # "old"
          /\ \A r \in Roots : Old(r)' /\ ~ Old(r) => \E i \in RunIds : run'[i].at = "alive" /\ Root(i)' = r
<1> USE DEF IInv
<1>0. \A m \in RunIds : Root(m) \in Roots
  BY ChildrenAssumption DEF Types, Root
<1>1. ASSUME NEW q \in Requests, NEW k \in Keys, NEW w \in BOOLEAN, Join(q, k, w) \/ Create(q, k, w)
      PROVE UNCHANGED copies /\ \A m \in RunIds : At(m, "returned") => run'[m].at = "returned"
  BY <1>1, JoinLives, CreateLives, SMTT(60) DEF Join, Create, Lives, Leads, Born, At
<1>2. ASSUME NEW i \in RunIds, Progress(i), ~ Adopt(i)
      PROVE UNCHANGED copies /\ \A m \in RunIds : At(m, "returned") => run'[m].at = "returned"
  <2>1. CASE Start(i) \/ Resume(i) \/ Untrack(i) \/ Adopted(i)
    BY <2>1, StartLives, MoveLives DEF Start, Resume, Untrack, Adopted, At
  <2>2. CASE ChildClose(i)
    BY <2>2, CloseLives DEF ChildClose, At
  <2>3. CASE GiveBack(i)
    BY <2>3, GiveBackLives DEF GiveBack, At
  <2>4. CASE Forget(i)
    BY <2>4 DEF Forget, At
  <2> QED BY <1>2, <2>1, <2>2, <2>3, <2>4 DEF Progress
<1>3. ASSUME NEW i \in RunIds, Adopt(i)
      PROVE /\ resident'[Root(i)] # "old" /\ \A r \in Roots : Old(r)' => Old(r)
            /\ \A m \in RunIds \ {i} : run'[m] = run[m]
  <2>1. \A m \in RunIds \ {i} : run'[m] = run[m]
    BY <1>3, MoveLives
  <2>3. resident' = [resident EXCEPT ![Root(i)] = "current"]
    BY <1>3 DEF Adopt, DropResident
  <2>4. resident'[Root(i)] = "current" /\ \A r \in Roots : resident'[r] = resident[r] \/ resident'[r] = "current"
    BY <1>0, <2>3 DEF Copies
  <2> QED BY <2>1, <2>4 DEF Old
<1>4. ASSUME NEW i \in RunIds, ChildCommit(i)
      PROVE /\ \A r \in Roots \ {Root(i)} : resident'[r] = resident[r]
            /\ run'[i].at = "alive" /\ Root(i)' = Root(i)
            /\ \A m \in RunIds : run'[m].at = run[m].at
  <2>1. resident' = [resident EXCEPT ![Root(i)] = "old"]
    BY <1>4 DEF ChildCommit
  <2>2. \A r \in Roots \ {Root(i)} : resident'[r] = resident[r]
    BY <2>1 DEF Copies
  <2> QED BY <1>4, <2>2, CommitLives DEF Lives, Born, At, Root
<1>5. ASSUME NEW e \in Edits, Arrive(e) \/ Pass(e) \/ EditCommit(e)
      PROVE run' = run /\ \A r \in Roots : Old(r)' => Old(r)
  <2>1. CASE EditCommit(e)
    <3>1. resident' = [resident EXCEPT ![EditRoot[e]] = "current"]
      BY <2>1 DEF EditCommit
    <3>2. \A r \in Roots : resident'[r] = resident[r] \/ resident'[r] = "current"
      BY <3>1 DEF Copies
    <3> QED BY <2>1, <3>2 DEF Old, EditCommit
  <2>2. CASE Arrive(e) \/ Pass(e)
    BY <2>2 DEF Arrive, Pass, copies, Old
  <2> QED BY <1>5, <2>1, <2>2
<1>6. ASSUME (\E q \in Requests : Answer(q)) \/ (Beside /\ UNCHANGED copies)
      PROVE resident' = resident /\ run' = run
  BY <1>6 DEF Answer, Beside, copies
<1>7. ASSUME Beside, Loading
      PROVE run' = run /\ \A r \in Roots : Old(r)' => Old(r)
  <2>1. PICK r \in Roots : Load(r) \/ Publish(r)
    BY <1>7 DEF Loading
  <2>2. CASE Load(r)
    BY <1>7, <2>2 DEF Load, Beside, Old
  <2>3. CASE Publish(r)
    <3>1. PICK c \in {"raced", "current"} : resident' = [resident EXCEPT ![r] = c]
      BY <2>3 DEF Publish
    <3>2. \A x \in Roots : resident'[x] = resident[x] \/ resident'[x] = c
      BY <3>1 DEF Copies
    <3> QED BY <1>7, <3>2 DEF Beside, Old
  <2> QED BY <2>1, <2>2, <2>3
<1>8. ASSUME UNCHANGED copies
      PROVE \A r \in Roots : Old(r)' <=> Old(r)
  BY <1>8 DEF copies, Old
<1> DEFINE Moves ==
      /\ \A m \in RunIds : At(m, "returned") /\ run'[m].at # "returned" => resident'[Root(m)] # "old"
      /\ \A r \in Roots : Old(r)' /\ ~ Old(r) => \E i \in RunIds : run'[i].at = "alive" /\ Root(i)' = r
<1>9. ASSUME NEW i \in RunIds, ChildCommit(i) PROVE Moves
  BY <1>4, <1>9 DEF At, Old
<1>10. ASSUME NEW i \in RunIds, Adopt(i) PROVE Moves
  BY <1>3, <1>10 DEF At
<1>11. ASSUME run' = run, \A r \in Roots : Old(r)' => Old(r) PROVE Moves
  BY <1>11 DEF At
<1>12. ASSUME UNCHANGED copies, \A m \in RunIds : At(m, "returned") => run'[m].at = "returned" PROVE Moves
  BY <1>8, <1>12
<1>13. ASSUME resident' = resident, run' = run PROVE Moves
  BY <1>11, <1>13 DEF Old
<1> HIDE DEF Moves
<1>14. ASSUME NEW q \in Requests, NEW k \in Keys, NEW w \in BOOLEAN, Join(q, k, w) \/ Create(q, k, w)
       PROVE Moves
  BY <1>1, <1>12, <1>14
<1>15. ASSUME NEW i \in RunIds, Progress(i) PROVE Moves
  BY <1>2, <1>10, <1>12, <1>15
<1>16. ASSUME NEW e \in Edits, Arrive(e) \/ Pass(e) \/ EditCommit(e) PROVE Moves
  BY <1>5, <1>11, <1>16
<1>17. ASSUME (\E q \in Requests : Answer(q)) \/ (Beside /\ UNCHANGED copies) PROVE Moves
  <2>1. resident' = resident /\ run' = run
    BY <1>6, <1>17
  <2> QED BY <1>13, <2>1
<1>18. ASSUME Beside, Loading PROVE Moves
  BY <1>7, <1>11, <1>18
<1>19. Moves
  BY <1>9, <1>14, <1>15, <1>16, <1>17, <1>18, AllSteps DEF Steps
<1> QED BY <1>19 DEF Moves

LEMMA StaleStep ==
    ASSUME IInv, Copies, [Next]_vars, StaleOnlyUntilAdopted
    PROVE StaleOnlyUntilAdopted'
<1> SUFFICES ASSUME NEW r \in Roots, Old(r)'
             PROVE \E i \in RunIds : Root(i)' = r /\ run'[i].at \in Unadopted
  BY DEF StaleOnlyUntilAdopted, Unadopted, Old
<1>1. CASE ~ Old(r)
  BY <1>1, StaleMoves DEF Unadopted
<1>2. CASE Old(r)
  <2>1. PICK m \in RunIds : Root(m) = r /\ run[m].at \in Unadopted
    BY <1>2 DEF StaleOnlyUntilAdopted, Unadopted, Old
  <2>2. ~ (At(m, "returned") /\ run'[m].at # "returned")
    BY <2>1, StaleMoves DEF Old
  <2>3. Leads(run[m].at, run'[m].at) /\ Root(m)' = r
    BY <2>1, Lifecycle DEF Lives, Born, At, Root, Unadopted
  <2> QED BY <2>1, <2>2, <2>3 DEF Leads, At, Unadopted
<1> QED BY <1>1, <1>2

LEMMA CopiesStep == ASSUME IInv, Copies, [Next]_vars PROVE Copies'
<1>1. ASSUME NEW i \in RunIds, Adopt(i) \/ ChildCommit(i) PROVE Copies'
  <2>1. PICK c \in {"current", "old"} : resident' = [resident EXCEPT ![Root(i)] = c]
    BY <1>1 DEF Adopt, DropResident, ChildCommit
  <2>2. \/ loads' = loads
        \/ loads' = [loads EXCEPT ![Root(i)] = IF @ = {} THEN @ ELSE {"old"}]
    BY <1>1 DEF Adopt, ChildCommit
  <2>3. loads' \in [Roots -> SUBSET {"current", "old"}]
    BY <2>2 DEF Copies
  <2> QED BY <2>1, <2>3 DEF Copies
<1>2. ASSUME NEW e \in Edits, EditCommit(e) PROVE Copies'
  BY <1>2 DEF EditCommit, Copies
<1>3. ASSUME NEW r \in Roots, Load(r) PROVE Copies'
  BY <1>3 DEF Load, Copies
<1>4. ASSUME NEW r \in Roots, Publish(r) PROVE Copies'
  <2>1. PICK l \in loads[r] :
          /\ resident' = [resident EXCEPT ![r] = IF l = "old" THEN "raced" ELSE "current"]
          /\ \E rest \in {loads[r], loads[r] \ {l}} : loads' = [loads EXCEPT ![r] = rest]
    BY <1>4 DEF Publish
  <2>2. PICK rest \in {loads[r], loads[r] \ {l}} : loads' = [loads EXCEPT ![r] = rest]
    BY <2>1
  <2>3. rest \in SUBSET {"current", "old"}
    BY DEF Copies
  <2>4. loads' \in [Roots -> SUBSET {"current", "old"}]
    BY <2>2, <2>3 DEF Copies
  <2>5. resident' \in [Roots -> {"current", "old", "raced"}]
    BY <2>1 DEF Copies
  <2> QED BY <2>4, <2>5 DEF Copies
<1>5. CASE UNCHANGED copies
  BY <1>5 DEF copies, Copies
<1>6. ASSUME NEW i \in RunIds, Progress(i), ~ Adopt(i) PROVE UNCHANGED copies
  BY <1>6 DEF Progress, Start, Resume, ChildClose, Untrack, GiveBack, Adopted, Forget
<1>7. ASSUME NEW e \in Edits, Arrive(e) \/ Pass(e) PROVE UNCHANGED copies
  BY <1>7 DEF Arrive, Pass
<1>8. ASSUME NEW q \in Requests, NEW k \in Keys, NEW w \in BOOLEAN,
             Join(q, k, w) \/ Create(q, k, w)
      PROVE UNCHANGED copies
  BY <1>8 DEF Join, Create
<1>9. ASSUME NEW q \in Requests, Answer(q) PROVE UNCHANGED copies
  BY <1>9 DEF Answer
<1> QED BY <1>1, <1>2, <1>3, <1>4, <1>5, <1>6, <1>7, <1>8, <1>9, AllSteps DEF Steps, Loading

-----------------------------------------------------------------------------
(* The wish for a watcher *)

KeysBorn == \A k \in Keys : byKey[k] # NoRun => Born(byKey[k])

Read(i) == run[i].at \in {"adopting", "done"}

\* A wish made in time is with the run until the run reads it, and then the watcher
\* is there if the walk was complete.
Granted(q) ==
    LET i == req[q].run IN
    /\ i \in RunIds /\ Born(i)
    /\ req[q].watch /\ ~ req[q].late =>
         \/ ~ Read(i) /\ run[i].watch
         \/ Read(i) /\ (run[i].outcome = "completed" => Root(i) \in watched)

Wishes == \A q \in Requests : req[q].at = "waiting" => Granted(q)

LEMMA WatchMoves ==
    ASSUME IInv, [Next]_vars
    PROVE /\ watched \subseteq watched'
          /\ \A m \in RunIds : ~ Read(m) /\ Read(m)' =>
                /\ ~ Alive(m)
                /\ run[m].outcome = "completed" /\ run[m].watch => Root(m) \in watched'
<1> USE DEF IInv
<1>1. ASSUME NEW q \in Requests, NEW k \in Keys, NEW w \in BOOLEAN, Join(q, k, w) \/ Create(q, k, w)
      PROVE watched' = watched /\ \A m \in RunIds : Read(m)' => Read(m)
  BY <1>1, JoinLives, CreateLives DEF Join, Create, Read
<1>2. ASSUME NEW i \in RunIds, Progress(i), ~ Adopt(i)
      PROVE watched' = watched /\ \A m \in RunIds : Read(m)' => Read(m)
  <2>1. CASE Start(i) \/ Resume(i) \/ Untrack(i) \/ Adopted(i)
    BY <2>1, StartLives, MoveLives DEF Start, Resume, Untrack, Adopted, Read
  <2>2. CASE ChildClose(i)
    BY <2>2, CloseLives DEF ChildClose, Read
  <2>3. CASE GiveBack(i)
    BY <2>3, GiveBackLives DEF GiveBack, Read
  <2>4. CASE Forget(i)
    BY <2>4 DEF Forget, Read
  <2> QED BY <1>2, <2>1, <2>2, <2>3, <2>4 DEF Progress
<1>3. ASSUME NEW i \in RunIds, Adopt(i)
      PROVE /\ watched \subseteq watched'
            /\ run[i].outcome = "completed" /\ run[i].watch => Root(i) \in watched'
            /\ ~ Alive(i) /\ \A m \in RunIds \ {i} : run'[m] = run[m]
  BY <1>3, MoveLives DEF Adopt, Alive, At
<1>4. ASSUME NEW i \in RunIds, ChildCommit(i)
      PROVE watched' = watched /\ \A m \in RunIds : Read(m)' => Read(m)
  BY <1>4, CommitLives DEF ChildCommit, Read
<1>5. ASSUME \/ \E e \in Edits : Arrive(e) \/ Pass(e) \/ EditCommit(e)
             \/ (\E q \in Requests : Answer(q)) \/ Beside
      PROVE watched' = watched /\ run' = run
  BY <1>5 DEF Arrive, Pass, EditCommit, Answer, Beside
<1> QED BY <1>1, <1>2, <1>3, <1>4, <1>5, AllSteps DEF Steps, Read

\* What a request was granted it keeps while it waits.
LEMMA GrantedStays ==
    ASSUME IInv, [Next]_vars, NEW q \in Requests, req'[q] = req[q], Granted(q)
    PROVE Granted(q)'
<1> DEFINE i == req[q].run
<1>1. i \in RunIds /\ Born(i) /\ req'[q].run = i
  BY DEF Granted
<1>2. Born(i)' /\ Root(i)' = Root(i) /\ (run[i].watch => run'[i].watch)
      /\ (~ Alive(i) => run'[i].outcome = run[i].outcome) /\ Leads(run[i].at, run'[i].at)
  BY <1>1, Lifecycle DEF Lives, Leads, Born, At, Root
<1>3. Read(i) => Read(i)' /\ ~ Alive(i)
  BY <1>2 DEF Leads, Read, Alive, At
<1>4. /\ watched \subseteq watched'
      /\ ~ Read(i) /\ Read(i)' => /\ ~ Alive(i)
                                  /\ run[i].outcome = "completed" /\ run[i].watch => Root(i) \in watched'
  BY <1>1, WatchMoves
<1> HIDE DEF i
<1> QED BY <1>1, <1>2, <1>3, <1>4 DEF Granted, i, Read

LEMMA JoinWishes ==
    ASSUME IInv, Books, KeysBorn, [Next]_vars,
           NEW q \in Requests, NEW k \in Keys, NEW w \in BOOLEAN, Join(q, k, w)
    PROVE Granted(q)' /\ \A p \in Requests \ {q} : req'[p] = req[p]
<1> DEFINE i == byKey[k]
<1>1. i \in RunIds /\ Born(i) /\ run'[i].at = run[i].at /\ (w => run'[i].watch)
  BY JoinLives DEF KeysBorn, Join
<1>2. req' = [req EXCEPT ![q] = [at |-> "waiting", run |-> i, watch |-> w,
                                 late |-> run[i].at \in {"adopting", "done"}]]
  BY DEF Join
<1>3. /\ req'[q].run = i /\ req'[q].watch = w /\ req'[q].late = (run[i].at \in {"adopting", "done"})
      /\ \A p \in Requests \ {q} : req'[p] = req[p]
  BY <1>2 DEF Books
<1> HIDE DEF i
<1> QED BY <1>1, <1>3 DEF Granted, Born, At, Read

LEMMA CreateWishes ==
    ASSUME IInv, Books, NEW q \in Requests, NEW k \in Keys, NEW w \in BOOLEAN, Create(q, k, w)
    PROVE Granted(q)' /\ \A p \in Requests \ {q} : req'[p] = req[p]
<1>1. PICK i \in RunIds :
        /\ run'[i].at = "chained" /\ run'[i].watch = w
        /\ req' = [req EXCEPT ![q] = [at |-> "waiting", run |-> i, watch |-> w, late |-> FALSE]]
  BY CreateLives
<1>2. /\ req'[q].run = i /\ req'[q].watch = w
      /\ \A p \in Requests \ {q} : req'[p] = req[p]
  BY <1>1 DEF Books
<1> QED BY <1>1, <1>2 DEF Granted, Born, At, Read

LEMMA WishesStep ==
    ASSUME IInv, Books, KeysBorn, Wishes, [Next]_vars
    PROVE Wishes'
<1> SUFFICES ASSUME NEW q \in Requests, req'[q].at = "waiting"
             PROVE Granted(q)'
  BY DEF Wishes
<1>1. CASE req'[q] = req[q]
  BY <1>1, GrantedStays DEF Wishes
<1>2. CASE req'[q] # req[q]
  <2>1. PICK p \in Requests :
           \/ \E k \in Keys, w \in BOOLEAN : Join(p, k, w) \/ Create(p, k, w)
           \/ Answer(p)
    BY <1>2, AllSteps DEF Steps, Progress, Start, Resume, ChildClose, Untrack, GiveBack, Adopt, Adopted,
                Forget, ChildCommit, Arrive, Pass, EditCommit, Beside
  <2>2. CASE Answer(p)
    BY <1>2, <2>2 DEF Answer, Books
  <2>3. ASSUME NEW k \in Keys, NEW w \in BOOLEAN, Join(p, k, w) \/ Create(p, k, w)
        PROVE Granted(q)'
    BY <1>2, <2>3, JoinWishes, CreateWishes
  <2> QED BY <2>1, <2>2, <2>3
<1> QED BY <1>1, <1>2

LEMMA KeysStep ==
    ASSUME IInv, KeysBorn, [Next]_vars
    PROVE KeysBorn'
<1> SUFFICES ASSUME NEW k \in Keys, byKey'[k] # NoRun PROVE run'[byKey'[k]].at # "unborn"
  BY DEF KeysBorn, Born, At
<1>1. CASE byKey'[k] = byKey[k]
  <2>1. byKey[k] \in RunIds /\ Born(byKey[k])
    BY <1>1 DEF KeysBorn, IInv, Types, RunIds, NoRun
  <2> QED BY <1>1, <2>1, Lifecycle DEF Lives, Leads, Born, At
<1>2. CASE byKey'[k] # byKey[k]
  <2>1. \/ \E q \in Requests, x \in Keys, w \in BOOLEAN : Create(q, x, w)
        \/ \E i \in RunIds : Forget(i)
    BY <1>2, AllSteps DEF Steps, Join, Answer, Progress, Start, Resume, ChildClose, Untrack, GiveBack, Adopt,
                Adopted, ChildCommit, Arrive, Pass, EditCommit, books, Beside
  <2>2. ASSUME NEW i \in RunIds, Forget(i) PROVE FALSE
    BY <1>2, <2>2 DEF Forget, IInv, Types
  <2>3. ASSUME NEW q \in Requests, NEW x \in Keys, NEW w \in BOOLEAN, Create(q, x, w)
        PROVE run'[byKey'[k]].at # "unborn"
    <3>1. PICK i \in RunIds :
            /\ run' = [run EXCEPT ![i] = [at |-> "chained", key |-> x,
                         prev |-> Predecessor(RootOf[x]), watch |-> w, outcome |-> "none"]]
            /\ byKey' = [byKey EXCEPT ![x] = i]
      BY <2>3 DEF Create
    <3>2. run'[i].at = "chained" /\ byKey'[k] = i
      BY <1>2, <3>1 DEF IInv, Types
    <3> QED BY <3>2 DEF Born, At
  <2> QED BY <2>1, <2>2, <2>3
<1> QED BY <1>1, <1>2

-----------------------------------------------------------------------------

BInv == IInv /\ Books /\ Copies /\ AliveIsTracked /\ StaleOnlyUntilAdopted /\ KeysBorn /\ Wishes

LEMMA InitBInv == Init => BInv
<1> SUFFICES ASSUME Init PROVE BInv
  OBVIOUS
<1>1. IInv
  BY InitIInv
<1>2. \A i \in RunIds : run[i].at = "unborn"
  BY DEF Init, Unborn
<1>3. Books
  <2>1. NoRequest \in [at : {"idle", "waiting", "answered"}, run : 0..MaxRuns,
                       watch : BOOLEAN, late : BOOLEAN]
    BY ChildrenAssumption DEF NoRequest, NoRun
  <2>2. NoEdit \in [at : {"idle", "waiting", "passed"}, run : 0..MaxRuns] /\ NoRun \in 0..MaxRuns
    BY ChildrenAssumption DEF NoEdit, NoRun
  <2> QED BY <2>1, <2>2 DEF Init, Books
<1>4. Copies /\ AliveIsTracked /\ StaleOnlyUntilAdopted
  BY <1>2 DEF Init, Copies, AliveIsTracked, StaleOnlyUntilAdopted, Alive, At
<1>5. KeysBorn /\ Wishes
  BY DEF Init, KeysBorn, Wishes, NoRequest
<1> QED BY <1>1, <1>3, <1>4, <1>5 DEF BInv

LEMMA BStep == BInv /\ IInv' /\ [Next]_vars => BInv'
BY BooksStep, CopiesStep, TrackedStep, StaleStep, KeysStep, WishesStep DEF BInv

LEMMA BInvariance == Spec => []BInv
<1>1. Init => BInv
  BY InitBInv
<1>2. BInv /\ [Next]_vars => BInv'
  <2>1. BInv /\ [Next]_vars => IInv'
    BY NextStep DEF BInv
  <2> QED BY <2>1, BStep
<1> QED BY <1>1, <1>2, PTL DEF Spec

\* An incremental write that asks the barrier (awaitExternalWriter) is told of every
\* live child of its index: a child is registered when it starts, before anything
\* else runs, and no other child of the root can have replaced it in the map.
THEOREM LiveChildrenAreTracked == Spec => []AliveIsTracked
<1>1. BInv => AliveIsTracked
  BY DEF BInv
<1> QED BY <1>1, BInvariance, PTL

\* However many children came and went while it waited, an incremental write gets
\* through the barrier only when no child of its root is alive.
THEOREM BarrierExcludesChildren == Spec => NoPassDuringChild
<1>1. BInv /\ [Next]_vars =>
        \A e \in Edits :
          edit'[e].at = "passed" /\ edit[e].at # "passed"
          => \A i \in RunIds : Alive(i) => Root(i) # EditRoot[e]
  BY BarrierStep DEF BInv
<1> QED BY <1>1, BInvariance, PTL DEF Spec, NoPassDuringChild

\* A resident index that a child's commit made old is dropped when that child's run
\* ends, with or without a result (indexFolderInChild's catch), however many loads are in
\* flight.  What a load begun before the commit publishes after it is not meant:
\* getCodeIndex may put it back after the drop (registry.ts:318).
THEOREM StaleIsDropped == Spec => []StaleOnlyUntilAdopted
<1>1. BInv => StaleOnlyUntilAdopted
  BY DEF BInv
<1> QED BY <1>1, BInvariance, PTL

\* A caller that asks for a watcher before its run reads the wish is answered with the
\* watcher running, if the walk was complete (ChildRun.wants).
THEOREM EarlyWishIsGranted == Spec => EarlyWatchHonoured
<1>1. BInv /\ [Next]_vars =>
        \A q \in Requests :
          /\ req[q].at = "waiting" /\ req'[q].at = "answered"
          /\ req[q].watch /\ ~ req[q].late /\ run[req[q].run].outcome = "completed"
          => Root(req[q].run) \in watched
  <2> SUFFICES ASSUME BInv, [Next]_vars, NEW q \in Requests,
                      req[q].at = "waiting", req'[q].at = "answered",
                      req[q].watch, ~ req[q].late, run[req[q].run].outcome = "completed"
               PROVE Root(req[q].run) \in watched
    OBVIOUS
  <2>1. PICK p \in Requests :
           \/ \E k \in Keys, w \in BOOLEAN : Join(p, k, w) \/ Create(p, k, w)
           \/ Answer(p)
    BY AllSteps DEF Steps, Progress, Start, Resume, ChildClose, Untrack, GiveBack, Adopt, Adopted,
           Forget, ChildCommit, Arrive, Pass, EditCommit, Beside
  <2>2. Answer(q)
    <3>1. ASSUME NEW k \in Keys, NEW w \in BOOLEAN, Join(p, k, w) \/ Create(p, k, w)
          PROVE req'[q].at # "answered"
      BY <3>1 DEF BInv, Books, Join, Create
    <3> QED BY <2>1, <3>1 DEF Answer, BInv, Books
  <2>3. Granted(q) /\ Read(req[q].run)
    BY <2>2 DEF BInv, Wishes, Answer, Read, At
  <2> QED BY <2>3 DEF Granted
<1> QED BY <1>1, BInvariance, PTL DEF Spec, EarlyWatchHonoured


-----------------------------------------------------------------------------
(* The gate on index children: its counter is the runs that hold a slot, and  *)
(* the live children are a semaphore with Cap places, for any Cap.            *)

\* A slot is held from the hand-over, or the spawn, to the give-back.
Holding == {"woken", "alive", "closed", "untracked"}
Held == {i \in RunIds : run[i].at \in Holding}
Live == {i \in RunIds : Alive(i)}

Slots ==
    /\ running \in Nat /\ running = Cardinality(Held) /\ running <= Cap
    /\ parked # <<>> => running = Cap

LEMMA HeldFinite ==
    /\ IsFiniteSet(Held)
    /\ Live \subseteq Held /\ Cardinality(Live) <= Cardinality(Held)
    /\ Cardinality(Live) \in Nat /\ Cardinality(Held) \in Nat
<1>1. IsFiniteSet(RunIds)
  BY FS_Interval, ChildrenAssumption DEF RunIds
<1>2. IsFiniteSet(Held)
  BY <1>1, FS_Subset DEF Held
<1>3. Live \subseteq Held
  BY DEF Live, Held, Holding, Alive, At
<1>4. IsFiniteSet(Live) /\ Cardinality(Live) <= Cardinality(Held)
  BY <1>2, <1>3, FS_Subset
<1> QED BY <1>2, <1>3, <1>4, FS_CardinalityType

LEMMA QuietSlots ==
    ASSUME Slots, UNCHANGED slots,
           \A j \in RunIds : run'[j].at \in Holding <=> run[j].at \in Holding
    PROVE Slots'
<1>1. Held' = Held
  BY DEF Held
<1> QED BY <1>1 DEF Slots, slots

\* All but run i stay where they are, and i moves without taking or leaving a slot.
LEMMA MoveSlots ==
    ASSUME Slots, UNCHANGED slots, NEW i \in RunIds,
           run'[i].at \in Holding <=> run[i].at \in Holding,
           \A j \in RunIds \ {i} : run'[j] = run[j]
    PROVE Slots'
<1>1. \A j \in RunIds : run'[j].at \in Holding <=> run[j].at \in Holding
  OBVIOUS
<1> QED BY <1>1, QuietSlots

LEMMA StartSlots ==
    ASSUME IInv, Slots, NEW i \in RunIds, Start(i)
    PROVE Slots'
<1>1. /\ run[i].at = "chained" /\ \A j \in RunIds \ {i} : run'[j] = run[j]
      /\ run'[i].at \in {"parked", "alive"}
  BY StartLives DEF Spawn, IInv
<1>2. i \notin Held
  BY <1>1 DEF Held, Holding
<1>3. Cap \in Nat
  BY ChildrenAssumption
<1>4. CASE running >= Cap
  <2>1. run'[i].at = "parked" /\ running' = running
    BY <1>4 DEF Start, Go, IInv, Types
  <2>2. Held' = Held
    BY <1>1, <2>1 DEF Held, Holding
  <2>3. running = Cap
    BY <1>3, <1>4 DEF Slots
  <2> QED BY <2>1, <2>2, <2>3 DEF Slots
<1>5. CASE ~ (running >= Cap)
  <2>1. run'[i].at = "alive" /\ running' = running + 1 /\ parked' = parked
    BY <1>5 DEF Start, Spawn, Go, IInv, Types
  <2>2. Held' = Held \cup {i}
    BY <1>1, <2>1 DEF Held, Holding
  <2>3. Cardinality(Held') = running + 1
    BY <1>2, <2>2, HeldFinite, FS_AddElement DEF Slots
  <2>4. parked = <<>> /\ running + 1 <= Cap
    BY <1>3, <1>5 DEF Slots
  <2> QED BY <2>1, <2>3, <2>4 DEF Slots
<1> QED BY <1>4, <1>5

LEMMA GiveBackSlots ==
    ASSUME IInv, Slots, NEW i \in RunIds, GiveBack(i)
    PROVE Slots'
<1>1. run[i].at = "untracked" /\ run'[i].at = "returned" /\ i \in Held
  BY GiveBackLives DEF Held, Holding
<1>2. IsFiniteSet(Held \ {i}) /\ Cardinality(Held \ {i}) = running - 1
  BY <1>1, HeldFinite, FS_RemoveElement DEF Slots
<1>3. Cap \in Nat
  BY ChildrenAssumption
<1>4. CASE parked = <<>>
  <2>1. running' = running - 1 /\ parked' = parked
    BY <1>4 DEF GiveBack
  <2>2. Held' = Held \ {i}
    BY <1>1, <1>4, GiveBackLives DEF Held, Holding
  <2>3. running - 1 \in Nat
    <3>1. running - 1 = Cardinality(Held \ {i})
      BY <1>2
    <3> QED BY <1>2, <3>1, FS_CardinalityType
  <2> QED BY <1>2, <1>3, <1>4, <2>1, <2>2, <2>3 DEF Slots
<1>5. CASE parked # <<>>
  <2> DEFINE h == Head(parked)
  <2>1. running' = running /\ running = Cap
    BY <1>5 DEF GiveBack, Slots
  <2>2. /\ h \in RunIds \ {i} /\ run[h].at = "parked" /\ run'[h].at = "woken"
        /\ \A j \in RunIds \ {i, h} : run'[j] = run[j]
    BY <1>5, GiveBackLives
  <2> HIDE DEF h
  <2>3. h \notin Held \ {i} /\ Held' = (Held \ {i}) \cup {h}
    BY <1>1, <2>2 DEF Held, Holding
  <2>4. Cardinality(Held') = (running - 1) + 1
    BY <1>2, <2>3, FS_AddElement
  <2>5. Cardinality(Held') = running
    BY <2>4 DEF Slots
  <2> QED BY <2>1, <2>5, <1>3 DEF Slots
<1> QED BY <1>4, <1>5

LEMMA SlotsStep ==
    ASSUME IInv, Slots, [Next]_vars
    PROVE Slots'
<1> USE DEF IInv
<1>1. ASSUME NEW q \in Requests, NEW k \in Keys, NEW w \in BOOLEAN, Join(q, k, w)
      PROVE Slots'
  BY <1>1, JoinLives, QuietSlots DEF Join
<1>2. ASSUME NEW q \in Requests, NEW k \in Keys, NEW w \in BOOLEAN, Create(q, k, w)
      PROVE Slots'
  <2>1. PICK i \in RunIds :
          /\ ~ Born(i) /\ run'[i].at = "chained" /\ \A j \in RunIds \ {i} : run'[j] = run[j]
    BY <1>2, CreateLives
  <2>2. run'[i].at \in Holding <=> run[i].at \in Holding
    BY <2>1 DEF Born, At, Holding
  <2>3. UNCHANGED slots
    BY <1>2 DEF Create
  <2> QED BY <2>1, <2>2, <2>3, MoveSlots
<1>3. ASSUME NEW i \in RunIds, Resume(i) \/ Untrack(i) \/ Adopt(i) \/ Adopted(i)
      PROVE Slots'
  <2>1. run'[i].at \in Holding <=> run[i].at \in Holding
    BY <1>3, MoveLives DEF Holding
  <2>2. UNCHANGED slots /\ \A j \in RunIds \ {i} : run'[j] = run[j]
    BY <1>3, MoveLives DEF Resume, Untrack, Adopt, Adopted
  <2> QED BY <2>1, <2>2, MoveSlots
<1>4. ASSUME NEW i \in RunIds, ChildClose(i) PROVE Slots'
  <2>1. run'[i].at \in Holding <=> run[i].at \in Holding
    BY <1>4, CloseLives DEF Holding
  <2>2. UNCHANGED slots /\ \A j \in RunIds \ {i} : run'[j] = run[j]
    BY <1>4, CloseLives DEF ChildClose
  <2> QED BY <2>1, <2>2, MoveSlots
<1>5. ASSUME NEW i \in RunIds, ChildCommit(i) PROVE Slots'
  BY <1>5, CommitLives, QuietSlots DEF ChildCommit
<1>6. ASSUME run' = run, UNCHANGED slots PROVE Slots'
  BY <1>6, QuietSlots
<1>7. ASSUME NEW i \in RunIds, Progress(i) PROVE Slots'
  BY <1>3, <1>4, <1>6, <1>7, StartSlots, GiveBackSlots DEF Progress, Forget
<1>8. ASSUME \/ \E q \in Requests : Answer(q)
             \/ \E e \in Edits : Arrive(e) \/ Pass(e) \/ EditCommit(e)
             \/ Beside
      PROVE Slots'
  BY <1>6, <1>8 DEF Answer, Arrive, Pass, EditCommit, Beside, slots
<1> QED BY <1>1, <1>2, <1>5, <1>7, <1>8, AllSteps DEF Steps

LEMMA InitSlots == Init => Slots
<1> SUFFICES ASSUME Init PROVE Slots
  OBVIOUS
<1>1. Held = {}
  BY DEF Init, Unborn, Held, Holding
<1> QED BY <1>1, FS_EmptySet, ChildrenAssumption DEF Init, Slots

SInv == BInv /\ Slots

LEMMA SInvariance == Spec => []SInv
<1>1. BInv /\ Slots /\ [Next]_vars => Slots'
  BY SlotsStep DEF BInv
<1> QED BY <1>1, InitSlots, BInvariance, PTL DEF Spec, SInv

-----------------------------------------------------------------------------

\* withIndexChildSlot's counter is exactly the runs that hold a slot, hand-overs and
\* failed children included, and a run waits only while every slot is held.
THEOREM SlotsAreHeld == Spec => []SlotsHeld
<1>1. SInv => SlotsHeld
  BY DEF SInv, Slots, SlotsHeld, Held, Holding
<1> QED BY <1>1, SInvariance, PTL

\* Every variable keeps its type.
THEOREM TypesHold == Spec => []TypeOK
<1>1. SInv => TypeOK
  BY DEF SInv, Slots, BInv, Books, Copies, IInv, Types, TypeOK, Stages, Outcomes
<1> QED BY <1>1, SInvariance, PTL

\* A child starts in a slot that was free, or that its run was handed.
LEMMA EntersInSlot ==
    ASSUME Slots, NEW m \in RunIds, ~ Alive(m), Alive(m)',
           \A j \in RunIds \ {m} : run'[j] = run[j], running < Cap \/ m \in Held
    PROVE m \notin Live /\ Cardinality(Live) < Cap /\ Live' = Live \cup {m}
<1>1. m \notin Live /\ Live' = Live \cup {m}
  BY DEF Live, Alive, At
<1>2. Cap \in Nat
  BY ChildrenAssumption
<1>3. CASE running < Cap
  BY <1>1, <1>2, <1>3, HeldFinite DEF Slots
<1>4. CASE m \in Held
  <2>1. IsFiniteSet(Live)
    BY HeldFinite, FS_Subset
  <2>2. Cardinality(Live \cup {m}) = Cardinality(Live) + 1
    BY <1>1, <2>1, FS_AddElement
  <2>3. Live \cup {m} \subseteq Held
    BY <1>4, HeldFinite
  <2>4. Cardinality(Live) + 1 <= Cardinality(Held)
    BY <2>2, <2>3, HeldFinite, FS_Subset
  <2> QED BY <1>1, <1>2, <2>4, HeldFinite DEF Slots
<1> QED BY <1>3, <1>4

\* The children that were alive and the ones that are, as the semaphore sees them.
LiveMoves ==
    \/ \E m \in RunIds : m \notin Live /\ Cardinality(Live) < Cap /\ Live' = Live \cup {m}
    \/ \E m \in RunIds : m \in Live /\ Live' = Live \ {m}
    \/ Live' = Live

LEMMA SameLive ==
    ASSUME \A j \in RunIds : run'[j].at = "alive" <=> run[j].at = "alive"
    PROVE LiveMoves
BY DEF LiveMoves, Live, Alive, At

LEMMA SameLiveButOne ==
    ASSUME NEW i \in RunIds, \A j \in RunIds \ {i} : run'[j] = run[j],
           run'[i].at = "alive" <=> run[i].at = "alive"
    PROVE LiveMoves
<1>1. \A j \in RunIds : run'[j].at = "alive" <=> run[j].at = "alive"
  OBVIOUS
<1> QED BY <1>1, SameLive

LEMMA StartLive ==
    ASSUME IInv, Slots, NEW i \in RunIds, Start(i)
    PROVE LiveMoves
<1>1. run[i].at = "chained" /\ \A j \in RunIds \ {i} : run'[j] = run[j]
  BY StartLives DEF IInv
<1>2. CASE running >= Cap
  <2>1. run'[i].at = "parked"
    BY <1>2 DEF Start, Go, IInv, Types
  <2> QED BY <1>1, <2>1, SameLiveButOne
<1>3. CASE ~ (running >= Cap)
  <2>1. run'[i].at = "alive"
    BY <1>3 DEF Start, Spawn, Go, IInv, Types
  <2>2. running < Cap
    BY <1>3, ChildrenAssumption DEF Slots
  <2>3. ~ Alive(i) /\ Alive(i)'
    BY <1>1, <2>1 DEF Alive, At
  <2> QED BY <1>1, <2>2, <2>3, EntersInSlot DEF LiveMoves
<1> QED BY <1>2, <1>3

LEMMA MoveLive ==
    ASSUME IInv, Slots, NEW i \in RunIds,
           Resume(i) \/ Untrack(i) \/ Adopt(i) \/ Adopted(i) \/ ChildClose(i)
    PROVE LiveMoves
<1>1. CASE Resume(i)
  <2>1. run[i].at = "woken" /\ run'[i].at = "alive" /\ \A j \in RunIds \ {i} : run'[j] = run[j]
    BY <1>1, MoveLives DEF IInv
  <2>2. ~ Alive(i) /\ Alive(i)' /\ i \in Held
    BY <2>1 DEF Alive, At, Held, Holding
  <2> QED BY <2>1, <2>2, EntersInSlot DEF LiveMoves
<1>2. CASE Untrack(i) \/ Adopt(i) \/ Adopted(i)
  <2>1. run[i].at # "alive" /\ run'[i].at # "alive" /\ \A j \in RunIds \ {i} : run'[j] = run[j]
    BY <1>2, MoveLives DEF IInv
  <2> QED BY <2>1, SameLiveButOne
<1>3. CASE ChildClose(i)
  <2>1. run[i].at = "alive" /\ run'[i].at = "closed" /\ \A j \in RunIds \ {i} : run'[j] = run[j]
    BY <1>3, CloseLives DEF IInv
  <2>2. i \in Live /\ Live' = Live \ {i}
    BY <2>1 DEF Live, Alive, At
  <2> QED BY <2>2 DEF LiveMoves
<1> QED BY <1>1, <1>2, <1>3

LEMMA GiveBackLive ==
    ASSUME IInv, NEW i \in RunIds, GiveBack(i)
    PROVE LiveMoves
<1>1. run[i].at # "alive" /\ run'[i].at # "alive"
  BY GiveBackLives
<1>2. \A j \in RunIds : run'[j].at = "alive" <=> run[j].at = "alive"
  <2>1. CASE \A j \in RunIds \ {i} : run'[j] = run[j]
    BY <1>1, <2>1
  <2>2. CASE /\ Head(parked) \in RunIds \ {i}
             /\ run[Head(parked)].at = "parked" /\ run'[Head(parked)].at = "woken"
             /\ \A j \in RunIds \ {i, Head(parked)} : run'[j] = run[j]
    BY <1>1, <2>2
  <2> QED BY <2>1, <2>2, GiveBackLives
<1> QED BY <1>2, SameLive

LEMMA LiveStep ==
    ASSUME IInv, Slots, [Next]_vars
    PROVE LiveMoves
<1>1. ASSUME NEW q \in Requests, NEW k \in Keys, NEW w \in BOOLEAN, Join(q, k, w)
      PROVE LiveMoves
  BY <1>1, JoinLives, SameLive
<1>2. ASSUME NEW q \in Requests, NEW k \in Keys, NEW w \in BOOLEAN, Create(q, k, w)
      PROVE LiveMoves
  <2>1. PICK i \in RunIds :
          /\ ~ Born(i) /\ run'[i].at = "chained" /\ \A j \in RunIds \ {i} : run'[j] = run[j]
    BY <1>2, CreateLives
  <2>2. run'[i].at = "alive" <=> run[i].at = "alive"
    BY <2>1 DEF Born, At
  <2> QED BY <2>1, <2>2, SameLiveButOne
<1>3. ASSUME NEW i \in RunIds, ChildCommit(i) PROVE LiveMoves
  BY <1>3, CommitLives, SameLive DEF IInv
<1>4. ASSUME run' = run PROVE LiveMoves
  BY <1>4, SameLive
<1>5. ASSUME NEW i \in RunIds, Progress(i) PROVE LiveMoves
  BY <1>4, <1>5, StartLive, MoveLive, GiveBackLive DEF Progress, Forget
<1>6. ASSUME \/ \E q \in Requests : Answer(q)
             \/ \E e \in Edits : Arrive(e) \/ Pass(e) \/ EditCommit(e)
             \/ Beside
      PROVE LiveMoves
  BY <1>4, <1>6 DEF Answer, Arrive, Pass, EditCommit, Beside
<1> QED BY <1>1, <1>2, <1>3, <1>5, <1>6, AllSteps DEF Steps

\* The live children implement the semaphore: at most Cap index children are alive,
\* and one that waits is never started in a place another still holds.
THEOREM CapIsRespected == Spec => CapRespected
<1>1. Init => Places!Init
  <2> SUFFICES ASSUME Init PROVE {i \in RunIds : Alive(i)} = {}
    BY DEF Places!Init
  <2> QED BY DEF Init, Unborn, Alive, At
<1>2. SInv /\ [Next]_vars => [Places!Next]_{i \in RunIds : Alive(i)}
  <2> SUFFICES ASSUME SInv, [Next]_vars
               PROVE [Places!Next]_{i \in RunIds : Alive(i)}
    OBVIOUS
  <2>1. LiveMoves
    BY LiveStep DEF SInv, BInv
  <2>2. Places!Cardinality(Live) = Cardinality(Live)
    BY DEF Places!Cardinality, Cardinality
  <2>3. ASSUME NEW m \in RunIds, m \notin Live, Cardinality(Live) < Cap, Live' = Live \cup {m}
        PROVE Places!Next
    BY <2>2, <2>3 DEF Live, Places!Next, Places!Enter
  <2>4. ASSUME NEW m \in RunIds, m \in Live, Live' = Live \ {m}
        PROVE Places!Next
    BY <2>4 DEF Live, Places!Next, Places!Leave
  <2> QED BY <2>1, <2>3, <2>4 DEF LiveMoves, Live
<1> QED BY <1>1, <1>2, SInvariance, PTL DEF Spec, CapRespected, Places!Spec

=============================================================================
