---------------------------- MODULE FileLockProof ----------------------------
(***************************************************************************)
(* The file lock for any number of processes, attempts, deaths and failed  *)
(* operations, in three parts: reservations; one process at a time under   *)
(* the takeover lock; one owner of the lock.  Each part says which of the  *)
(* admitted hazards it has to do without.                                  *)
(***************************************************************************)
EXTENDS FileLock, TLAPS

Ats == {"idle", "link", "read", "judge", "take", "readTaker", "judgeTaker", "clearTaker",
        "reread", "rejudge", "remove", "relink", "readMine", "drop", "owner"}
Files == Procs \cup {None, Junk, OldJunk}
AcqSet == [at : Ats, try : 0..(Attempts - 1), clear : 0..(Clears - 1), seen : Files,
           then : {"idle", "give up", "own", "retry"}]

\* Only p moves, to one of these places.
Moves(p, places) ==
    /\ acq' \in [Procs -> AcqSet] /\ acq'[p].at \in places
    /\ \A q \in Procs \ {p} : acq'[q] = acq[q]
\* And its reservation goes if it is at rest.
Keeps(p) == held' = IF acq'[p].at = "idle" THEN held \ {p} ELSE held

-----------------------------------------------------------------------------
(* Where the helpers lead *)

LEMMA RestingIs == Resting \in AcqSet /\ Resting.at = "idle" /\ Reserved \in AcqSet /\ Reserved.at = "link"
                   /\ \A n \in 0..(Attempts - 1) : [Reserved EXCEPT !.try = n] \in AcqSet
<1>1. 0 \in 0..(Attempts - 1) /\ 0 \in 0..(Clears - 1)
  BY LockAssumption
<1>2. Resting \in AcqSet /\ Resting.at = "idle"
  BY <1>1 DEF Resting, AcqSet, Ats, Files
<1>3. Reserved \in AcqSet /\ Reserved.at = "link"
  BY <1>2 DEF Reserved, Resting, AcqSet, Ats
<1>4. \A n \in 0..(Attempts - 1) : [Reserved EXCEPT !.try = n] \in AcqSet
  BY <1>3 DEF AcqSet
<1> QED BY <1>2, <1>3, <1>4

LEMMA ToMoves ==
    ASSUME acq \in [Procs -> AcqSet], NEW p \in Procs, NEW s \in Ats, To(p, s)
    PROVE  Moves(p, {s}) /\ acq'[p].then = acq[p].then
  BY ZenonT(60) DEF To, Moves, AcqSet, Files

LEMMA SawMoves ==
    ASSUME acq \in [Procs -> AcqSet], NEW p \in Procs, NEW s \in Ats, NEW what \in Files, Saw(p, s, what)
    PROVE  Moves(p, {s}) /\ acq'[p].seen = what /\ acq'[p].then = acq[p].then
  BY DEF Saw, Moves, AcqSet

LEMMA GiveUpMoves ==
    ASSUME acq \in [Procs -> AcqSet], NEW p \in Procs, GiveUp(p)
    PROVE  Moves(p, {"idle"}) /\ Keeps(p)
  BY RestingIs DEF GiveUp, Moves, Keeps

LEMMA RetryMoves ==
    ASSUME acq \in [Procs -> AcqSet], NEW p \in Procs, Retry(p)
    PROVE  Moves(p, {"idle", "link"}) /\ Keeps(p)
<1>1. CASE acq[p].try + 1 < Attempts
  <2>0. PICK k \in 0..(Attempts - 1) : k = acq[p].try
    BY DEF AcqSet
  <2>1. PICK n \in 0..(Attempts - 1) : n = acq[p].try + 1
    BY <1>1, <2>0, LockAssumption
  <2>2. PICK r \in AcqSet : r = [Reserved EXCEPT !.try = n] /\ r.at = "link"
    BY RestingIs DEF Reserved, Resting
  <2>3. acq' = [acq EXCEPT ![p] = r] /\ held' = held
    BY <1>1, <2>1, <2>2 DEF Retry
  <2> QED BY <2>2, <2>3 DEF Moves, Keeps
<1>2. CASE ~ (acq[p].try + 1 < Attempts)
  BY <1>2, GiveUpMoves DEF Retry, Moves
<1> QED BY <1>1, <1>2

LEMMA TakeAgainMoves ==
    ASSUME acq \in [Procs -> AcqSet], NEW p \in Procs, TakeAgain(p)
    PROVE  Moves(p, {"idle", "link", "take"}) /\ Keeps(p)
<1>1. CASE acq[p].clear + 1 < Clears
  <2>0. PICK k \in 0..(Clears - 1), a \in AcqSet : k = acq[p].clear /\ a = acq[p]
    BY DEF AcqSet
  <2>1. PICK n \in 0..(Clears - 1) : n = acq[p].clear + 1
    BY <1>1, <2>0, LockAssumption
  <2>2. PICK r : r = [a EXCEPT !.at = "take", !.seen = None, !.clear = n]
    OBVIOUS
  <2>3. r \in AcqSet /\ r.at = "take"
    BY <2>2 DEF AcqSet, Ats, Files
  <2>4. acq' = [acq EXCEPT ![p] = r] /\ held' = held
    BY <1>1, <2>0, <2>1, <2>2 DEF TakeAgain, AcqSet
  <2> QED BY <2>3, <2>4 DEF Moves, Keeps
<1>2. CASE ~ (acq[p].clear + 1 < Clears)
  BY <1>2, RetryMoves DEF TakeAgain, Moves
<1> QED BY <1>1, <1>2

LEMMA LeaveTakeoverMoves ==
    ASSUME acq \in [Procs -> AcqSet], NEW p \in Procs,
           NEW then \in {"give up", "own", "retry"}, LeaveTakeover(p, then)
    PROVE  Moves(p, {"readMine"}) /\ acq'[p].then = then
<1>1. PICK a \in AcqSet : a = acq[p]
  OBVIOUS
<1>2. PICK r : r = [a EXCEPT !.at = "readMine", !.seen = None, !.then = then]
  OBVIOUS
<1>3. r \in AcqSet /\ r.at = "readMine" /\ r.then = then
  BY <1>2 DEF AcqSet, Ats, Files
<1>4. acq' = [acq EXCEPT ![p] = r]
  BY <1>1, <1>2 DEF LeaveTakeover, AcqSet
<1> QED BY <1>3, <1>4 DEF Moves

LEMMA LeaveMoves ==
    ASSUME acq \in [Procs -> AcqSet], NEW p \in Procs, Leave(p)
    PROVE  /\ Moves(p, {"idle", "link", "owner"}) /\ Keeps(p)
           /\ acq'[p].at = "owner" => acq[p].then = "own"
<1>1. CASE acq[p].then = "own"
  <2>1. "owner" \in Ats /\ To(p, "owner") /\ held' = held
    BY <1>1 DEF Leave, Ats
  <2> QED BY <1>1, <2>1, ToMoves DEF Moves, Keeps
<1>2. CASE acq[p].then = "retry"
  BY <1>2, RetryMoves DEF Leave, Moves
<1>3. CASE acq[p].then \notin {"own", "retry"}
  BY <1>3, GiveUpMoves DEF Leave, Moves
<1> QED BY <1>1, <1>2, <1>3

-----------------------------------------------------------------------------
(* What each step of acquireLock does *)

Acquiring == acq \in [Procs -> AcqSet] /\ lock \in Files /\ takeover \in Procs \cup {None}

\* A step of p's acquireLock to one of these places.
Step(p, places) ==
    /\ Moves(p, places) /\ Keeps(p)
    /\ p \in alive /\ acq[p].at # "idle" /\ UNCHANGED <<alive, rel>>

LEMMA LinkDoes ==
    ASSUME Acquiring, NEW p \in Procs, Link(p)
    PROVE  /\ acq[p].at = "link" /\ UNCHANGED takeover
           /\ \/ Step(p, {"owner"}) /\ lock = None /\ lock' = p
              \/ Step(p, {"read"}) /\ UNCHANGED lock
<1>1. /\ p \in alive /\ acq[p].at = "link" /\ UNCHANGED <<alive, rel, held, takeover>>
      /\ \/ lock = None /\ lock' = p /\ To(p, "owner")
         \/ UNCHANGED lock /\ To(p, "read")
  BY DEF Link, At
<1>2. {"owner", "read"} \subseteq Ats
  BY DEF Ats
<1> QED BY <1>1, <1>2, ToMoves DEF Acquiring, Step, Moves, Keeps

LEMMA ReadDoes ==
    ASSUME Acquiring, NEW p \in Procs, Read(p)
    PROVE  Step(p, {"judge"}) /\ UNCHANGED <<lock, takeover>>
<1>1. "judge" \in Ats /\ Saw(p, "judge", lock) /\ At(p, "read") /\ UNCHANGED <<lock, takeover, alive, held, rel>>
  BY DEF Read, Ats
<1> QED BY <1>1, SawMoves DEF Acquiring, Step, Moves, Keeps, At

LEMMA JudgeDoes ==
    ASSUME Acquiring, NEW p \in Procs, Judge(p)
    PROVE  Step(p, {"idle", "link", "take"}) /\ UNCHANGED <<lock, takeover>>
<1>1. /\ "take" \in Ats /\ At(p, "judge") /\ UNCHANGED <<lock, takeover, alive, rel>>
      /\ Retry(p) \/ GiveUp(p) \/ (To(p, "take") /\ UNCHANGED held)
  BY DEF Judge, Ats
<1> QED BY <1>1, RetryMoves, GiveUpMoves, ToMoves DEF Acquiring, Step, Moves, Keeps, At

LEMMA TakeDoes ==
    ASSUME Acquiring, NEW p \in Procs, Take(p)
    PROVE  /\ acq[p].at = "take" /\ UNCHANGED lock
           /\ \/ Step(p, {"reread"}) /\ takeover = None /\ takeover' = p
              \/ Step(p, {"readTaker"}) /\ UNCHANGED takeover
<1>1. /\ {"reread", "readTaker"} \subseteq Ats /\ At(p, "take") /\ UNCHANGED <<lock, alive, held, rel>>
      /\ \/ takeover = None /\ takeover' = p /\ To(p, "reread")
         \/ UNCHANGED takeover /\ To(p, "readTaker")
  BY DEF Take, Ats
<1> QED BY <1>1, ToMoves DEF Acquiring, Step, Moves, Keeps, At

LEMMA ReadTakerDoes ==
    ASSUME Acquiring, NEW p \in Procs, ReadTaker(p)
    PROVE  /\ acq[p].at = "readTaker" /\ Step(p, {"judgeTaker"}) /\ acq'[p].seen = takeover
           /\ UNCHANGED <<lock, takeover>>
<1>1. "judgeTaker" \in Ats /\ Saw(p, "judgeTaker", takeover) /\ At(p, "readTaker") /\ UNCHANGED <<lock, takeover, alive, held, rel>>
  BY DEF ReadTaker, Ats
<1>2. takeover \in Files
  BY DEF Acquiring, Files
<1> QED BY <1>1, <1>2, SawMoves DEF Acquiring, Step, Moves, Keeps, At

LEMMA JudgeTakerDoes ==
    ASSUME Acquiring, NEW p \in Procs, JudgeTaker(p)
    PROVE  /\ acq[p].at = "judgeTaker" /\ UNCHANGED <<lock, takeover>>
           /\ \/ Step(p, {"idle", "link", "take"})
              \/ Step(p, {"clearTaker"}) /\ acq[p].seen # None /\ ~Holds(acq[p].seen, p)
<1>1. /\ "clearTaker" \in Ats /\ At(p, "judgeTaker") /\ UNCHANGED <<lock, takeover, alive, rel>>
      /\ \/ TakeAgain(p) \/ Retry(p)
         \/ To(p, "clearTaker") /\ UNCHANGED held /\ acq[p].seen # None /\ ~Holds(acq[p].seen, p)
  BY DEF JudgeTaker, Ats
<1> QED BY <1>1, RetryMoves, TakeAgainMoves, ToMoves DEF Acquiring, Step, Moves, Keeps, At

LEMMA ClearTakerDoes ==
    ASSUME Acquiring, NEW p \in Procs, ClearTaker(p)
    PROVE  /\ acq[p].at = "clearTaker" /\ Step(p, {"idle", "link", "take"})
           /\ takeover' = None /\ UNCHANGED lock
<1>1. At(p, "clearTaker") /\ takeover' = None /\ TakeAgain(p) /\ UNCHANGED <<lock, alive, rel>>
  BY DEF ClearTaker
<1> QED BY <1>1, TakeAgainMoves DEF Acquiring, Step, Moves, Keeps, At

LEMMA RereadDoes ==
    ASSUME Acquiring, NEW p \in Procs, Reread(p)
    PROVE  /\ acq[p].at = "reread" /\ Step(p, {"rejudge"}) /\ acq'[p].seen = lock
           /\ UNCHANGED <<lock, takeover>>
<1>1. "rejudge" \in Ats /\ Saw(p, "rejudge", lock) /\ At(p, "reread") /\ UNCHANGED <<lock, takeover, alive, held, rel>>
  BY DEF Reread, Ats
<1> QED BY <1>1, SawMoves DEF Acquiring, Step, Moves, Keeps, At

LEMMA RejudgeDoes ==
    ASSUME Acquiring, NEW p \in Procs, Rejudge(p)
    PROVE  /\ acq[p].at = "rejudge" /\ UNCHANGED <<lock, takeover>>
           /\ \/ Step(p, {"relink"})
              \/ Step(p, {"readMine"}) /\ acq'[p].then # "own"
              \/ Step(p, {"remove"}) /\ acq[p].seen # None /\ ~Holds(acq[p].seen, p)
<1>1. /\ {"relink", "remove"} \subseteq Ats /\ At(p, "rejudge") /\ UNCHANGED <<lock, takeover, alive, held, rel>>
      /\ \/ To(p, "relink")
         \/ LeaveTakeover(p, "give up")
         \/ To(p, "remove") /\ acq[p].seen # None /\ ~Holds(acq[p].seen, p)
  BY DEF Rejudge, Ats
<1> QED BY <1>1, ToMoves, LeaveTakeoverMoves DEF Acquiring, Step, Moves, Keeps, At

LEMMA RemoveDoes ==
    ASSUME Acquiring, NEW p \in Procs, Remove(p)
    PROVE  acq[p].at = "remove" /\ Step(p, {"relink"}) /\ lock' = None /\ UNCHANGED takeover
<1>1. "relink" \in Ats /\ At(p, "remove") /\ To(p, "relink") /\ lock' = None /\ UNCHANGED <<takeover, alive, held, rel>>
  BY DEF Remove, Ats
<1> QED BY <1>1, ToMoves DEF Acquiring, Step, Moves, Keeps, At

LEMMA RelinkDoes ==
    ASSUME Acquiring, NEW p \in Procs, Relink(p)
    PROVE  /\ acq[p].at = "relink" /\ Step(p, {"readMine"}) /\ UNCHANGED takeover
           /\ \/ lock = None /\ lock' = p
              \/ UNCHANGED lock /\ acq'[p].then # "own"
<1>1. /\ At(p, "relink") /\ UNCHANGED <<takeover, alive, held, rel>>
      /\ \/ lock = None /\ lock' = p /\ LeaveTakeover(p, "own")
         \/ UNCHANGED lock /\ LeaveTakeover(p, "retry")
  BY DEF Relink
<1> QED BY <1>1, LeaveTakeoverMoves DEF Acquiring, Step, Moves, Keeps, At

LEMMA ReadMineDoes ==
    ASSUME Acquiring, NEW p \in Procs, ReadMine(p)
    PROVE  /\ acq[p].at = "readMine" /\ Step(p, {"drop"}) /\ acq'[p].then = acq[p].then
           /\ UNCHANGED <<lock, takeover>>
<1>1. "drop" \in Ats /\ Saw(p, "drop", takeover) /\ At(p, "readMine") /\ UNCHANGED <<lock, takeover, alive, held, rel>>
  BY DEF ReadMine, Ats
<1>2. takeover \in Files
  BY DEF Acquiring, Files
<1> QED BY <1>1, <1>2, SawMoves DEF Acquiring, Step, Moves, Keeps, At

LEMMA DropDoes ==
    ASSUME Acquiring, NEW p \in Procs, Drop(p)
    PROVE  /\ acq[p].at = "drop" /\ Step(p, {"idle", "link", "owner"})
           /\ acq'[p].at = "owner" => acq[p].then = "own"
           /\ takeover' \in {takeover, None} /\ UNCHANGED lock
<1>1. At(p, "drop") /\ takeover' \in {takeover, None} /\ Leave(p) /\ UNCHANGED <<lock, alive, rel>>
  BY DEF Drop
<1> QED BY <1>1, LeaveMoves DEF Acquiring, Step, Moves, Keeps, At

LEMMA FailsDoes ==
    ASSUME Acquiring, NEW p \in Procs, Fails(p)
    PROVE  /\ UNCHANGED <<lock, takeover>>
           /\ \/ Step(p, {"idle", "link", "take"})
              \/ Step(p, {"readMine"}) /\ acq'[p].then # "own" /\ acq[p].at \in {"reread", "relink"}
              \/ Step(p, {"relink"}) /\ acq[p].at = "remove"
              \/ /\ Step(p, {"idle", "link", "owner"}) /\ acq[p].at \in {"readMine", "drop"}
                 /\ acq'[p].at = "owner" => acq[p].then = "own"
<1>1. "relink" \in Ats /\ p \in alive /\ UNCHANGED <<lock, takeover, alive, rel>>
  BY DEF Fails, Ats
<1>2. CASE acq[p].at \in {"link", "read"}
  <2>1. GiveUp(p)
    BY <1>2 DEF Fails
  <2> QED BY <1>1, <1>2, <2>1, GiveUpMoves DEF Acquiring, Step, Moves
<1>3. CASE acq[p].at \in {"take", "readTaker"}
  <2>1. Retry(p)
    BY <1>3 DEF Fails
  <2> QED BY <1>1, <1>3, <2>1, RetryMoves DEF Acquiring, Step, Moves
<1>4. CASE acq[p].at = "clearTaker"
  <2>1. TakeAgain(p)
    BY <1>4 DEF Fails
  <2> QED BY <1>1, <1>4, <2>1, TakeAgainMoves DEF Acquiring, Step
<1>5. CASE acq[p].at \in {"reread", "relink"}
  <2>1. LeaveTakeover(p, "give up") /\ UNCHANGED held
    BY <1>5 DEF Fails
  <2> QED BY <1>1, <1>5, <2>1, LeaveTakeoverMoves DEF Acquiring, Step, Moves, Keeps
<1>6. CASE acq[p].at = "remove"
  <2>1. To(p, "relink") /\ UNCHANGED held
    BY <1>6 DEF Fails
  <2> QED BY <1>1, <1>6, <2>1, ToMoves DEF Acquiring, Step, Moves, Keeps
<1>7. CASE acq[p].at \in {"readMine", "drop"}
  <2>1. Leave(p)
    BY <1>7 DEF Fails
  <2> QED BY <1>1, <1>7, <2>1, LeaveMoves DEF Acquiring, Step
<1> QED BY <1>2, <1>3, <1>4, <1>5, <1>6, <1>7 DEF Fails

-----------------------------------------------------------------------------
(* Reservations, whatever is admitted *)

Books == TypeOK /\ ReservedWhileUsed

LEMMA MishapCounts ==
    ASSUME NEW n \in 0..MaxMishaps, n < MaxMishaps PROVE n + 1 \in 0..MaxMishaps
<1>1. MaxMishaps \in Nat
  BY LockAssumption
<1> QED BY <1>1

LEMMA BooksAcquiring == TypeOK => Acquiring
  BY DEF TypeOK, Acquiring, AcqSet, Ats, Files

LEMMA BooksStep ==
    ASSUME Books, NEW p \in Procs, Step(p, Ats), lock' \in Files, takeover' \in Procs \cup {None},
           mishaps' \in 0..MaxMishaps
    PROVE  Books'
<1>1. p \in held
  BY DEF Books, ReservedWhileUsed, Step
<1>2. TypeOK'
  BY <1>1 DEF Books, TypeOK, Step, Moves, Keeps, AcqSet, Ats, Files
<1>3. ReservedWhileUsed'
  BY <1>1 DEF Books, ReservedWhileUsed, Step, Moves, Keeps
<1> QED BY <1>2, <1>3 DEF Books

LEMMA ContinueBooks == ASSUME Books, NEW p \in Procs, Continue(p) PROVE Books'
<1>1. /\ Acquiring /\ lock \in Files /\ takeover \in Procs \cup {None} /\ mishaps \in 0..MaxMishaps
      /\ UNCHANGED mishaps
  BY BooksAcquiring DEF Books, TypeOK, Files, Continue, Link, Read, Judge, Take, ReadTaker, JudgeTaker,
     ClearTaker, Reread, Rejudge, Remove, Relink, ReadMine, Drop
<1>2. /\ \E places \in SUBSET Ats : Step(p, places)
      /\ lock' \in {lock, None, p} /\ takeover' \in {takeover, None, p}
  <2>1. CASE Link(p)
    BY <1>1, <2>1, LinkDoes DEF Ats
  <2>2. CASE Read(p)
    BY <1>1, <2>2, ReadDoes DEF Ats
  <2>3. CASE Judge(p)
    BY <1>1, <2>3, JudgeDoes DEF Ats
  <2>4. CASE Take(p)
    BY <1>1, <2>4, TakeDoes DEF Ats
  <2>5. CASE ReadTaker(p)
    BY <1>1, <2>5, ReadTakerDoes DEF Ats
  <2>6. CASE JudgeTaker(p)
    BY <1>1, <2>6, JudgeTakerDoes DEF Ats
  <2>7. CASE ClearTaker(p)
    BY <1>1, <2>7, ClearTakerDoes DEF Ats
  <2>8. CASE Reread(p)
    BY <1>1, <2>8, RereadDoes DEF Ats
  <2>9. CASE Rejudge(p)
    BY <1>1, <2>9, RejudgeDoes DEF Ats
  <2>10. CASE Remove(p)
    BY <1>1, <2>10, RemoveDoes DEF Ats
  <2>11. CASE Relink(p)
    BY <1>1, <2>11, RelinkDoes DEF Ats
  <2>12. CASE ReadMine(p)
    BY <1>1, <2>12, ReadMineDoes DEF Ats
  <2>13. CASE Drop(p)
    BY <1>1, <2>13, DropDoes DEF Ats
  <2> QED BY <2>1, <2>2, <2>3, <2>4, <2>5, <2>6, <2>7, <2>8, <2>9, <2>10, <2>11, <2>12, <2>13 DEF Continue
<1>3. Step(p, Ats)
  BY <1>2 DEF Step, Moves
<1> QED BY <1>1, <1>2, <1>3, BooksStep DEF Files

LEMMA FailsBooks == ASSUME Books, NEW p \in Procs, Fails(p) PROVE Books'
<1>1. /\ Acquiring /\ lock \in Files /\ takeover \in Procs \cup {None}
      /\ mishaps \in 0..MaxMishaps /\ mishaps < MaxMishaps /\ mishaps' = mishaps + 1
  BY BooksAcquiring DEF Books, TypeOK, Files, Fails
<1>2. UNCHANGED <<lock, takeover>> /\ \E places \in SUBSET Ats : Step(p, places)
  BY <1>1, FailsDoes DEF Ats
<1>3. Step(p, Ats)
  BY <1>2 DEF Step, Moves
<1> QED BY <1>1, <1>2, <1>3, MishapCounts, BooksStep

LEMMA OthersBooks ==
    ASSUME Books, NEW p \in Procs,
           Reserve(p) \/ Release(p) \/ ReleaseRead(p) \/ ReleaseUnlink(p) \/ FailsToUnlink(p) \/ Die(p) \/ Restart(p)
    PROVE  Books'
<1>0. Resting.at = "idle" /\ Reserved.at = "link" /\ Resting \in AcqSet /\ Reserved \in AcqSet /\ acq \in [Procs -> AcqSet]
  BY RestingIs, BooksAcquiring DEF Books, Acquiring
<1>1. CASE Reserve(p)
  <2>1. p \in alive /\ acq' = [acq EXCEPT ![p] = Reserved] /\ held' = held \cup {p} /\ UNCHANGED <<lock, takeover, alive, rel, mishaps>>
    BY <1>1 DEF Reserve, At
  <2>2. acq' \in [Procs -> AcqSet]
    BY <1>0, <2>1
  <2> QED BY <1>0, <2>1, <2>2, ZenonT(60) DEF Books, TypeOK, ReservedWhileUsed, AcqSet, Ats, Files
<1>2. CASE Release(p)
  <2>1. acq' = [acq EXCEPT ![p] = Resting] /\ held' = held \ {p} /\ rel' = [rel EXCEPT ![p] = "read"]
        /\ UNCHANGED <<lock, takeover, alive, mishaps>>
    BY <1>2 DEF Release
  <2>2. acq' \in [Procs -> AcqSet]
    BY <1>0, <2>1
  <2> QED BY <1>0, <2>1, <2>2 DEF Books, TypeOK, ReservedWhileUsed, AcqSet, Ats, Files
<1>3. CASE ReleaseRead(p) \/ ReleaseUnlink(p)
  BY <1>3 DEF ReleaseRead, ReleaseUnlink, Books, TypeOK, ReservedWhileUsed
<1>4. CASE FailsToUnlink(p)
  <2>1. mishaps' \in 0..MaxMishaps
    BY <1>4, MishapCounts DEF FailsToUnlink, Books, TypeOK
  <2> QED BY <1>4, <2>1 DEF FailsToUnlink, Books, TypeOK, ReservedWhileUsed
<1>5. CASE Die(p)
  <2>1. acq' = [acq EXCEPT ![p] = Resting] /\ held' = held \ {p} /\ rel' = [rel EXCEPT ![p] = "none"]
        /\ alive' = alive \ {p} /\ mishaps < MaxMishaps /\ mishaps' = mishaps + 1 /\ UNCHANGED <<lock, takeover>>
    BY <1>5 DEF Die
  <2>2. acq' \in [Procs -> AcqSet]
    BY <1>0, <2>1
  <2>3. mishaps' \in 0..MaxMishaps
    BY <2>1, MishapCounts DEF Books, TypeOK
  <2> QED BY <1>0, <2>1, <2>2, <2>3 DEF Books, TypeOK, ReservedWhileUsed, AcqSet, Ats, Files
<1>6. CASE Restart(p)
  BY <1>6 DEF Restart, Books, TypeOK, ReservedWhileUsed
<1> QED BY <1>1, <1>2, <1>3, <1>4, <1>5, <1>6

LEMMA BooksInit == Init => Books
<1>1. ASSUME Init PROVE acq \in [Procs -> AcqSet] /\ \A p \in Procs : acq[p].at = "idle"
  BY <1>1, RestingIs DEF Init
<1>2. 0 \in 0..MaxMishaps
  BY LockAssumption
<1>3. ASSUME Init PROVE TypeOK
  BY <1>1, <1>2, <1>3 DEF Init, TypeOK, AcqSet, Ats, Files
<1> QED BY <1>1, <1>3 DEF Init, Books, ReservedWhileUsed

LEMMA BooksNext == Books /\ [Next]_vars => Books'
<1> SUFFICES ASSUME Books, [Next]_vars PROVE Books'
  OBVIOUS
<1>1. CASE UNCHANGED vars
  BY <1>1 DEF Books, TypeOK, ReservedWhileUsed, vars
<1>2. CASE Age
  BY <1>2 DEF Age, Books, TypeOK, ReservedWhileUsed
<1> QED BY <1>1, <1>2, ContinueBooks, FailsBooks, OthersBooks DEF Next, FinishRelease

\* The lock's state is well formed, for any processes and bounds (file-lock.ts).
THEOREM LockTyped == Spec => []TypeOK
<1>1. Books => TypeOK
  BY DEF Books
<1> QED BY <1>1, BooksInit, BooksNext, PTL DEF Spec

\* heldHere names a path exactly while an attempt or an owner of this process uses it,
\* whatever else fails, dies or overlaps: no later attempt is refused for nothing
\* (file-lock.ts acquireLock, releaseLock).
THEOREM NoStrayReservation == Spec => []ReservedWhileUsed
<1>1. Books => ReservedWhileUsed
  BY DEF Books
<1> QED BY <1>1, BooksInit, BooksNext, PTL DEF Spec

-----------------------------------------------------------------------------
(* One at a time under the takeover lock, if nobody exits between being read and *)
(* being judged, and no two look at somebody's takeover lock at once             *)

Held(p) == acq[p].at \in {"reread", "rejudge", "remove", "relink", "readMine", "drop"}
Clearing(p) == acq[p].at \in {"judgeTaker", "clearTaker"}
\* The file still names whom p read there, unless that one is alive and not p: p will
\* leave it alone then.
StillNames(p, f) == f = acq[p].seen \/ acq[p].seen \in alive \ {p}

TakerNamed == \A p \in Procs : Held(p) => takeover = p
OneClearer == \A p, q \in Procs : Clearing(p) /\ Clearing(q) => p = q
TakerSeen == \A p \in Procs :
    acq[p].at = "judgeTaker" /\ acq[p].seen # None => acq[p].seen \in Procs /\ StillNames(p, takeover)
\* Who clears a takeover lock clears one that nobody uses.
Abandoned == \A p \in Procs : acq[p].at = "clearTaker" => takeover # None /\ \A q \in Procs : ~Held(q)
Taking == TakerNamed /\ OneClearer /\ TakerSeen /\ Abandoned

Rests == \A p \in Procs : acq[p].at # "idle" => p \in alive
LEMMA BooksRests == Books => Rests
  BY DEF Books, TypeOK, ReservedWhileUsed, Rests

\* Steps that are nothing to the takeover lock.
LEMMA TakingKept ==
    ASSUME Taking, NEW p \in Procs, Moves(p, Ats), UNCHANGED takeover, alive \subseteq alive',
           Held(p)' => Held(p), ~Clearing(p)'
    PROVE  Taking'
<1>1. TakerNamed' /\ OneClearer'
  BY DEF Taking, TakerNamed, OneClearer, Held, Clearing, Moves
<1>2. TakerSeen'
  BY DEF Taking, TakerSeen, StillNames, Clearing, Moves
<1>3. Abandoned'
  BY DEF Taking, Abandoned, Held, Clearing, Moves
<1> QED BY <1>1, <1>2, <1>3 DEF Taking

LEMMA TakingSame ==
    ASSUME Taking, UNCHANGED <<acq, takeover>>, alive \subseteq alive' PROVE Taking'
  BY DEF Taking, TakerNamed, OneClearer, TakerSeen, Abandoned, Held, Clearing, StillNames

\* p leaves the takeover lock, or has cleared one: it holds and clears nothing any more.
LEMMA TakingLeft ==
    ASSUME Taking, NEW p \in Procs, Moves(p, Ats), ~Held(p)', ~Clearing(p)', UNCHANGED alive,
           p \in alive, Held(p) \/ acq[p].at = "clearTaker", takeover' \in {takeover, None}
    PROVE  Taking'
<1>1. \A q \in Procs \ {p} : ~Held(q)
  BY DEF Taking, TakerNamed, Abandoned, Held
<1>2. \A q \in Procs \ {p} : acq[q].at # "clearTaker"
  BY DEF Taking, Abandoned, OneClearer, Clearing
<1>3. TakerNamed' /\ OneClearer' /\ Abandoned'
  BY <1>1, <1>2 DEF Taking, TakerNamed, OneClearer, Abandoned, Held, Clearing, Moves
<1>4. TakerSeen'
  <2> SUFFICES ASSUME NEW q \in Procs, (acq[q].at = "judgeTaker")', (acq[q].seen # None)'
               PROVE  (acq[q].seen \in Procs /\ StillNames(q, takeover))'
    BY DEF TakerSeen
  <2>1. q # p /\ acq'[q] = acq[q]
    BY DEF Moves, Clearing
  <2>2. acq[q].seen \in Procs /\ StillNames(q, takeover)
    BY <2>1 DEF Taking, TakerSeen
  <2>3. CASE acq[q].seen \in alive \ {q}
    BY <2>1, <2>2, <2>3 DEF StillNames
  <2>4. CASE takeover = acq[q].seen /\ acq[q].seen \notin alive \ {q}
    \* It cannot be p, who holds it, that q has read.
    BY <2>1, <2>2, <2>4 DEF StillNames, Taking, TakerNamed, OneClearer, Clearing, Held
  <2> QED BY <2>2, <2>3, <2>4 DEF StillNames
<1> QED BY <1>3, <1>4 DEF Taking

LEMMA ContinueTaking ==
    ASSUME Books, Taking, DoubleClear \notin Admitted, NEW p \in Procs, Continue(p)
    PROVE  Taking'
<1>0. Acquiring
  BY BooksAcquiring DEF Books
<1>1. CASE Link(p)
  BY <1>0, <1>1, LinkDoes, TakingKept DEF Step, Moves, Held, Clearing, Ats
<1>2. CASE Read(p)
  BY <1>0, <1>2, ReadDoes, TakingKept DEF Step, Moves, Held, Clearing, Ats
<1>3. CASE Judge(p)
  BY <1>0, <1>3, JudgeDoes, TakingKept DEF Step, Moves, Held, Clearing, Ats
<1>4. CASE Take(p)
  <2>1. CASE Step(p, {"reread"}) /\ takeover = None /\ takeover' = p
    <3>1. (\A q \in Procs : ~Held(q)) /\ (\A q \in Procs : acq[q].at # "clearTaker")
      BY <2>1, LockAssumption DEF Taking, TakerNamed, Abandoned
    <3>2. TakerNamed' /\ OneClearer' /\ Abandoned'
      BY <2>1, <3>1 DEF Taking, TakerNamed, OneClearer, Abandoned, Held, Clearing, Step, Moves
    <3>3. TakerSeen'
      BY <2>1 DEF Taking, TakerSeen, StillNames, Step, Moves
    <3> QED BY <3>2, <3>3 DEF Taking
  <2>2. CASE Step(p, {"readTaker"}) /\ UNCHANGED takeover
    BY <2>2, TakingKept DEF Step, Moves, Held, Clearing, Ats
  <2> QED BY <1>0, <1>4, <2>1, <2>2, TakeDoes
<1>5. CASE ReadTaker(p)
  <2>1. \A q \in Procs \ {p} : ~Clearing(q)
    BY <1>5 DEF ReadTaker, Clearing
  <2>2. /\ Step(p, {"judgeTaker"}) /\ acq'[p].seen = takeover /\ UNCHANGED takeover
        /\ takeover \in Procs \cup {None}
    BY <1>0, <1>5, ReadTakerDoes DEF Acquiring
  <2>3. TakerNamed' /\ OneClearer' /\ Abandoned'
    BY <2>1, <2>2 DEF Taking, TakerNamed, OneClearer, Abandoned, Held, Clearing, Step, Moves
  <2>4. TakerSeen'
    BY <2>1, <2>2 DEF TakerSeen, StillNames, Clearing, Step, Moves
  <2> QED BY <2>3, <2>4 DEF Taking
<1>6. CASE JudgeTaker(p)
  <2>1. CASE Step(p, {"idle", "link", "take"})
    BY <1>0, <1>6, <2>1, JudgeTakerDoes, TakingKept DEF Step, Moves, Held, Clearing, Ats
  <2>2. CASE Step(p, {"clearTaker"}) /\ acq[p].seen # None /\ ~Holds(acq[p].seen, p)
    <3>1. acq[p].at = "judgeTaker" /\ UNCHANGED takeover
      BY <1>0, <1>6, JudgeTakerDoes
    <3>2. PICK h \in Procs : h = acq[p].seen /\ h \notin alive \ {p} /\ takeover = h
      BY <2>2, <3>1 DEF Taking, TakerSeen, StillNames, Holds
    <3>3. ~Held(h)
      BY <3>1, <3>2, BooksRests DEF Rests, Held
    <3>4. \A q \in Procs : ~Held(q)
      BY <3>2, <3>3 DEF Taking, TakerNamed
    <3>5. TakerNamed' /\ OneClearer' /\ Abandoned'
      BY <2>2, <3>1, <3>2, <3>4, LockAssumption DEF Taking, TakerNamed, OneClearer, Abandoned, Held, Clearing, Step, Moves
    <3>6. TakerSeen'
      BY <2>2, <3>1 DEF Taking, TakerSeen, StillNames, Step, Moves
    <3> QED BY <3>5, <3>6 DEF Taking
  <2> QED BY <1>0, <1>6, <2>1, <2>2, JudgeTakerDoes
<1>7. CASE ClearTaker(p)
  BY <1>0, <1>7, ClearTakerDoes, TakingLeft DEF Step, Moves, Held, Clearing, Ats
<1>8. CASE Reread(p)
  BY <1>0, <1>8, RereadDoes, TakingKept DEF Step, Moves, Held, Clearing, Ats
<1>9. CASE Rejudge(p)
  <2>1. UNCHANGED takeover /\ Step(p, {"relink", "readMine", "remove"}) /\ acq[p].at = "rejudge"
    BY <1>0, <1>9, RejudgeDoes DEF Step, Moves
  <2> QED BY <2>1, TakingKept DEF Step, Moves, Held, Clearing, Ats
<1>10. CASE Remove(p)
  BY <1>0, <1>10, RemoveDoes, TakingKept DEF Step, Moves, Held, Clearing, Ats
<1>11. CASE Relink(p)
  BY <1>0, <1>11, RelinkDoes, TakingKept DEF Step, Moves, Held, Clearing, Ats
<1>12. CASE ReadMine(p)
  BY <1>0, <1>12, ReadMineDoes, TakingKept DEF Step, Moves, Held, Clearing, Ats
<1>13. CASE Drop(p)
  BY <1>0, <1>13, DropDoes, TakingLeft DEF Step, Moves, Held, Clearing, Ats
<1> QED BY <1>1, <1>2, <1>3, <1>4, <1>5, <1>6, <1>7, <1>8, <1>9, <1>10, <1>11, <1>12, <1>13 DEF Continue

LEMMA OthersTaking ==
    ASSUME Books, Taking, LateJudge \notin Admitted, NEW p \in Procs,
           \/ Reserve(p) \/ Release(p) \/ ReleaseRead(p) \/ ReleaseUnlink(p)
           \/ Fails(p) \/ FailsToUnlink(p) \/ Die(p) \/ Restart(p)
    PROVE  Taking'
<1>0. Acquiring /\ Resting \in AcqSet /\ Resting.at = "idle" /\ Reserved \in AcqSet /\ Reserved.at = "link"
  BY BooksAcquiring, RestingIs DEF Books
<1>1. CASE Reserve(p)
  <2>1. UNCHANGED <<takeover, alive>> /\ Moves(p, {"link"})
    BY <1>0, <1>1 DEF Reserve, Moves, Acquiring
  <2> QED BY <2>1, TakingKept DEF Moves, Held, Clearing, Ats
<1>2. CASE Release(p)
  <2>1. UNCHANGED <<takeover, alive>> /\ Moves(p, {"idle"})
    BY <1>0, <1>2 DEF Release, Moves, Acquiring
  <2> QED BY <2>1, TakingKept DEF Moves, Held, Clearing, Ats
<1>3. CASE ReleaseRead(p) \/ ReleaseUnlink(p) \/ FailsToUnlink(p) \/ Restart(p)
  BY <1>3, TakingSame DEF ReleaseRead, ReleaseUnlink, FailsToUnlink, Restart
<1>4. CASE Fails(p)
  <2>1. /\ UNCHANGED takeover /\ Step(p, Ats)
        /\ acq'[p].at \in {"idle", "link", "take", "owner"} \/ (Held(p) /\ acq'[p].at \in {"readMine", "relink"})
    BY <1>0, <1>4, FailsDoes DEF Step, Moves, Held, Ats
  <2> QED BY <2>1, TakingKept DEF Step, Moves, Held, Clearing
<1>5. CASE Die(p)
  <2>1. UNCHANGED takeover /\ Moves(p, {"idle"}) /\ alive' = alive \ {p} /\ ~Misread(p)
    BY <1>0, <1>5 DEF Die, Moves, Acquiring
  <2>2. TakerNamed' /\ OneClearer' /\ Abandoned'
    BY <2>1 DEF Taking, TakerNamed, OneClearer, Abandoned, Held, Clearing, Moves
  <2>3. TakerSeen'
    <3> SUFFICES ASSUME NEW q \in Procs, (acq[q].at = "judgeTaker")', (acq[q].seen # None)'
                 PROVE  (acq[q].seen \in Procs /\ StillNames(q, takeover))'
      BY DEF TakerSeen
    <3>1. q # p /\ acq'[q] = acq[q]
      BY <2>1 DEF Moves
    <3>2. acq[q].seen \in Procs /\ StillNames(q, takeover)
      BY <3>1 DEF Taking, TakerSeen
    <3>3. acq[q].seen = p => takeover = p
      BY <2>1, <3>1 DEF Misread
    <3> QED BY <2>1, <3>1, <3>2, <3>3 DEF StillNames
  <2> QED BY <2>2, <2>3 DEF Taking
<1> QED BY <1>1, <1>2, <1>3, <1>4, <1>5

LEMMA TakingInit == Init => Taking
<1>1. ASSUME Init PROVE \A p \in Procs : acq[p].at = "idle"
  BY <1>1, RestingIs DEF Init
<1> QED BY <1>1 DEF Taking, TakerNamed, OneClearer, TakerSeen, Abandoned, Held, Clearing

LEMMA TakingNext ==
    ASSUME {LateJudge, DoubleClear} \cap Admitted = {} PROVE Books /\ Taking /\ [Next]_vars => Taking'
<1> SUFFICES ASSUME Books, Taking, [Next]_vars PROVE Taking'
  OBVIOUS
<1>1. CASE UNCHANGED vars \/ Age
  BY <1>1, TakingSame DEF vars, Age
<1> QED BY <1>1, ContinueTaking, OthersTaking DEF Next, FinishRelease

\* One process at a time decides on a stale lock, for any number of processes, deaths,
\* recycled pids and failures - even with an attempt during one's own release
\* (file-lock.ts takeTakeoverLock).
THEOREM TakeoverIsExclusive ==
    ASSUME {LateJudge, DoubleClear} \cap Admitted = {} PROVE Spec => []OneTaker
<1>1. Taking => OneTaker
  BY DEF Taking, TakerNamed, Held, OneTaker
<1>2. Books /\ Taking /\ [Next]_vars => Taking'
  BY TakingNext
<1> QED BY <1>1, <1>2, BooksInit, BooksNext, TakingInit, PTL DEF Spec

-----------------------------------------------------------------------------
(* One owner of the lock, if moreover no attempt overlaps a release of its own process *)

\* It owns the lock, is about to, or is giving it back.
Uses(p) ==
    \/ acq[p].at = "owner"
    \/ acq[p].at \in {"readMine", "drop"} /\ acq[p].then = "own"
    \/ rel[p] # "none"

UserNamed == \A p \in Procs : Uses(p) => lock = p
NoOverlap == \A p \in Procs : rel[p] # "none" => p \in alive /\ acq[p].at = "idle"
LockSeen == \A p \in Procs :
    acq[p].at = "rejudge" /\ acq[p].seen \notin {None, Junk} => StillNames(p, lock)
\* Who removes the lock removes one that nobody uses.
Unused == \A p \in Procs : acq[p].at = "remove" => lock # None /\ \A q \in Procs : ~Uses(q)
Owning == UserNamed /\ NoOverlap /\ LockSeen /\ Unused

\* Steps of an attempt that are nothing to the lock.
OffLock(p) == acq'[p].at \notin {"rejudge", "remove"}

LEMMA OwningKept ==
    ASSUME Owning, NEW p \in Procs, Moves(p, Ats), UNCHANGED <<lock, rel>>, alive \subseteq alive',
           rel[p] = "none", Uses(p)' => Uses(p), OffLock(p)
    PROVE  Owning'
<1>1. UserNamed' /\ NoOverlap'
  BY DEF Owning, UserNamed, NoOverlap, Uses, Moves
<1>2. LockSeen'
  BY DEF Owning, LockSeen, StillNames, OffLock, Moves
<1>3. Unused'
  BY DEF Owning, Unused, Uses, OffLock, Moves
<1> QED BY <1>1, <1>2, <1>3 DEF Owning

LEMMA OwningSame ==
    ASSUME Owning, UNCHANGED <<acq, rel, lock>>, alive \subseteq alive' PROVE Owning'
  BY DEF Owning, UserNamed, NoOverlap, LockSeen, Unused, Uses, StillNames

\* The lock is free and p puts its own file in place, at once or under the takeover lock.
LEMMA OwningLinked ==
    ASSUME Owning, NEW p \in Procs, Moves(p, {"owner", "readMine"}), UNCHANGED <<alive, rel>>,
           lock = None, lock' = p, p \in alive, rel[p] = "none"
    PROVE  Owning'
<1>1. \A q \in Procs : ~Uses(q) /\ acq[q].at # "remove"
  BY LockAssumption DEF Owning, UserNamed, Unused
<1>2. UserNamed' /\ NoOverlap' /\ Unused'
  BY <1>1 DEF Owning, UserNamed, NoOverlap, Unused, Uses, Moves
<1>3. LockSeen'
  BY DEF Owning, LockSeen, StillNames, Moves
<1> QED BY <1>2, <1>3 DEF Owning

LEMMA ContinueOwning ==
    ASSUME Books, Taking, Owning, NEW p \in Procs, Continue(p)
    PROVE  Owning'
<1>0. Acquiring
  BY BooksAcquiring DEF Books
<1>a. ASSUME NEW places, Step(p, places) PROVE rel[p] = "none" /\ UNCHANGED <<alive, rel>> /\ Moves(p, places) /\ p \in alive
  BY <1>a DEF Step, Owning, NoOverlap
<1>1. CASE Link(p)
  <2>1. CASE Step(p, {"owner"}) /\ lock = None /\ lock' = p
    BY <1>a, <2>1, OwningLinked DEF Moves
  <2>2. CASE Step(p, {"read"}) /\ UNCHANGED lock
    BY <1>a, <2>2, OwningKept DEF Moves, Uses, OffLock, Ats
  <2> QED BY <1>0, <1>1, <2>1, <2>2, LinkDoes
<1>2. CASE Read(p)
  BY <1>0, <1>a, <1>2, ReadDoes, OwningKept DEF Moves, Uses, OffLock, Ats
<1>3. CASE Judge(p)
  BY <1>0, <1>a, <1>3, JudgeDoes, OwningKept DEF Moves, Uses, OffLock, Ats
<1>4. CASE Take(p)
  <2>1. UNCHANGED lock /\ Step(p, {"reread", "readTaker"})
    BY <1>0, <1>4, TakeDoes DEF Step, Moves
  <2> QED BY <1>a, <2>1, OwningKept DEF Moves, Uses, OffLock, Ats
<1>5. CASE ReadTaker(p)
  BY <1>0, <1>a, <1>5, ReadTakerDoes, OwningKept DEF Moves, Uses, OffLock, Ats
<1>6. CASE JudgeTaker(p)
  <2>1. UNCHANGED lock /\ Step(p, {"idle", "link", "take", "clearTaker"})
    BY <1>0, <1>6, JudgeTakerDoes DEF Step, Moves
  <2> QED BY <1>a, <2>1, OwningKept DEF Moves, Uses, OffLock, Ats
<1>7. CASE ClearTaker(p)
  BY <1>0, <1>a, <1>7, ClearTakerDoes, OwningKept DEF Moves, Uses, OffLock, Ats
<1>8. CASE Reread(p)
  <2>1. UNCHANGED <<lock, rel, alive>> /\ Moves(p, {"rejudge"}) /\ acq'[p].seen = lock /\ rel[p] = "none"
    BY <1>0, <1>a, <1>8, RereadDoes
  <2>2. UserNamed' /\ NoOverlap' /\ Unused'
    BY <2>1 DEF Owning, UserNamed, NoOverlap, Unused, Uses, Moves
  <2>3. LockSeen'
    BY <2>1 DEF Owning, LockSeen, StillNames, Moves
  <2> QED BY <2>2, <2>3 DEF Owning
<1>9. CASE Rejudge(p)
  <2>1. acq[p].at = "rejudge" /\ UNCHANGED lock
    BY <1>0, <1>9, RejudgeDoes
  <2>2. CASE Step(p, {"relink"}) \/ (Step(p, {"readMine"}) /\ acq'[p].then # "own")
    BY <1>a, <2>1, <2>2, OwningKept DEF Moves, Uses, OffLock, Ats
  <2>3. CASE Step(p, {"remove"}) /\ acq[p].seen # None /\ ~Holds(acq[p].seen, p)
    <3>1. rel[p] = "none" /\ UNCHANGED <<alive, rel>> /\ Moves(p, {"remove"})
      BY <1>a, <2>3
    <3>2. /\ acq[p].seen \notin {None, Junk} /\ (acq[p].seen \in Procs => acq[p].seen \notin alive \ {p})
          /\ acq[p].seen \in Files
      BY <1>0, <2>3 DEF Holds, Acquiring, AcqSet
    <3>3. lock = acq[p].seen
      <4>1. alive \subseteq Procs
        BY DEF Books, TypeOK
      <4> QED BY <2>1, <3>2, <4>1 DEF Owning, LockSeen, StillNames
    <3>4. \A q \in Procs : ~Uses(q)
      <4> SUFFICES ASSUME NEW q \in Procs, Uses(q) PROVE FALSE
        OBVIOUS
      <4>1. lock = q /\ q \notin alive \ {p}
        BY <3>2, <3>3 DEF Owning, UserNamed
      <4>2. q \in alive
        BY BooksRests DEF Rests, Uses, Owning, NoOverlap
      <4>3. q # p
        BY <2>1, <3>1 DEF Uses
      <4> QED BY <4>1, <4>2, <4>3
    <3>5. UserNamed' /\ NoOverlap' /\ Unused'
      BY <2>1, <3>1, <3>2, <3>3, <3>4 DEF Owning, UserNamed, NoOverlap, Unused, Uses, Moves
    <3>6. LockSeen'
      BY <2>1, <3>1 DEF Owning, LockSeen, StillNames, Moves
    <3> QED BY <3>5, <3>6 DEF Owning
  <2> QED BY <1>0, <1>9, <2>2, <2>3, RejudgeDoes
<1>10. CASE Remove(p)
  <2>1. /\ acq[p].at = "remove" /\ Moves(p, {"relink"}) /\ rel[p] = "none" /\ UNCHANGED <<alive, rel>> /\ lock' = None
    BY <1>0, <1>a, <1>10, RemoveDoes
  <2>2. \A q \in Procs \ {p} : ~Held(q)
    BY <2>1 DEF Taking, TakerNamed, Held
  <2>3. \A q \in Procs : ~Uses(q)
    BY <2>1 DEF Owning, Unused
  <2>4. UserNamed' /\ NoOverlap' /\ LockSeen' /\ Unused'
    BY <2>1, <2>2, <2>3 DEF Owning, UserNamed, NoOverlap, LockSeen, Unused, Uses, Held, Moves
  <2> QED BY <2>4 DEF Owning
<1>11. CASE Relink(p)
  <2>1. acq[p].at = "relink" /\ Step(p, {"readMine"})
    BY <1>0, <1>11, RelinkDoes
  <2>2. CASE lock = None /\ lock' = p
    BY <1>a, <2>1, <2>2, OwningLinked DEF Moves
  <2>3. CASE UNCHANGED lock /\ acq'[p].then # "own"
    BY <1>a, <2>1, <2>3, OwningKept DEF Moves, Uses, OffLock, Ats
  <2> QED BY <1>0, <1>11, <2>2, <2>3, RelinkDoes
<1>12. CASE ReadMine(p)
  BY <1>0, <1>a, <1>12, ReadMineDoes, OwningKept DEF Moves, Uses, OffLock, Ats
<1>13. CASE Drop(p)
  BY <1>0, <1>a, <1>13, DropDoes, OwningKept DEF Moves, Uses, OffLock, Ats
<1> QED BY <1>1, <1>2, <1>3, <1>4, <1>5, <1>6, <1>7, <1>8, <1>9, <1>10, <1>11, <1>12, <1>13 DEF Continue

LEMMA OthersOwning ==
    ASSUME Books, Taking, Owning, {LateJudge, Overlap} \cap Admitted = {}, NEW p \in Procs,
           \/ Reserve(p) \/ Release(p) \/ ReleaseRead(p) \/ ReleaseUnlink(p)
           \/ Fails(p) \/ FailsToUnlink(p) \/ Die(p) \/ Restart(p)
    PROVE  Owning'
<1>0. /\ Acquiring /\ Resting \in AcqSet /\ Resting.at = "idle" /\ Reserved \in AcqSet /\ Reserved.at = "link"
      /\ rel \in [Procs -> {"none", "read", "unlink"}]
  BY BooksAcquiring, RestingIs DEF Books, TypeOK
<1>1. CASE Reserve(p)
  <2>1. UNCHANGED <<lock, rel, alive>> /\ Moves(p, {"link"}) /\ rel[p] = "none"
    BY <1>0, <1>1 DEF Reserve, Moves, Acquiring
  <2> QED BY <2>1, OwningKept DEF Moves, Uses, OffLock, Ats
<1>2. CASE Release(p)
  <2>1. /\ UNCHANGED <<lock, alive>> /\ Moves(p, {"idle"}) /\ p \in alive /\ Uses(p)
        /\ rel' = [rel EXCEPT ![p] = "read"]
    BY <1>0, <1>2 DEF Release, Moves, Acquiring, Owns, At, Uses
  <2>2. UserNamed' /\ NoOverlap' /\ LockSeen' /\ Unused'
    BY <1>0, <2>1 DEF Owning, UserNamed, NoOverlap, LockSeen, Unused, Uses, StillNames, Moves
  <2> QED BY <2>2 DEF Owning
<1>3. CASE ReleaseRead(p) \/ FailsToUnlink(p)
  <2>1. UNCHANGED <<lock, alive, acq>> /\ rel[p] # "none" /\ \A q \in Procs : rel'[q] # "none" => rel[q] # "none"
    BY <1>0, <1>3 DEF ReleaseRead, FailsToUnlink
  <2> QED BY <2>1 DEF Owning, UserNamed, NoOverlap, LockSeen, Unused, Uses, StillNames
<1>4. CASE ReleaseUnlink(p)
  <2>1. /\ UNCHANGED <<alive, acq>> /\ lock' = None /\ rel[p] # "none" /\ rel' = [rel EXCEPT ![p] = "none"]
        /\ acq[p].at = "idle" /\ p \in alive
    BY <1>0, <1>4 DEF ReleaseUnlink, Owning, NoOverlap
  <2>2. Uses(p) /\ lock = p /\ \A q \in Procs \ {p} : ~Uses(q)
    BY <2>1 DEF Owning, UserNamed, Uses
  <2>3. ~Uses(p)' /\ \A q \in Procs \ {p} : ~Uses(q)'
    BY <1>0, <2>1, <2>2 DEF Uses
  <2>4. UserNamed' /\ NoOverlap'
    BY <1>0, <2>1, <2>3 DEF Owning, UserNamed, NoOverlap
  <2>5. \A q \in Procs : acq[q].at # "remove"
    BY <2>2 DEF Owning, Unused
  <2>6. LockSeen' /\ Unused'
    \* Whoever reads p there now leaves it alone: p is alive.
    BY <2>1, <2>2, <2>5 DEF Owning, LockSeen, Unused, StillNames
  <2> QED BY <2>4, <2>6 DEF Owning
<1>5. CASE Fails(p)
  <2>1. UNCHANGED lock /\ Step(p, Ats) /\ OffLock(p) /\ (Uses(p)' => Uses(p))
    BY <1>0, <1>5, FailsDoes DEF Step, Moves, Ats, OffLock, Uses
  <2>2. rel[p] = "none"
    BY <2>1 DEF Step, Owning, NoOverlap
  <2> QED BY <2>1, <2>2, OwningKept DEF Step
<1>6. CASE Die(p)
  <2>1. /\ UNCHANGED lock /\ Moves(p, {"idle"}) /\ alive' = alive \ {p} /\ ~Misread(p)
        /\ rel' = [rel EXCEPT ![p] = "none"]
    BY <1>0, <1>6 DEF Die, Moves, Acquiring
  <2>2. UserNamed' /\ NoOverlap' /\ Unused'
    BY <1>0, <2>1 DEF Owning, UserNamed, NoOverlap, Unused, Uses, Moves
  <2>3. LockSeen'
    <3> SUFFICES ASSUME NEW q \in Procs, (acq[q].at = "rejudge")', (acq[q].seen \notin {None, Junk})'
                 PROVE  StillNames(q, lock)'
      BY DEF LockSeen
    <3>1. q # p /\ acq'[q] = acq[q]
      BY <2>1 DEF Moves
    <3>2. StillNames(q, lock)
      BY <3>1 DEF Owning, LockSeen
    <3>3. acq[q].seen = p => lock = p
      BY <2>1, <3>1 DEF Misread
    <3> QED BY <2>1, <3>1, <3>2, <3>3 DEF StillNames
  <2> QED BY <2>2, <2>3 DEF Owning
<1>7. CASE Restart(p)
  BY <1>7, OwningSame DEF Restart
<1> QED BY <1>1, <1>2, <1>3, <1>4, <1>5, <1>6, <1>7

LEMMA OwningInit == Init => Owning
<1>1. ASSUME Init PROVE \A p \in Procs : acq[p].at = "idle" /\ rel[p] = "none"
  BY <1>1, RestingIs DEF Init
<1> QED BY <1>1 DEF Owning, UserNamed, NoOverlap, LockSeen, Unused, Uses

LEMMA OwningNext ==
    ASSUME Admitted = {} PROVE Books /\ Taking /\ Owning /\ [Next]_vars => Owning'
<1> SUFFICES ASSUME Books, Taking, Owning, [Next]_vars PROVE Owning'
  OBVIOUS
<1>1. CASE UNCHANGED vars
  BY <1>1, OwningSame DEF vars
<1>2. CASE Age
  <2>1. \A p \in Procs : ~Uses(p)
    BY <1>2, LockAssumption DEF Age, Owning, UserNamed
  <2>2. UNCHANGED <<acq, rel, alive>> /\ lock = Junk /\ lock' = OldJunk
    BY <1>2 DEF Age
  <2>3. UserNamed' /\ NoOverlap'
    BY <2>1, <2>2 DEF Owning, UserNamed, NoOverlap, Uses
  <2>4. LockSeen' /\ Unused'
    BY <2>1, <2>2, LockAssumption DEF Owning, LockSeen, Unused, Uses, StillNames
  <2> QED BY <2>3, <2>4 DEF Owning
<1> QED BY <1>1, <1>2, ContinueOwning, OthersOwning DEF Next, FinishRelease

\* The lock file of a live owner is never taken from it, and two live processes never both
\* own the lock, for any number of processes, attempts, deaths, recycled pids and failed
\* operations (file-lock.ts acquireLock, releaseLock).  The three hazards it has to do
\* without are those each of which breaks it.
THEOREM LockIsExclusive ==
    ASSUME Admitted = {} PROVE Spec => [](OwnerIsNamed /\ OneOwner)
<1>1. Books /\ Owning => OwnerIsNamed /\ OneOwner
  BY DEF Books, TypeOK, Owning, UserNamed, Uses, Owns, At, OwnerIsNamed, OneOwner
<1>2. Books /\ Taking /\ [Next]_vars => Taking'
  BY TakingNext
<1>3. Books /\ Taking /\ Owning /\ [Next]_vars => Owning'
  BY OwningNext
<1> QED BY <1>1, <1>2, <1>3, BooksInit, BooksNext, TakingInit, OwningInit, PTL DEF Spec

=============================================================================
