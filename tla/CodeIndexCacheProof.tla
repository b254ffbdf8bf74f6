------------------------- MODULE CodeIndexCacheProof -------------------------
(* What the three copies of an index promise, for any number of callers,     *)
(* writers, slots and commits.                                               *)
EXTENDS CodeIndexCache, TLAPS, FiniteSetTheorems

Copies == [there : BOOLEAN, ver : Nat, dv : Nat, raced : BOOLEAN]
CallPlaces == Admitted \cup {"idle", "parked", "woken", "released", "answered"}
Calls == [at : CallPlaces, copy : Copies, floor : Nat]
WritePlaces == {"idle", "fileCommitted", "fileForgotten", "folderDropped",
                "folderCommitted", "childCommitted"}

Types ==
    /\ rows \in Nat /\ dataVersion \in Nat /\ done \in Nat
    /\ stored \in Copies /\ resident \in Copies
    /\ call \in [Callers -> Calls]
    /\ write \in [Writers -> [at : WritePlaces, ver : Nat]]

\* What was committed is in the rows, and what has returned was committed.
Behind == done <= rows /\ \A w \in Writers : write[w].ver <= rows

\* Version v holds every write that has returned, and every write that will return
\* without anybody looking at the loads in flight again.
Fresh(v) ==
    /\ v >= done
    /\ \A w \in Writers : write[w].at \in {"fileForgotten", "childCommitted"} => v >= write[w].ver

\* The instant between a commit on the shared connection and invalidateIndexCache.
Committing == \E w \in Writers : write[w].at \in {"fileCommitted", "folderCommitted"}

\* A call that raced no local commit carries a fresh copy from the moment it has
\* read one; the rows it read are still the rows if its data_version still is.
CallOK(r) ==
    /\ r.floor <= done
    /\ r.at \in {"reading", "read"} => r.copy.dv <= dataVersion
    /\ r.at = "read" /\ ~ r.copy.raced /\ r.copy.dv = dataVersion => r.copy.ver = rows
    /\ r.at \in {"read", "loaded", "released"} /\ ~ r.copy.raced => Fresh(r.copy.ver)
    /\ r.at \in {"shared", "answered"} /\ ~ r.copy.raced => r.copy.ver >= r.floor

StoredOK(s) ==
    s.there =>
        /\ s.dv <= dataVersion
        /\ ~ s.raced /\ s.dv = dataVersion => Fresh(s.ver) /\ (s.ver = rows \/ Committing)

ResidentOK(s) == s.there /\ ~ s.raced => s.ver >= done

IInv ==
    /\ Types /\ Behind
    /\ \A c \in Callers : CallOK(call[c])
    /\ StoredOK(stored) /\ ResidentOK(resident)

-----------------------------------------------------------------------------
(* Steps of callers: the rows and the writers stand still *)

Still == UNCHANGED <<rows, dataVersion, done, write>>

\* A step that leaves rows and writers alone need only show that what it stored,
\* published or handed to a call is in order.
LEMMA CallerStep ==
    ASSUME IInv, Still,
           call' \in [Callers -> Calls], \A c \in Callers : CallOK(call'[c]),
           stored' \in Copies, StoredOK(stored'),
           resident' \in Copies, ResidentOK(resident')
    PROVE  IInv'
<1>1. Types' /\ Behind'
  BY DEF IInv, Types, Behind, Still
<1>2. (\A c \in Callers : CallOK(call[c]))' /\ StoredOK(stored)' /\ ResidentOK(resident)'
  BY DEF CallOK, StoredOK, ResidentOK, Fresh, Committing, Still
<1> QED BY <1>1, <1>2 DEF IInv

\* The usual case: one call moves to a record in order.
LEMMA OneCall ==
    ASSUME IInv, NEW c \in Callers, NEW r \in Calls, CallOK(r), call' = [call EXCEPT ![c] = r]
    PROVE  call' \in [Callers -> Calls] /\ \A d \in Callers : CallOK(call'[d])
<1>1. call' \in [Callers -> Calls]
  BY DEF IInv, Types
<1>2. \A d \in Callers : call'[d] = IF d = c THEN r ELSE call[d]
  BY DEF IInv, Types
<1> QED BY <1>1, <1>2 DEF IInv

LEMMA NothingIsOK == None \in Copies /\ StoredOK(None) /\ ResidentOK(None)
BY DEF None, Copies, StoredOK, ResidentOK

-----------------------------------------------------------------------------

LEMMA AnswerResidentStep ==
    ASSUME IInv, NEW c \in Callers, AnswerResident(c)
    PROVE  IInv'
<1> DEFINE r == Begun("answered", resident)
<1>1. r \in Calls /\ CallOK(r)
  BY DEF IInv, Types, Begun, Calls, CallPlaces, CallOK, ResidentOK, AnswerResident
<1>2. call' = [call EXCEPT ![c] = r]
  BY DEF AnswerResident, Begin
<1> HIDE DEF r
<1> QED BY <1>1, <1>2, OneCall, CallerStep DEF AnswerResident, Still, IInv, Types

LEMMA ColdStep ==
    ASSUME IInv, NEW c \in Callers, TakeSlot(c) \/ Park(c)
    PROVE  IInv'
<1>1. PICK s \in {"entered", "parked"} : call' = [call EXCEPT ![c] = Begun(s, None)]
  BY DEF TakeSlot, Park, Begin
<1>2. Begun(s, None) \in Calls /\ CallOK(Begun(s, None))
  BY NothingIsOK DEF IInv, Types, Begun, Calls, CallPlaces, Admitted, CallOK
<1> QED BY <1>1, <1>2, OneCall, CallerStep DEF TakeSlot, Park, Still, IInv, Types

LEMMA ResumeStep ==
    ASSUME IInv, NEW c \in Callers, Resume(c)
    PROVE  IInv'
<1> DEFINE r == [call[c] EXCEPT !.at = "entered"]
<1>1. call[c] \in Calls /\ CallOK(call[c])
  BY DEF IInv, Types
<1>2. r \in Calls /\ CallOK(r)
  BY <1>1 DEF Calls, CallPlaces, Admitted, CallOK
<1>3. call' = [call EXCEPT ![c] = r]
  BY DEF Resume, Go
<1> HIDE DEF r
<1> QED BY <1>2, <1>3, OneCall, CallerStep DEF Resume, Still, IInv, Types

\* A call that reads, shares or looks something up and changes no cache.
LEMMA LookStep ==
    ASSUME IInv, NEW c \in Callers,
           Recheck(c) \/ HitStored(c) \/ MissStored(c) \/ ReadSnapshot(c)
    PROVE  IInv'
<1>0. /\ call[c] \in Calls /\ CallOK(call[c])
      /\ stored \in Copies /\ resident \in Copies /\ rows \in Nat /\ dataVersion \in Nat /\ done \in Nat
  BY DEF IInv, Types
<1>1. PICK s \in CallPlaces, k \in Copies :
        GoWith(c, s, k) /\ CallOK([at |-> s, copy |-> k, floor |-> call[c].floor])
  <2>1. CASE Recheck(c)
    <3>1. CallOK([at |-> "shared", copy |-> resident, floor |-> call[c].floor])
      BY <1>0, <2>1 DEF IInv, Recheck, CallOK, ResidentOK, Calls, Copies
    <3> QED BY <1>0, <2>1, <3>1 DEF Recheck, CallPlaces, Admitted
  <2>2. CASE HitStored(c)
    <3> DEFINE k == Plain(stored)
    <3>1. k \in Copies /\ k.ver = stored.ver /\ k.raced = stored.raced
      BY <1>0 DEF Plain, Copies
    <3>2. ~ k.raced => Fresh(k.ver)
      BY <2>2, <3>1 DEF HitStored, IInv, StoredOK
    <3> HIDE DEF k
    <3>3. CallOK([at |-> "loaded", copy |-> k, floor |-> call[c].floor])
      BY <1>0, <3>2 DEF CallOK
    <3> QED BY <2>2, <3>1, <3>3 DEF HitStored, CallPlaces, Admitted, k
  <2>3. CASE MissStored(c)
    <3> DEFINE k == Copy(0, dataVersion)
    <3>1. k \in Copies /\ k.dv = dataVersion
      BY <1>0 DEF Copy, Copies
    <3> HIDE DEF k
    <3>2. CallOK([at |-> "reading", copy |-> k, floor |-> call[c].floor])
      BY <1>0, <3>1 DEF CallOK
    <3> QED BY <2>3, <3>1, <3>2 DEF MissStored, CallPlaces, Admitted, k
  <2>4. CASE ReadSnapshot(c)
    <3> DEFINE k == [call[c].copy EXCEPT !.ver = rows]
    <3>1. k \in Copies /\ k.ver = rows /\ k.dv = call[c].copy.dv
      BY <1>0 DEF Calls, Copies
    <3>2. Fresh(rows)
      BY <1>0 DEF IInv, Behind, Fresh, Types
    <3>3. call[c].copy.dv <= dataVersion
      BY <1>0, <2>4 DEF ReadSnapshot, CallOK, At
    <3> HIDE DEF k
    <3>4. CallOK([at |-> "read", copy |-> k, floor |-> call[c].floor])
      BY <1>0, <3>1, <3>2, <3>3 DEF CallOK
    <3> QED BY <2>4, <3>1, <3>4 DEF ReadSnapshot, CallPlaces, Admitted, k
  <2> QED BY <2>1, <2>2, <2>3, <2>4
<1> DEFINE r == [at |-> s, copy |-> k, floor |-> call[c].floor]
<1>2. r \in Calls /\ CallOK(r) /\ call' = [call EXCEPT ![c] = r]
  BY <1>0, <1>1 DEF GoWith, Calls
<1>3. Still /\ stored' = stored /\ resident' = resident
  BY DEF Recheck, HitStored, MissStored, ReadSnapshot, Still
<1> HIDE DEF r
<1> QED BY <1>2, <1>3, OneCall, CallerStep DEF IInv, Types

LEMMA CacheStoredStep ==
    ASSUME IInv, NEW c \in Callers, CacheStored(c)
    PROVE  IInv'
<1> DEFINE k == call[c].copy
           r == [at |-> "loaded", copy |-> Plain(k), floor |-> call[c].floor]
<1>1. call[c] \in Calls /\ CallOK(call[c]) /\ k \in Copies
  BY DEF IInv, Types, Calls
<1>2. Plain(k) \in Copies /\ Plain(k).ver = k.ver /\ Plain(k).raced = k.raced
  BY <1>1 DEF Plain, Copies
<1>3. /\ ~ k.raced => Fresh(k.ver)
      /\ k.dv <= dataVersion /\ (~ k.raced /\ k.dv = dataVersion => k.ver = rows)
  BY <1>1 DEF CacheStored, At, CallOK
<1>4. StoredOK(k)
  BY <1>3 DEF StoredOK
<1>5. r \in Calls /\ CallOK(r)
  <2>1. CallOK(r)
    BY <1>1, <1>2, <1>3 DEF CallOK
  <2> QED BY <1>1, <1>2, <2>1 DEF Calls, CallPlaces, Admitted
<1>6. call' = [call EXCEPT ![c] = r] /\ stored' = k /\ resident' = resident /\ Still
  BY DEF CacheStored, GoWith, Still
<1> HIDE DEF k, r
<1> QED BY <1>1, <1>4, <1>5, <1>6, OneCall, CallerStep DEF IInv, Types

\* What getCodeIndex publishes was fresh when it was read and still is.
LEMMA PublishStep ==
    ASSUME IInv, NEW c \in Callers, Publish(c)
    PROVE  IInv'
<1> DEFINE k == call[c].copy
           r == [call[c] EXCEPT !.at = "answered"]
<1>1. /\ call[c] \in Calls /\ CallOK(call[c]) /\ k \in Copies
      /\ call[c].floor \in Nat /\ done \in Nat /\ k.ver \in Nat
  BY DEF IInv, Types, Calls, Copies
<1>2. ~ k.raced => k.ver >= done /\ k.ver >= call[c].floor
  <2>1. ~ k.raced => Fresh(k.ver)
    BY <1>1 DEF Publish, At, CallOK
  <2>2. call[c].floor <= done
    BY <1>1 DEF CallOK
  <2> QED BY <1>1, <2>1, <2>2 DEF Fresh
<1>3. ResidentOK(k)
  BY <1>2 DEF ResidentOK
<1>4. r \in Calls /\ CallOK(r)
  BY <1>1, <1>2 DEF Calls, CallPlaces, Admitted, CallOK
<1>5. call' = [call EXCEPT ![c] = r] /\ resident' = k /\ stored' = stored /\ Still
  BY DEF Publish, Go, Still
<1> HIDE DEF k, r
<1> QED BY <1>1, <1>3, <1>4, <1>5, OneCall, CallerStep DEF IInv, Types

LEMMA IdleIsOK == ASSUME IInv PROVE Idle \in Calls /\ CallOK(Idle)
BY NothingIsOK DEF IInv, Types, Idle, Calls, CallPlaces, CallOK

\* Whoever is woken moves to a place where nothing is asked of its copy.
LEMMA GiveBackKeeps ==
    ASSUME IInv, NEW c \in Callers, NEW r \in Calls, CallOK(r), GiveBack(c, r)
    PROVE  call' \in [Callers -> Calls] /\ \A d \in Callers : CallOK(call'[d])
<1>1. CASE waiting = <<>>
  BY <1>1, OneCall DEF GiveBack
<1>2. CASE waiting # <<>>
  <2> DEFINE h == Head(waiting)
             mid == [call EXCEPT ![c] = r]
             w == [mid[h] EXCEPT !.at = "woken"]
  <2>1. mid \in [Callers -> Calls] /\ \A d \in Callers : CallOK(mid[d])
    BY DEF IInv, Types
  <2>2. call' = [mid EXCEPT ![h] = w]
    BY <1>2 DEF GiveBack
  <2>3. ASSUME h \in Callers PROVE w \in Calls /\ CallOK(w)
    <3> HIDE DEF mid, h
    <3>1. mid[h] \in Calls /\ CallOK(mid[h])
      BY <2>1, <2>3
    <3> QED BY <3>1 DEF Calls, CallPlaces, Admitted, CallOK
  <2> HIDE DEF mid, h, w
  <2>4. call' \in [Callers -> Calls]
    BY <2>1, <2>2, <2>3
  <2>5. \A d \in Callers : call'[d] = IF d = h THEN w ELSE mid[d]
    BY <2>1, <2>2
  <2> QED BY <2>1, <2>3, <2>4, <2>5
<1> QED BY <1>1, <1>2

LEMMA ReleaseStep ==
    ASSUME IInv, NEW c \in Callers, LoadFails(c) \/ Release(c) \/ Finish(c)
    PROVE  IInv'
<1>0. call[c] \in Calls /\ CallOK(call[c])
  BY DEF IInv, Types
<1>1. call' \in [Callers -> Calls] /\ \A d \in Callers : CallOK(call'[d])
  <2>1. CASE LoadFails(c)
    BY <2>1, IdleIsOK, GiveBackKeeps DEF LoadFails
  <2>2. CASE Release(c)
    <3>1. PICK s \in {"released", "answered"} :
              /\ GiveBack(c, [call[c] EXCEPT !.at = s])
              /\ s = "released" <=> call[c].at = "loaded"
              /\ call[c].at \in {"loaded", "shared"}
      BY <2>2 DEF Release, At
    <3> DEFINE r == [call[c] EXCEPT !.at = s]
    <3>2. r \in Calls /\ r.at = s /\ r.copy = call[c].copy /\ r.floor = call[c].floor
      BY <1>0 DEF Calls, CallPlaces, Admitted
    <3>3. CallOK(r)
      BY <1>0, <3>1, <3>2 DEF CallOK
    <3> HIDE DEF r
    <3>4. GiveBack(c, r)
      BY <3>1 DEF r
    <3> QED BY <3>2, <3>3, <3>4, GiveBackKeeps
  <2>3. CASE Finish(c)
    BY <2>3, IdleIsOK, OneCall DEF Finish
  <2> QED BY <2>1, <2>2, <2>3
<1>2. Still /\ stored' = stored /\ resident' = resident
  BY DEF LoadFails, Release, Finish, Still
<1> QED BY <1>1, <1>2, CallerStep DEF IInv, Types

LEMMA EvictStep ==
    ASSUME IInv, EvictResident \/ EvictStored
    PROVE  IInv'
<1>1. Still /\ call' = call /\ stored' \in {stored, None} /\ resident' \in {resident, None}
  BY DEF EvictResident, EvictStored, DropResident, ForgetStored, Still
<1> QED BY <1>1, NothingIsOK, CallerStep DEF IInv, Types

-----------------------------------------------------------------------------
(* Steps of writers *)

\* A call keeps its place, its floor and its copy, but for the mark of a race.
LEMMA RacedCalls ==
    ASSUME IInv, RaceLoads
    PROVE  /\ call' \in [Callers -> Calls]
           /\ \A c \in Callers :
                /\ call'[c].at = call[c].at /\ call'[c].floor = call[c].floor
                /\ call'[c].copy.ver = call[c].copy.ver /\ call'[c].copy.dv = call[c].copy.dv
                /\ call[c].at \in InFlight => call'[c].copy.raced
                /\ call[c].at \notin InFlight => call'[c] = call[c]
<1> SUFFICES ASSUME NEW c \in Callers
             PROVE  /\ call'[c] \in Calls
                    /\ call'[c].at = call[c].at /\ call'[c].floor = call[c].floor
                    /\ call'[c].copy.ver = call[c].copy.ver /\ call'[c].copy.dv = call[c].copy.dv
                    /\ call[c].at \in InFlight => call'[c].copy.raced
                    /\ call[c].at \notin InFlight => call'[c] = call[c]
  BY DEF RaceLoads
<1>1. call[c] \in Calls /\ call[c].copy \in Copies
  BY DEF IInv, Types, Calls
<1>2. CASE call[c].at \in InFlight
  <2> DEFINE k == [call[c].copy EXCEPT !.raced = TRUE]
  <2>1. call'[c] = [call[c] EXCEPT !.copy = k]
    BY <1>2 DEF RaceLoads
  <2>2. k \in Copies /\ k.raced /\ k.ver = call[c].copy.ver /\ k.dv = call[c].copy.dv
    BY <1>1 DEF Copies
  <2> HIDE DEF k
  <2> QED BY <1>1, <1>2, <2>1, <2>2 DEF Calls
<1>3. CASE call[c].at \notin InFlight
  BY <1>1, <1>3 DEF RaceLoads
<1> QED BY <1>2, <1>3

\* After a local writer marked them, nothing is left to show of the loads in flight.
LEMMA RaceStep ==
    ASSUME IInv, RaceLoads, Types', done' >= done, dataVersion' >= dataVersion
    PROVE  \A c \in Callers : CallOK(call[c])'
<1> SUFFICES ASSUME NEW c \in Callers PROVE CallOK(call[c])'
  OBVIOUS
<1>1. CallOK(call[c]) /\ call[c] \in Calls /\ call[c].copy.dv \in Nat /\ call[c].floor \in Nat
  BY DEF IInv, Types, Calls, Copies
<1>2. /\ call'[c].at = call[c].at /\ call'[c].floor = call[c].floor
      /\ call'[c].copy.ver = call[c].copy.ver /\ call'[c].copy.dv = call[c].copy.dv
      /\ call[c].at \in InFlight => call'[c].copy.raced
      /\ call[c].at \notin InFlight => call'[c] = call[c]
  BY RacedCalls
<1>3. done \in Nat /\ done' \in Nat /\ dataVersion \in Nat /\ dataVersion' \in Nat
  BY DEF IInv, Types
<1>4. call'[c].floor <= done' /\ (call[c].at \in {"reading", "read"} => call'[c].copy.dv <= dataVersion')
  BY <1>1, <1>2, <1>3 DEF CallOK
<1>5. CASE call[c].at \in InFlight
  BY <1>2, <1>4, <1>5 DEF CallOK, InFlight
<1>6. CASE call[c].at \notin InFlight
  BY <1>1, <1>2, <1>4, <1>6 DEF CallOK, InFlight
<1> QED BY <1>5, <1>6

\* A local commit: a version on top of all, and the loads in flight overlap it.
LEMMA CommitByTypes ==
    ASSUME IInv, NEW w \in Writers, NEW from, NEW to \in WritePlaces \ {"fileForgotten"},
           CommitBy(w, from, to), done' = done
    PROVE  /\ rows' = rows + 1 /\ RaceLoads
           /\ write' \in [Writers -> [at : WritePlaces, ver : Nat]]
           /\ write'[w].at = to /\ \A v \in Writers \ {w} : write'[v] = write[v]
           /\ Behind'
<1>1. rows \in Nat /\ done \in Nat /\ write \in [Writers -> [at : WritePlaces, ver : Nat]]
  BY DEF IInv, Types
<1>2. rows' = rows + 1 /\ RaceLoads /\ write' = [write EXCEPT ![w] = [at |-> to, ver |-> rows + 1]]
  BY DEF CommitBy, Commit
<1>3. /\ write' \in [Writers -> [at : WritePlaces, ver : Nat]]
      /\ write'[w].at = to /\ write'[w].ver = rows + 1
      /\ \A v \in Writers \ {w} : write'[v] = write[v]
  BY <1>1, <1>2
<1>4. Behind'
  BY <1>1, <1>2, <1>3 DEF IInv, Behind
<1> QED BY <1>2, <1>3, <1>4

LEMMA FileCommitStep ==
    ASSUME IInv, NEW w \in Writers, FileCommit(w)
    PROVE  IInv'
<1>0. "fileCommitted" \in WritePlaces \ {"fileForgotten"}
  BY DEF WritePlaces
<1>1. /\ dataVersion' = dataVersion /\ stored' = stored /\ resident' = resident /\ done' = done
      /\ CommitBy(w, "idle", "fileCommitted")
  BY DEF FileCommit
<1>2. /\ rows' = rows + 1 /\ RaceLoads
      /\ write' \in [Writers -> [at : WritePlaces, ver : Nat]]
      /\ write'[w].at = "fileCommitted" /\ \A v \in Writers \ {w} : write'[v] = write[v]
      /\ Behind'
  BY <1>0, <1>1, CommitByTypes
<1>3. Types'
  BY <1>1, <1>2, RacedCalls DEF IInv, Types
<1>4. \A c \in Callers : CallOK(call[c])'
  BY <1>1, <1>2, <1>3, RaceStep DEF IInv, Types
<1>5. Committing' /\ \A v : Fresh(v) => Fresh(v)'
  BY <1>1, <1>2 DEF Committing, Fresh
<1>6. StoredOK(stored)' /\ ResidentOK(resident)'
  BY <1>1, <1>5 DEF IInv, StoredOK, ResidentOK
<1> QED BY <1>2, <1>3, <1>4, <1>6 DEF IInv

LEMMA FolderCommitStep ==
    ASSUME IInv, NEW w \in Writers, FolderCommit(w)
    PROVE  IInv'
<1>0. "folderCommitted" \in WritePlaces \ {"fileForgotten"}
  BY DEF WritePlaces
<1>1. /\ dataVersion' \in {dataVersion, dataVersion + 1} /\ stored' = stored /\ done' = done
      /\ resident' = Raced(resident) /\ CommitBy(w, "folderDropped", "folderCommitted")
  BY DEF FolderCommit
<1>2. /\ rows' = rows + 1 /\ RaceLoads
      /\ write' \in [Writers -> [at : WritePlaces, ver : Nat]]
      /\ write'[w].at = "folderCommitted" /\ \A v \in Writers \ {w} : write'[v] = write[v]
      /\ Behind'
  BY <1>0, <1>1, CommitByTypes
<1>3. dataVersion \in Nat /\ dataVersion' \in Nat /\ dataVersion' >= dataVersion
  BY <1>1 DEF IInv, Types
<1>4. resident' \in Copies /\ ResidentOK(resident)'
  <2>1. resident \in Copies
    BY DEF IInv, Types
  <2>2. resident' \in Copies /\ resident'.there = resident.there /\ resident'.raced = resident.there
    BY <1>1, <2>1 DEF Raced, Copies
  <2> QED BY <2>2 DEF ResidentOK
<1>5. Types'
  BY <1>1, <1>2, <1>3, <1>4, RacedCalls DEF IInv, Types
<1>6. \A c \in Callers : CallOK(call[c])'
  BY <1>1, <1>2, <1>3, <1>5, RaceStep DEF IInv, Types
<1>7. Committing' /\ \A v : Fresh(v) => Fresh(v)'
  BY <1>1, <1>2 DEF Committing, Fresh
<1>8. StoredOK(stored)'
  <2>1. stored.dv \in Nat /\ StoredOK(stored)
    BY DEF IInv, Types, Copies
  <2>2. stored.there => stored.dv <= dataVersion'
    BY <1>3, <2>1 DEF StoredOK
  <2>3. stored.there /\ stored.dv = dataVersion' => dataVersion' = dataVersion
    BY <1>1, <1>3, <2>1 DEF StoredOK
  <2> QED BY <1>1, <1>7, <2>1, <2>2, <2>3 DEF StoredOK
<1> QED BY <1>2, <1>4, <1>5, <1>6, <1>8 DEF IInv

LEMMA ChildCommitStep ==
    ASSUME IInv, NEW w \in Writers, ChildCommit(w)
    PROVE  IInv'
<1>0. "childCommitted" \in WritePlaces \ {"fileForgotten"}
  BY DEF WritePlaces
<1>1. /\ dataVersion' = dataVersion + 1 /\ stored' = stored /\ resident' = resident /\ done' = done
      /\ CommitBy(w, "idle", "childCommitted")
  BY DEF ChildCommit
<1>2. /\ rows' = rows + 1 /\ RaceLoads /\ Behind'
      /\ write' \in [Writers -> [at : WritePlaces, ver : Nat]]
  BY <1>0, <1>1, CommitByTypes
<1>3. dataVersion \in Nat /\ dataVersion' \in Nat /\ dataVersion' >= dataVersion
  BY <1>1 DEF IInv, Types
<1>4. Types'
  BY <1>1, <1>2, <1>3, RacedCalls DEF IInv, Types
<1>5. \A c \in Callers : CallOK(call[c])'
  BY <1>1, <1>2, <1>3, <1>4, RaceStep DEF IInv, Types
\* The storage copy was read under an earlier data_version.
<1>6. StoredOK(stored)'
  <2>1. stored.dv \in Nat /\ StoredOK(stored)
    BY DEF IInv, Types, Copies
  <2> QED BY <1>1, <1>3, <2>1 DEF StoredOK
<1>7. ResidentOK(resident)'
  BY <1>1 DEF IInv, ResidentOK
<1> QED BY <1>2, <1>4, <1>5, <1>6, <1>7 DEF IInv

LEMMA OutsideCommitStep ==
    ASSUME IInv, OutsideCommit
    PROVE  IInv'
<1>1. /\ rows' = rows + 1 /\ dataVersion' = dataVersion + 1
      /\ UNCHANGED <<stored, resident, call, write, done>>
  BY DEF OutsideCommit, Commit
<1>2. rows \in Nat /\ dataVersion \in Nat /\ done \in Nat
  BY DEF IInv, Types
<1>3. Types' /\ Behind'
  BY <1>1, <1>2 DEF IInv, Types, Behind
<1>4. ASSUME NEW c \in Callers PROVE CallOK(call[c])'
  <2>1. call[c].copy.dv \in Nat /\ CallOK(call[c])
    BY DEF IInv, Types, Calls, Copies
  <2> QED BY <1>1, <1>2, <2>1 DEF CallOK, Fresh
<1>5. StoredOK(stored)'
  <2>1. stored.dv \in Nat /\ StoredOK(stored)
    BY DEF IInv, Types, Copies
  <2> QED BY <1>1, <1>2, <2>1 DEF StoredOK
<1>6. ResidentOK(resident)'
  BY <1>1 DEF IInv, ResidentOK
<1> QED BY <1>3, <1>4, <1>5, <1>6 DEF IInv

LEMMA FileForgetStoredStep ==
    ASSUME IInv, NEW w \in Writers, FileForgetStored(w)
    PROVE  IInv'
<1>1. /\ stored' = None /\ RaceLoads /\ UNCHANGED <<rows, dataVersion, resident, done>>
      /\ write' = [write EXCEPT ![w].at = "fileForgotten"]
  BY DEF FileForgetStored, Step, ForgetStored
<1>2. "fileForgotten" \in WritePlaces /\ rows \in Nat /\ done \in Nat /\ dataVersion \in Nat
  BY DEF WritePlaces, IInv, Types
<1>3. Types'
  BY <1>1, <1>2, RacedCalls, NothingIsOK DEF IInv, Types
<1>4. Behind'
  BY <1>1 DEF IInv, Types, Behind
<1>5. \A c \in Callers : CallOK(call[c])'
  BY <1>1, <1>2, <1>3, RaceStep
<1>6. StoredOK(stored)' /\ ResidentOK(resident)'
  BY <1>1 DEF IInv, StoredOK, ResidentOK, None
<1> QED BY <1>3, <1>4, <1>5, <1>6 DEF IInv

\* A write that returns raises what is demanded of a copy no further than Fresh
\* already went.
LEMMA ReturnFresh ==
    ASSUME IInv, NEW w \in Writers, NEW from \in WritePlaces, Return(w, from), UNCHANGED rows
    PROVE  /\ done' \in Nat /\ done' >= done /\ Behind'
           /\ write' \in [Writers -> [at : WritePlaces, ver : Nat]]
           /\ \A v \in Writers \ {w} : write'[v] = write[v]
           /\ from \in {"fileForgotten", "childCommitted"} => \A v \in Nat : Fresh(v) => Fresh(v)'
<1>1. /\ write[w].at = from /\ write' = [write EXCEPT ![w] = NoWrite]
      /\ done' = IF write[w].ver > done THEN write[w].ver ELSE done
  BY DEF Return
<1>2. /\ rows \in Nat /\ done \in Nat /\ write \in [Writers -> [at : WritePlaces, ver : Nat]]
      /\ write[w].ver \in Nat /\ NoWrite \in [at : WritePlaces, ver : Nat]
  BY DEF IInv, Types, NoWrite, WritePlaces
<1>3. /\ write' \in [Writers -> [at : WritePlaces, ver : Nat]] /\ write'[w] = NoWrite
      /\ \A v \in Writers \ {w} : write'[v] = write[v]
  BY <1>1, <1>2
<1>4. done' \in Nat /\ done' >= done /\ done' >= write[w].ver
  BY <1>1, <1>2
<1>5. Behind'
  <2>1. NoWrite.ver = 0
    BY DEF NoWrite
  <2> QED BY <1>1, <1>2, <1>3, <2>1 DEF IInv, Behind
<1>6. ASSUME from \in {"fileForgotten", "childCommitted"}, NEW v \in Nat, Fresh(v)
      PROVE  Fresh(v)'
  <2>1. v >= done'
    BY <1>1, <1>2, <1>6 DEF Fresh
  <2>2. \A u \in Writers : write'[u].at \in {"fileForgotten", "childCommitted"} => v >= write'[u].ver
    BY <1>3, <1>6 DEF Fresh, NoWrite
  <2> QED BY <2>1, <2>2 DEF Fresh
<1> QED BY <1>3, <1>4, <1>5, <1>6

\* FileReturn and ChildAdopt: nobody is marked, and nobody need be.
LEMMA DropAndReturnStep ==
    ASSUME IInv, NEW w \in Writers, FileReturn(w) \/ ChildAdopt(w)
    PROVE  IInv'
<1>1. PICK from \in {"fileForgotten", "childCommitted"} : Return(w, from)
  BY DEF FileReturn, ChildAdopt
<1>2. /\ resident' = None /\ UNCHANGED <<rows, dataVersion, stored, call>>
  BY DEF FileReturn, ChildAdopt, DropResident
<1>3. from \in WritePlaces
  BY DEF WritePlaces
<1>4. /\ done' \in Nat /\ done' >= done /\ Behind'
      /\ write' \in [Writers -> [at : WritePlaces, ver : Nat]]
      /\ \A v \in Writers \ {w} : write'[v] = write[v]
      /\ \A v \in Nat : Fresh(v) => Fresh(v)'
  BY <1>1, <1>2, <1>3, ReturnFresh
<1>5. Types'
  BY <1>2, <1>4, NothingIsOK DEF IInv, Types
<1>6. ASSUME NEW c \in Callers PROVE CallOK(call[c])'
  <2>1. /\ call[c].copy.ver \in Nat /\ call[c].floor \in Nat /\ done \in Nat
        /\ CallOK(call[c])
    BY DEF IInv, Types, Calls, Copies
  <2> QED BY <1>2, <1>4, <2>1 DEF CallOK
<1>7. Committing => Committing'
  BY <1>1, <1>4 DEF Committing, Return
<1>8. StoredOK(stored)'
  <2>1. stored.ver \in Nat /\ StoredOK(stored)
    BY DEF IInv, Types, Copies
  <2> QED BY <1>2, <1>4, <1>7, <2>1 DEF StoredOK
<1>9. ResidentOK(resident)'
  BY <1>2 DEF ResidentOK, None
<1> QED BY <1>4, <1>5, <1>6, <1>8, <1>9 DEF IInv

\* indexFolder's return, which drops no resident index: it counts as raced.
LEMMA FolderReturnStep ==
    ASSUME IInv, NEW w \in Writers, FolderReturn(w)
    PROVE  IInv'
<1>1. /\ Return(w, "folderCommitted") /\ stored' = None /\ resident' = Raced(resident) /\ RaceLoads
      /\ UNCHANGED <<rows, dataVersion>>
  BY DEF FolderReturn, ForgetStored
<1>2. "folderCommitted" \in WritePlaces
  BY DEF WritePlaces
<1>3. /\ done' \in Nat /\ done' >= done /\ Behind'
      /\ write' \in [Writers -> [at : WritePlaces, ver : Nat]]
  BY <1>1, <1>2, ReturnFresh
<1>4. resident' \in Copies /\ ResidentOK(resident)'
  <2>1. resident \in Copies
    BY DEF IInv, Types
  <2>2. resident' \in Copies /\ resident'.there = resident.there /\ resident'.raced = resident.there
    BY <1>1, <2>1 DEF Raced, Copies
  <2> QED BY <2>2 DEF ResidentOK
<1>5. Types'
  BY <1>1, <1>3, <1>4, RacedCalls, NothingIsOK DEF IInv, Types
<1>6. dataVersion \in Nat
  BY DEF IInv, Types
<1>7. \A c \in Callers : CallOK(call[c])'
  BY <1>1, <1>3, <1>5, <1>6, RaceStep
<1>8. StoredOK(stored)'
  BY <1>1 DEF StoredOK, None
<1> QED BY <1>3, <1>4, <1>5, <1>7, <1>8 DEF IInv

\* The two steps of indexFolder that commit nothing.
LEMMA FolderStep ==
    ASSUME IInv, NEW w \in Writers, FolderDrop(w) \/ FolderReject(w)
    PROVE  IInv'
<1>1. PICK to \in {"folderDropped", "idle"} :
        /\ write[w].at \in {"idle", "folderDropped"} /\ write' = [write EXCEPT ![w].at = to]
  BY DEF FolderDrop, FolderReject, Step
<1>2. /\ resident' \in {resident, None} /\ UNCHANGED <<rows, dataVersion, stored, call, done>>
  BY DEF FolderDrop, FolderReject, DropResident
<1>3. Types'
  BY <1>1, <1>2, NothingIsOK DEF IInv, Types, WritePlaces
<1>4. Behind' /\ (Committing <=> Committing') /\ \A v : Fresh(v) <=> Fresh(v)'
  BY <1>1, <1>2 DEF IInv, Types, Behind, Committing, Fresh
<1>5. \A c \in Callers : CallOK(call[c])'
  BY <1>2, <1>4 DEF IInv, CallOK
<1>6. StoredOK(stored)'
  BY <1>2, <1>4 DEF IInv, StoredOK
<1>7. ResidentOK(resident)'
  BY <1>2 DEF IInv, ResidentOK, None
<1> QED BY <1>3, <1>4, <1>5, <1>6, <1>7 DEF IInv

-----------------------------------------------------------------------------

LEMMA InitIInv == Init => IInv
<1> SUFFICES ASSUME Init PROVE IInv
  OBVIOUS
<1>1. Types
  BY NothingIsOK DEF Init, Types, Idle, Calls, CallPlaces, NoWrite, WritePlaces
<1>2. Behind
  BY DEF Init, Behind, NoWrite
<1>3. \A c \in Callers : CallOK(call[c])
  BY DEF Init, CallOK, Idle
<1>4. StoredOK(stored) /\ ResidentOK(resident)
  BY NothingIsOK DEF Init
<1> QED BY <1>1, <1>2, <1>3, <1>4 DEF IInv

LEMMA NextStep == IInv /\ [Next]_vars => IInv'
<1> SUFFICES ASSUME IInv, [Next]_vars PROVE IInv'
  OBVIOUS
<1>1. ASSUME NEW c \in Callers, AnswerResident(c) \/ TakeSlot(c) \/ Park(c)
      PROVE  IInv'
  BY <1>1, AnswerResidentStep, ColdStep
<1>2. ASSUME NEW c \in Callers, Serve(c) \/ LoadFails(c) \/ Finish(c)
      PROVE  IInv'
  BY <1>2, ResumeStep, LookStep, CacheStoredStep, ReleaseStep, PublishStep DEF Serve
<1>3. CASE EvictResident \/ EvictStored \/ OutsideCommit
  BY <1>3, EvictStep, OutsideCommitStep
<1>4. ASSUME NEW w \in Writers, FileCommit(w) \/ FileForgetStored(w) \/ FileReturn(w)
      PROVE  IInv'
  BY <1>4, FileCommitStep, FileForgetStoredStep, DropAndReturnStep
<1>5. ASSUME NEW w \in Writers,
             FolderDrop(w) \/ FolderReject(w) \/ FolderCommit(w) \/ FolderReturn(w)
      PROVE  IInv'
  BY <1>5, FolderStep, FolderCommitStep, FolderReturnStep
<1>6. ASSUME NEW w \in Writers, ChildCommit(w) \/ ChildAdopt(w)
      PROVE  IInv'
  BY <1>6, ChildCommitStep, DropAndReturnStep
<1>7. CASE UNCHANGED vars
  BY <1>7 DEF vars, IInv, Types, Behind, CallOK, StoredOK, ResidentOK, Fresh, Committing
<1> QED BY <1>1, <1>2, <1>3, <1>4, <1>5, <1>6, <1>7 DEF Next

LEMMA Invariance == Spec => []IInv
BY InitIInv, NextStep, PTL DEF Spec

\* The resident index, which every tool is answered from without a look at the
\* database, holds every write that has returned, unless a local commit landed
\* while it was being loaded.
THEOREM ResidentIsCurrent == Spec => []CleanResidentIsCurrent
<1>1. IInv => CleanResidentIsCurrent
  BY DEF IInv, ResidentOK, CleanResidentIsCurrent
<1> QED BY <1>1, Invariance, PTL

\* A storage-level copy whose data_version still matches, and whose load raced no
\* local writer, is the committed index, but for a local writer between its commit
\* and its invalidation, because the data_version is read before the rows are.
\* Nothing is claimed of a copy whose load raced a local writer: if readIndex stores
\* it after that writer's invalidation (index-store.ts:391-392) it matches and stays old.
THEOREM StoredIsCommitted == Spec => []StoredMatchesRows
<1>1. IInv => StoredMatchesRows
  BY DEF IInv, StoredOK, Committing, StoredMatchesRows
<1> QED BY <1>1, Invariance, PTL

\* Read your writes, through whichever of the three copies a call is answered.
THEOREM AnswersReadWrites == Spec => []CleanAnswerReadsWrites
<1>1. IInv => CleanAnswerReadsWrites
  BY DEF IInv, CallOK, At, CleanAnswerReadsWrites
<1> QED BY <1>1, Invariance, PTL

-----------------------------------------------------------------------------
(* The load gate: who is admitted, who is parked *)

Slots == {c \in Callers : call[c].at \in Admitted}

\* The parked calls are the queue, each once.
Queue ==
    /\ waiting \in Seq(Callers)
    /\ \A i \in DOMAIN waiting : At(waiting[i], "parked")
    /\ \A i, j \in DOMAIN waiting : waiting[i] = waiting[j] => i = j
    /\ \A c \in Callers : At(c, "parked") => \E i \in DOMAIN waiting : waiting[i] = c
Counted == IsFiniteSet(Slots) /\ active = Cardinality(Slots)
\* While somebody is parked, somebody is going to give a slot back.
Attended == waiting # <<>> => \E c \in Callers : call[c].at \in Admitted \cup {"woken"}
Gate == Queue /\ Counted /\ Attended

\* Nobody passes the gate.
LEMMA GateAside ==
    ASSUME Gate, UNCHANGED <<active, waiting>>,
           \A c \in Callers : /\ call'[c].at \in Admitted <=> call[c].at \in Admitted
                              /\ call'[c].at = "parked" <=> call[c].at = "parked"
                              /\ call[c].at = "woken" => call'[c].at = "woken"
    PROVE  Gate'
<1>1. Slots' = Slots
  BY DEF Slots
<1>2. Queue'
  BY DEF Gate, Queue, At
<1>3. Attended'
  BY DEF Gate, Attended
<1> QED BY <1>1, <1>2, <1>3 DEF Gate, Counted

\* A free slot is taken, or a resumed call counts itself in.
LEMMA GateEnters ==
    ASSUME Gate, NEW c \in Callers, call[c].at \in {"idle", "woken"}, call'[c].at = "entered",
           \A d \in Callers \ {c} : call'[d] = call[d], active' = active + 1, waiting' = waiting
    PROVE  Gate'
<1>1. Slots' = Slots \cup {c} /\ c \notin Slots /\ c \in Slots'
  BY DEF Slots, Admitted
<1>2. Counted'
  BY <1>1, FS_AddElement DEF Gate, Counted
<1>3. Queue' /\ Attended'
  BY <1>1 DEF Gate, Queue, Attended, At, Slots
<1> QED BY <1>2, <1>3 DEF Gate

LEMMA GateParks ==
    ASSUME Gate, NEW c \in Callers, call[c].at = "idle", call'[c].at = "parked", active >= Limit,
           \A d \in Callers \ {c} : call'[d] = call[d], active' = active, waiting' = Append(waiting, c)
    PROVE  Gate'
<1>1. Slots' = Slots /\ Slots # {}
  <2>1. Slots' = Slots
    BY DEF Slots, Admitted
  <2> QED BY <2>1, FS_EmptySet, GateAssumption DEF Gate, Counted
<1>2. PICK w \in Seq(Callers) : w = waiting
  BY DEF Gate, Queue
<1>3. waiting' \in Seq(Callers) /\ DOMAIN waiting' = 1 .. Len(w) + 1 /\ DOMAIN waiting = 1 .. Len(w)
      /\ waiting'[Len(w) + 1] = c /\ \A i \in 1 .. Len(w) : waiting'[i] = waiting[i]
  BY <1>2
<1>4. \A i \in 1 .. Len(w) : waiting[i] # c /\ waiting[i] \in Callers
  BY <1>2, <1>3 DEF Gate, Queue, At
<1>5. Queue'
  <2>1. \A i \in 1 .. Len(w) + 1 : i \in 1 .. Len(w) \/ i = Len(w) + 1
    BY <1>2
  <2>2. Len(w) + 1 \in 1 .. Len(w) + 1 /\ 1 .. Len(w) \subseteq 1 .. Len(w) + 1
    BY <1>2
  <2> QED BY <1>3, <1>4, <2>1, <2>2 DEF Gate, Queue, At
<1> QED BY <1>1, <1>5 DEF Gate, Counted, Attended, Slots

\* A slot is given back and the oldest parked call is woken.
LEMMA GateGivesBack ==
    ASSUME Gate, NEW c \in Callers, NEW r, call \in [Callers -> Calls], call[c].at \in Admitted,
           r.at \notin Admitted \cup {"parked"}, GiveBack(c, r)
    PROVE  Gate'
<1>1. active' = active - 1
  BY DEF GiveBack
<1>2. CASE waiting = <<>>
  <2>1. waiting' = <<>> /\ call' = [call EXCEPT ![c] = r]
    BY <1>2 DEF GiveBack
  <2>2. Slots' = Slots \ {c} /\ c \in Slots
    BY <2>1 DEF Slots
  <2>3. Counted'
    BY <1>1, <2>2, FS_RemoveElement DEF Gate, Counted
  <2>4. Queue' /\ Attended'
    BY <1>2, <2>1 DEF Gate, Queue, Attended, At, Admitted
  <2> QED BY <2>3, <2>4 DEF Gate
<1>3. CASE waiting # <<>>
  <2>1. PICK w \in Seq(Callers) : w = waiting
    BY DEF Gate, Queue
  <2>2. PICK h \in Callers : h = Head(waiting)
    BY <1>3, <2>1
  <2>3. Len(w) >= 1 /\ waiting[1] = h /\ DOMAIN waiting = 1 .. Len(w)
    BY <1>3, <2>1, <2>2
  <2>4. call[h].at = "parked" /\ h # c
    BY <2>3 DEF Gate, Queue, At, Admitted
  <2>5. PICK k : k = [call[h] EXCEPT !.at = "woken"]
    OBVIOUS
  <2>6. k.at = "woken"
    BY <2>5 DEF Calls
  <2>7. call' = [call EXCEPT ![c] = r, ![h] = k] /\ waiting' = Tail(waiting)
    BY <1>3, <2>2, <2>4, <2>5 DEF GiveBack
  <2>8. /\ call'[c] = r /\ call'[h] = k /\ \A d \in Callers \ {c, h} : call'[d] = call[d]
    BY <2>4, <2>7
  <2>9. Slots' = Slots \ {c} /\ c \in Slots
    BY <2>4, <2>6, <2>8 DEF Slots, Admitted
  <2>10. Counted'
    BY <1>1, <2>9, FS_RemoveElement DEF Gate, Counted
  <2>11. waiting' \in Seq(Callers) /\ DOMAIN waiting' = 1 .. Len(w) - 1
         /\ \A i \in 1 .. Len(w) - 1 : waiting'[i] = waiting[i + 1]
    BY <1>3, <2>1, <2>7
  <2>12. \A i \in 1 .. Len(w) - 1 : i + 1 \in 1 .. Len(w) /\ i + 1 # 1
    BY <2>1
  <2>13. ASSUME NEW i \in 1 .. Len(w) - 1
         PROVE  waiting'[i] \in Callers \ {c, h} /\ call[waiting'[i]].at = "parked"
    <3>1. PICK j \in 1 .. Len(w) : j = i + 1 /\ j # 1 /\ waiting'[i] = waiting[j]
      BY <2>11, <2>12, <2>13
    <3>2. waiting[j] \in Callers /\ call[waiting[j]].at = "parked"
      BY <2>1, <2>3, <3>1 DEF Gate, Queue, At
    <3>3. waiting[j] # waiting[1]
      BY <2>3, <3>1 DEF Gate, Queue
    <3>4. "parked" \notin Admitted
      BY DEF Admitted
    <3> QED BY <2>3, <3>1, <3>2, <3>3, <3>4
  <2>14. \A i, j \in 1 .. Len(w) - 1 : waiting'[i] = waiting'[j] => i = j
    BY <2>1, <2>3, <2>11, <2>12, SMTT(60) DEF Gate, Queue
  <2>15. ASSUME NEW d \in Callers, call'[d].at = "parked" PROVE \E i \in DOMAIN waiting' : waiting'[i] = d
    <3>1. d \notin {c, h} /\ call[d].at = "parked"
      BY <2>6, <2>8, <2>15
    <3>2. PICK i \in 1 .. Len(w) : waiting[i] = d
      BY <2>3, <3>1 DEF Gate, Queue, At
    <3>3. i # 1
      BY <2>3, <3>1, <3>2
    <3>4. i - 1 \in 1 .. Len(w) - 1 /\ (i - 1) + 1 = i
      BY <2>1, <3>2, <3>3
    <3> QED BY <2>11, <3>2, <3>4
  <2>16. Queue'
    BY <2>8, <2>11, <2>13, <2>14, <2>15 DEF Queue, At
  <2>17. Attended'
    BY <2>6, <2>8 DEF Attended
  <2> QED BY <2>10, <2>16, <2>17 DEF Gate
<1> QED BY <1>2, <1>3

LEMMA CallsGate ==
    ASSUME IInv, Gate, NEW c \in Callers,
           AnswerResident(c) \/ TakeSlot(c) \/ Park(c) \/ Serve(c) \/ LoadFails(c) \/ Finish(c)
    PROVE  Gate'
<1>0. call \in [Callers -> Calls] /\ call[c] \in Calls
  BY DEF IInv, Types
<1>1. CASE \/ AnswerResident(c) \/ Recheck(c) \/ HitStored(c) \/ MissStored(c) \/ ReadSnapshot(c)
           \/ CacheStored(c) \/ Publish(c) \/ Finish(c)
  <2>1. UNCHANGED <<active, waiting>>
    BY <1>1 DEF AnswerResident, Recheck, HitStored, MissStored, ReadSnapshot, CacheStored, Publish, Finish
  <2>2. \A d \in Callers \ {c} : call'[d] = call[d]
    BY <1>0, <1>1 DEF AnswerResident, Recheck, HitStored, MissStored, ReadSnapshot, CacheStored, Publish, Finish,
                      Begin, GoWith, Go
  <2>3. \/ call[c].at = "idle" /\ call'[c].at = "answered"
        \/ call[c].at \in {"entered", "reading", "read"} /\ call'[c].at \in {"shared", "loaded", "reading", "read"}
        \/ call[c].at = "released" /\ call'[c].at = "answered"
        \/ call[c].at = "answered" /\ call'[c].at = "idle"
    BY <1>0, <1>1 DEF AnswerResident, Recheck, HitStored, MissStored, ReadSnapshot, CacheStored, Publish, Finish,
                      Begin, Begun, GoWith, Go, At, Idle, Calls
  <2> QED BY <2>1, <2>2, <2>3, GateAside DEF Admitted
<1>2. CASE TakeSlot(c) \/ Resume(c)
  <2>1. active' = active + 1 /\ waiting' = waiting /\ call[c].at \in {"idle", "woken"} /\ call'[c].at = "entered"
        /\ \A d \in Callers \ {c} : call'[d] = call[d]
    BY <1>0, <1>2 DEF TakeSlot, Resume, Begin, Begun, Go, At, Calls
  <2> QED BY <2>1, GateEnters
<1>3. CASE Park(c)
  BY <1>0, <1>3, GateParks DEF Park, Begin, Begun, At
<1>4. CASE LoadFails(c)
  <2>1. call[c].at \in Admitted /\ Idle.at \notin Admitted \cup {"parked"} /\ GiveBack(c, Idle)
    BY <1>4 DEF LoadFails, Admitted, Idle
  <2> QED BY <1>0, <2>1, GateGivesBack
<1>5. CASE Release(c)
  <2>1. PICK r : r = [call[c] EXCEPT !.at = IF At(c, "loaded") THEN "released" ELSE "answered"]
    OBVIOUS
  <2>2. r.at \in {"released", "answered"}
    BY <1>0, <2>1 DEF Calls
  <2>3. call[c].at \in Admitted /\ r.at \notin Admitted \cup {"parked"} /\ GiveBack(c, r)
    BY <1>5, <2>1, <2>2 DEF Release, Admitted
  <2> QED BY <1>0, <2>3, GateGivesBack
<1> QED BY <1>1, <1>2, <1>3, <1>4, <1>5 DEF Serve

\* A writer's step moves no call and touches no slot.
LEMMA WritersGate ==
    ASSUME IInv, Gate, UNCHANGED <<active, waiting>>, call' = call \/ RaceLoads
    PROVE  Gate'
<1>1. \A c \in Callers : call'[c].at = call[c].at
  <2> SUFFICES ASSUME NEW c \in Callers PROVE call'[c].at = call[c].at
    OBVIOUS
  <2>1. call[c] \in Calls
    BY DEF IInv, Types
  <2>2. PICK k : k = [call[c] EXCEPT !.copy.raced = TRUE]
    OBVIOUS
  <2>3. k.at = call[c].at
    BY <2>1, <2>2 DEF Calls
  <2> QED BY <2>2, <2>3 DEF RaceLoads
<1> QED BY <1>1, GateAside

LEMMA GateInvariance == Spec => [](IInv /\ Gate)
<1>1. Init => Gate
  <2> SUFFICES ASSUME Init PROVE Gate
    OBVIOUS
  <2>1. Slots = {} /\ waiting = <<>> /\ active = 0 /\ \A c \in Callers : call[c].at = "idle"
    BY DEF Init, Idle, Slots, Admitted
  <2> QED BY <2>1, FS_EmptySet DEF Gate, Queue, Counted, Attended, At
<1>2. IInv /\ Gate /\ [Next]_vars => Gate'
  <2> SUFFICES ASSUME IInv, Gate, [Next]_vars PROVE Gate'
    OBVIOUS
  <2>1. CASE UNCHANGED vars \/ EvictResident \/ EvictStored \/ OutsideCommit
    BY <2>1, WritersGate DEF vars, EvictResident, EvictStored, OutsideCommit
  <2>2. ASSUME NEW w \in Writers, \/ FileCommit(w) \/ FileForgetStored(w) \/ FileReturn(w)
                                  \/ FolderDrop(w) \/ FolderReject(w) \/ FolderCommit(w) \/ FolderReturn(w)
                                  \/ ChildCommit(w) \/ ChildAdopt(w)
        PROVE Gate'
    BY <2>2, WritersGate DEF FileCommit, FileForgetStored, FileReturn, FolderDrop, FolderReject, FolderCommit,
                             FolderReturn, ChildCommit, ChildAdopt, CommitBy
  <2> QED BY <2>1, <2>2, CallsGate DEF Next
<1> QED BY <1>1, <1>2, InitIInv, NextStep, PTL DEF Spec

\* The load gate leaks no slot and loses no wake-up, whatever throws and however the calls
\* interleave (load-gate.ts withIndexLoadSlot).
THEOREM GateCounts == Spec => []SlotsAccounted
<1>1. IInv /\ Gate => SlotsAccounted
  BY DEF Gate, Counted, Attended, Slots, SlotsAccounted
<1> QED BY <1>1, GateInvariance, PTL

-----------------------------------------------------------------------------
(* No copy is ahead of the rows, and no data_version of the commits *)

Copied(copy) == copy.ver <= rows
Bounded ==
    /\ rows \in 1 .. MaxVersion /\ 1 <= dataVersion /\ dataVersion <= rows /\ 1 <= done
    /\ Copied(stored) /\ Copied(resident) /\ \A c \in Callers : Copied(call[c].copy)

LEMMA CallsBounded ==
    ASSUME IInv, Bounded, NEW c \in Callers,
           AnswerResident(c) \/ TakeSlot(c) \/ Park(c) \/ Serve(c) \/ LoadFails(c) \/ Finish(c)
    PROVE  Bounded'
<1>0. call \in [Callers -> Calls] /\ call[c] \in Calls /\ rows \in Nat
  BY DEF IInv, Types
<1>1. UNCHANGED <<rows, dataVersion, done>>
  BY DEF AnswerResident, TakeSlot, Park, Serve, Resume, Recheck, HitStored, MissStored, ReadSnapshot,
         CacheStored, Release, Publish, LoadFails, Finish
<1>2. CASE LoadFails(c) \/ Release(c)
  <2>1. PICK r \in {Idle, [call[c] EXCEPT !.at = IF At(c, "loaded") THEN "released" ELSE "answered"]} :
          GiveBack(c, r)
    BY <1>2 DEF LoadFails, Release
  <2>2. r.copy \in {None, call[c].copy}
    BY <1>0, <2>1 DEF Idle, Calls
  <2>3. PICK h : h = Head(waiting)
    OBVIOUS
  <2>4. PICK d : d = [call EXCEPT ![c] = r]
    OBVIOUS
  <2>5. call' = d \/ call' = [d EXCEPT ![h].at = "woken"]
    BY <2>1, <2>3, <2>4 DEF GiveBack
  <2>6. \A e \in Callers : call'[e].copy = d[e].copy
    <3> SUFFICES ASSUME NEW e \in Callers, e = h, call' = [d EXCEPT ![h].at = "woken"] PROVE call'[e].copy = d[e].copy
      BY <1>0, <2>4, <2>5
    <3>1. PICK k : k = [d[e] EXCEPT !.at = "woken"]
      OBVIOUS
    <3>2. d[e] \in Calls \cup {Idle, r}
      BY <1>0, <2>4
    <3>3. DOMAIN d[e] = {"at", "copy", "floor"}
      BY <1>0, <2>1, <3>2 DEF Calls, Idle
    <3>4. k.copy = d[e].copy
      BY <3>1, <3>3
    <3> QED BY <1>0, <2>4, <3>1, <3>4
  <2>7. \A e \in Callers : d[e].copy \in {None, call[e].copy}
    BY <1>0, <2>2, <2>4
  <2>8. UNCHANGED <<stored, resident>>
    BY <1>2 DEF LoadFails, Release
  <2> QED BY <1>0, <1>1, <2>6, <2>7, <2>8 DEF Bounded, Copied, None
<1>3. CASE ~(LoadFails(c) \/ Release(c))
  <2>1. \A d \in Callers \ {c} : call'[d] = call[d]
    BY <1>0, <1>3 DEF AnswerResident, TakeSlot, Park, Serve, Resume, Recheck, HitStored, MissStored, ReadSnapshot,
                      CacheStored, Publish, Finish, Begin, Begun, GoWith, Go
  <2>2. call'[c].copy.ver \in {call[c].copy.ver, stored.ver, resident.ver, 0, rows}
    BY <1>0, <1>3, SMTT(60) DEF AnswerResident, TakeSlot, Park, Serve, Resume, Recheck, HitStored, MissStored, ReadSnapshot,
                      CacheStored, Publish, Finish, Begin, Begun, GoWith, Go, Idle, None, Copy, Plain,
                      Calls, Copies, IInv, Types
  <2>3. stored' \in {stored, call[c].copy} /\ resident' \in {resident, call[c].copy}
    BY <1>3 DEF AnswerResident, TakeSlot, Park, Serve, Resume, Recheck, HitStored, MissStored, ReadSnapshot,
                CacheStored, Publish, Finish
  <2> QED BY <1>0, <1>1, <2>1, <2>2, <2>3 DEF Bounded, Copied
<1> QED BY <1>2, <1>3

\* A writer's step moves the versions; a copy it marks or drops is no newer.
LEMMA WritersBounded ==
    ASSUME IInv, Bounded, [Next]_vars, call' = call \/ RaceLoads,
           stored' \in {stored, None}, resident' \in {resident, None, Raced(resident)},
           done' = done \/ \E w \in Writers, from \in WritePlaces : Return(w, from),
           UNCHANGED <<rows, dataVersion>> \/ (Commit /\ dataVersion' \in {dataVersion, dataVersion + 1})
    PROVE  Bounded'
<1>1. Types /\ Types' /\ done' <= rows'
  BY NextStep DEF IInv, Behind
<1>2. \A c \in Callers : call'[c].copy.ver = call[c].copy.ver
  <2> SUFFICES ASSUME NEW c \in Callers PROVE call'[c].copy.ver = call[c].copy.ver
    OBVIOUS
  <2>1. call[c] \in Calls /\ call[c].copy \in Copies
    BY <1>1 DEF Types, Calls
  <2> QED BY <2>1 DEF RaceLoads, Calls, Copies
<1>3. resident'.ver \in {resident.ver, 0} /\ stored'.ver \in {stored.ver, 0}
  BY <1>1 DEF Types, Copies, Raced, None
<1>4. rows \in Nat /\ MaxVersion \in Nat /\ rows <= rows' /\ rows' \in 1 .. MaxVersion
      /\ 1 <= dataVersion' /\ dataVersion' <= rows'
  BY <1>1, GateAssumption DEF Types, Bounded, Commit
<1>5. 1 <= done'
  <2>1. \A w \in Writers : write[w].ver \in Nat
    BY <1>1 DEF Types
  <2> QED BY <1>1, <2>1 DEF Bounded, Types, Return
<1>6. Copied(stored)' /\ Copied(resident)' /\ \A c \in Callers : Copied(call[c].copy)'
  BY <1>1, <1>2, <1>3, <1>4 DEF Types, Copies, Calls, Bounded, Copied
<1> QED BY <1>4, <1>5, <1>6 DEF Bounded

LEMMA BoundedInvariance == Spec => [](IInv /\ Gate /\ Bounded)
<1>1. Init => Bounded
  BY GateAssumption DEF Init, Bounded, Copied, None, Idle
<1>2. IInv /\ Gate /\ Bounded /\ [Next]_vars => Bounded'
  <2> SUFFICES ASSUME IInv, Bounded, [Next]_vars PROVE Bounded'
    OBVIOUS
  <2>1. CASE UNCHANGED vars \/ EvictResident \/ EvictStored \/ OutsideCommit
    BY <2>1, WritersBounded DEF vars, EvictResident, EvictStored, OutsideCommit, DropResident, ForgetStored
  <2>2. ASSUME NEW w \in Writers, FileCommit(w) \/ FileForgetStored(w) \/ FileReturn(w) PROVE Bounded'
    BY <2>2, WritersBounded DEF FileCommit, FileForgetStored, FileReturn, DropResident, ForgetStored, CommitBy, WritePlaces
  <2>3. ASSUME NEW w \in Writers, FolderDrop(w) \/ FolderReject(w) \/ FolderCommit(w) \/ FolderReturn(w) PROVE Bounded'
    BY <2>3, WritersBounded DEF FolderDrop, FolderReject, FolderCommit, FolderReturn, DropResident, ForgetStored,
                                CommitBy, WritePlaces
  <2>4. ASSUME NEW w \in Writers, ChildCommit(w) \/ ChildAdopt(w) PROVE Bounded'
    BY <2>4, WritersBounded DEF ChildCommit, ChildAdopt, DropResident, CommitBy, WritePlaces
  <2> QED BY <2>1, <2>2, <2>3, <2>4, CallsBounded DEF Next
<1> QED BY <1>1, <1>2, GateInvariance, InitIInv, NextStep, PTL DEF Spec

\* Every copy is of a version that was committed, the connection's data_version moves
\* only with a commit, and the gate's queue is of callers (registry.ts, state.ts,
\* load-gate.ts).
THEOREM CacheTyped == Spec => []TypeOK
<1>1. ASSUME IInv, Gate, Bounded PROVE TypeOK
  <2>1. active \in 0 .. Cardinality(Callers)
    <3>1. Slots \in SUBSET Callers
      BY DEF Slots
    <3>2. Cardinality(Slots) <= Cardinality(Callers) /\ Cardinality(Slots) \in Nat /\ Cardinality(Callers) \in Nat
      BY <3>1, FS_Subset, FS_CardinalityType, GateAssumption DEF Gate, Counted
    <3> QED BY <1>1, <3>2 DEF Gate, Counted
  <2>2. rows \in 1 .. MaxVersion /\ dataVersion \in 1 .. rows /\ done \in 1 .. rows
        /\ {stored.ver, resident.ver} \subseteq 0 .. rows
    BY <1>1, GateAssumption DEF IInv, Types, Behind, Bounded, Copied, Copies
  <2>3. waiting \in Seq(Callers) /\ \A c \in Callers : call[c].at \in CallPlaces
    BY <1>1 DEF IInv, Types, Calls, Gate, Queue
  <2> QED BY <2>1, <2>2, <2>3 DEF TypeOK, CallPlaces
<1> QED BY <1>1, BoundedInvariance, PTL

=============================================================================
