---------------------------- MODULE RegistryProof ----------------------------
(***************************************************************************)
(* The registry for any repositories, calls, processes, deaths and         *)
(* failures, in two parts: the lock is given back, whatever is admitted;   *)
(* and, without the admitted hazards, the registry implements SerialStore. *)
(***************************************************************************)
EXTENDS Registry, TLAPS

Ats == {"idle", "queued", "link", "look", "judge", "reap", "busy", "held", "loaded", "release", "unlink"}
HoldAts == {"held", "loaded", "release", "unlink"}
LockAts == {"look", "judge", "reap", "unlink"}
Files == [Names -> Nat \cup {None}]
Locks == {NoLock} \cup [pid : Procs \cup {Gone}, token : Nat]
OpSet == [kind : {"none", "register", "update", "remove", "prune"}, names : SUBSET Names, value : Nat]
CallSet == [at : Ats, op : OpSet, token : Nat, owner : Locks, seen : Files \cup {None}]

Types ==
    /\ file \in Files /\ dblock \in Tasks \cup {None} /\ lock \in Locks
    /\ portable \subseteq Procs /\ alive \subseteq Procs
    /\ call \in [Tasks -> CallSet] /\ calls \in Nat

Active(t) == call[t].at # "idle"
Holds(t) == call[t].at \in HoldAts

\* A call's number is its own, and the portable lock's is of no other kind of call.
Tokens ==
    /\ \A t \in Tasks : Active(t) => call[t].token \in 1 .. calls
    /\ \A t, u \in Tasks : Active(t) /\ Active(u) /\ call[t].token = call[u].token => t = u
    /\ lock # NoLock => lock.token \in 0 .. calls
    /\ \A t \in Tasks : Active(t) /\ ~Portable(t) => lock.token # call[t].token
Kinds == \A t \in Tasks : call[t].at \in LockAts => Portable(t)
Lives == \A t \in Tasks : Active(t) => Here(t) \in alive
DbOf == dblock = None \/ (Holds(dblock) /\ ~Portable(dblock))
LockOf == lock = NoLock \/ lock.token \in left \/ \E t \in Tasks : Holds(t) /\ call[t].token = lock.token
Loaded == \A t \in Tasks : call[t].at = "loaded" => call[t].seen \in Files
Asked == \A t \in Tasks : Active(t) => call[t].op # NoOp
Base == Types /\ Tokens /\ Kinds /\ Lives /\ DbOf /\ LockOf /\ Loaded /\ Asked

-----------------------------------------------------------------------------
(* Where a call goes *)

LEMMA Constants ==
    /\ ProcOf \in [Tasks -> Procs] /\ None \notin Nat /\ None \notin Tasks
    /\ Idle \in CallSet /\ Idle.at = "idle" /\ NoLock \in Locks /\ NoLock.token = None /\ NoOp \in OpSet
<1>1. ProcOf \in [Tasks -> Procs] /\ None \notin Nat /\ None \notin Tasks
  BY RegistryAssumption
<1>2. NoOp \in OpSet
  BY DEF NoOp, OpSet
<1>3. NoLock \in Locks /\ NoLock.token = None
  BY DEF Locks, NoLock
<1>4. Idle \in CallSet /\ Idle.at = "idle"
  BY <1>2, <1>3 DEF Idle, CallSet, Ats
<1> QED BY <1>1, <1>2, <1>3, <1>4

\* From one place to the next, or to its end.
Goes(t, a) ==
    /\ call' \in [Tasks -> CallSet] /\ \A u \in Tasks \ {t} : call'[u] = call[u]
    /\ call'[t].at = a /\ call'[t].token = call[t].token /\ call'[t].op = call[t].op
Ended(t) ==
    /\ call' \in [Tasks -> CallSet] /\ \A u \in Tasks \ {t} : call'[u] = call[u]
    /\ call'[t] = Idle /\ call'[t].at = "idle"

LEMMA GoGoes ==
    ASSUME call \in [Tasks -> CallSet], NEW t \in Tasks, NEW a \in Ats, Go(t, a)
    PROVE  Goes(t, a) /\ call'[t].seen = call[t].seen /\ call'[t].owner = call[t].owner
<1>1. PICK c : c = [call[t] EXCEPT !.at = a]
  OBVIOUS
<1>2. c \in CallSet /\ c.at = a /\ c.token = call[t].token /\ c.op = call[t].op
      /\ c.seen = call[t].seen /\ c.owner = call[t].owner
  BY <1>1 DEF CallSet
<1>3. call' = [call EXCEPT ![t] = c]
  BY <1>1 DEF Go
<1> QED BY <1>2, <1>3 DEF Goes

LEMMA LeaveEnds ==
    ASSUME call \in [Tasks -> CallSet], NEW t \in Tasks, Leave(t) PROVE Ended(t)
  BY Constants DEF Leave, Ended

\* What is the same of every step that is a call's own and no lock changes hands.
LEMMA BaseGoes ==
    ASSUME Base, NEW t \in Tasks, NEW a \in Ats \ {"idle"}, Goes(t, a), Active(t),
           UNCHANGED <<dblock, portable, alive, left, calls>>, lock' \in {lock, NoLock}, file' \in Files,
           a \in LockAts => Portable(t), Holds(t) => a \in HoldAts, a = "loaded" => call'[t].seen \in Files
    PROVE  Base'
<1>1. Types'
  BY Constants DEF Base, Types, Goes
<1>2. Active(t)' /\ (Holds(t) => Holds(t)')
  BY DEF Goes, Active, Holds
<1>3. Tokens'
  <2>1. \A u \in Tasks : Active(u) => call[u].token # NoLock.token
    BY Constants DEF Base, Tokens
  <2> QED BY <1>2, <2>1 DEF Base, Tokens, Active, Goes, Portable
<1>4. Kinds' /\ Lives'
  BY <1>2 DEF Base, Kinds, Lives, Active, Goes, Portable
<1>5. DbOf' /\ LockOf'
  BY <1>2 DEF Base, Types, DbOf, LockOf, Holds, Goes, Portable
<1>6. Loaded'
  BY DEF Base, Types, Loaded, Goes, Files
<1>7. Asked'
  BY DEF Base, Asked, Active, Goes
<1> QED BY <1>1, <1>3, <1>4, <1>5, <1>6, <1>7 DEF Base

LEMMA BaseEnded ==
    ASSUME Base, NEW t \in Tasks, Ended(t), UNCHANGED <<file, portable, alive, calls>>, left \subseteq left',
           dblock' \in {dblock, None} \ {t}, lock' \in {lock, NoLock},
           lock' = NoLock \/ lock.token \in left' \/ lock.token # call[t].token \/ ~Holds(t)
    PROVE  Base'
<1>1. Types'
  BY Constants DEF Base, Types, Ended
<1>2. ~Active(t)' /\ ~Holds(t)'
  BY DEF Ended, Active, Holds, HoldAts
<1>3. \A u \in Tasks \ {t} : call'[u] = call[u]
  BY DEF Ended
<1>4. Tokens'
  <2>1. \A u \in Tasks : Active(u) => call[u].token # NoLock.token
    BY Constants DEF Base, Tokens
  <2> QED BY <1>2, <1>3, <2>1 DEF Base, Tokens, Active, Portable
<1>5. Kinds' /\ Lives'
  BY <1>2, <1>3 DEF Base, Kinds, Lives, Active, Portable, Ended, LockAts
<1>6. DbOf' /\ LockOf'
  BY <1>2, <1>3 DEF Base, Types, DbOf, LockOf, Holds, Portable
<1>7. Loaded'
  BY <1>3 DEF Base, Loaded, Ended, Files
<1>8. Asked'
  BY <1>2, <1>3 DEF Base, Asked, Active
<1> QED BY <1>1, <1>4, <1>5, <1>6, <1>7, <1>8 DEF Base

-----------------------------------------------------------------------------
(* What each step does *)

LEMMA AskDoes ==
    ASSUME Types, NEW t \in Tasks, Ask(t)
    PROVE  /\ ~Active(t) /\ Here(t) \in alive /\ calls' = calls + 1
           /\ call' \in [Tasks -> CallSet] /\ \A u \in Tasks \ {t} : call'[u] = call[u]
           /\ call'[t].at = "queued" /\ call'[t].token = calls' /\ call'[t].op.kind # "none"
           /\ UNCHANGED <<file, dblock, lock, portable, alive, left>>
<1>1. PICK op \in Ops(t) : call' = [call EXCEPT ![t] = [Idle EXCEPT !.at = "queued", !.op = op, !.token = calls']]
  BY DEF Ask
<1>2. calls' \in Nat /\ calls + 1 \in Nat
  BY DEF Ask, Types
<1>3. op \in OpSet /\ op.kind # "none"
  BY <1>2 DEF Ops, OpSet
<1>4. PICK c : c = [Idle EXCEPT !.at = "queued", !.op = op, !.token = calls']
  OBVIOUS
<1>5. c \in CallSet /\ c.at = "queued" /\ c.op = op /\ c.token = calls'
  BY <1>2, <1>3, <1>4, Constants DEF CallSet, Ats, Idle
<1>6. call' = [call EXCEPT ![t] = c]
  BY <1>1, <1>4
<1> QED BY <1>3, <1>5, <1>6 DEF Ask, At, Active, Types

LEMMA TurnDoes ==
    ASSUME Types, NEW t \in Tasks, Turn(t)
    PROVE  Goes(t, "link") /\ call[t].at = "queued" /\ UNCHANGED <<file, dblock, lock, portable, alive, left, calls>>
<1>1. "link" \in Ats
  BY DEF Ats
<1> QED BY <1>1, GoGoes DEF Turn, At, Types

LEMMA LinkDoes ==
    ASSUME Types, NEW t \in Tasks, Link(t)
    PROVE  /\ call[t].at = "link" /\ UNCHANGED <<file, portable, alive, left, calls>>
           /\ \/ Portable(t) /\ Goes(t, "look") /\ UNCHANGED <<dblock, lock>>
              \/ ~Portable(t) /\ Goes(t, "busy") /\ UNCHANGED <<dblock, lock>>
              \/ /\ Portable(t) /\ Goes(t, "held") /\ lock = NoLock /\ UNCHANGED dblock
                 /\ lock' = [pid |-> Here(t), token |-> call[t].token]
                 /\ LateReap \in Admitted \/ Reaping = {}
              \/ ~Portable(t) /\ Goes(t, "held") /\ dblock = None /\ dblock' = t /\ UNCHANGED lock
<1>1. {"look", "busy", "held"} \subseteq Ats
  BY DEF Ats
<1> QED BY <1>1, GoGoes DEF Link, At, Types

LEMMA LookDoes ==
    ASSUME Types, NEW t \in Tasks, Look(t)
    PROVE  /\ call[t].at = "look" /\ UNCHANGED <<file, dblock, lock, portable, alive, left, calls>>
           /\ Goes(t, "busy") \/ (Goes(t, "judge") /\ lock # NoLock /\ call'[t].owner = lock)
<1>1. PICK a \in {"busy", "judge"} : a = (IF lock = NoLock THEN "busy" ELSE "judge")
  OBVIOUS
<1>2. PICK c : c = [call[t] EXCEPT !.at = a, !.owner = lock]
  OBVIOUS
<1>3. c \in CallSet /\ c.at = a /\ c.token = call[t].token /\ c.op = call[t].op /\ c.owner = lock
  BY <1>2 DEF CallSet, Types, Ats
<1>4. call' = [call EXCEPT ![t] = c]
  BY <1>1, <1>2 DEF Look
<1>5. Goes(t, a) /\ call'[t].owner = lock
  BY <1>3, <1>4 DEF Goes, Types
<1> QED BY <1>1, <1>5 DEF Look, At

LEMMA JudgeDoes ==
    ASSUME Types, NEW t \in Tasks, Judge(t)
    PROVE  /\ call[t].at = "judge" /\ UNCHANGED <<file, dblock, lock, portable, alive, left, calls>>
           /\ Goes(t, "busy") \/ (Goes(t, "reap") /\ call[t].owner.pid \notin alive)
<1>1. {"busy", "reap"} \subseteq Ats
  BY DEF Ats
<1> QED BY <1>1, GoGoes DEF Judge, At, Types

LEMMA ReapDoes ==
    ASSUME Types, NEW t \in Tasks, Reap(t)
    PROVE  /\ call[t].at = "reap" /\ UNCHANGED <<file, dblock, portable, alive, left, calls>>
           /\ lock' = NoLock /\ (Goes(t, "busy") \/ Goes(t, "link"))
<1>1. PICK a \in {"busy", "link"} : a = (IF lock = NoLock THEN "busy" ELSE "link")
  OBVIOUS
<1>2. PICK c : c = [call[t] EXCEPT !.at = a, !.owner = NoLock]
  OBVIOUS
<1>3. c \in CallSet /\ c.at = a /\ c.token = call[t].token /\ c.op = call[t].op
  BY <1>2, Constants DEF CallSet, Types, Ats
<1>4. call' = [call EXCEPT ![t] = c]
  BY <1>1, <1>2 DEF Reap
<1> QED BY <1>1, <1>3, <1>4 DEF Reap, At, Goes, Types

LEMMA SleepsDoes ==
    ASSUME Types, NEW t \in Tasks, Sleeps(t)
    PROVE  Goes(t, "link") /\ call[t].at = "busy" /\ UNCHANGED <<file, dblock, lock, portable, alive, left, calls>>
<1>1. "link" \in Ats
  BY DEF Ats
<1> QED BY <1>1, GoGoes DEF Sleeps, At, Types

LEMMA LoadDoes ==
    ASSUME Types, NEW t \in Tasks, Load(t)
    PROVE  /\ Goes(t, "loaded") /\ call[t].at = "held" /\ call'[t].seen = file
           /\ UNCHANGED <<file, dblock, lock, portable, alive, left, calls>>
<1>1. PICK c : c = [call[t] EXCEPT !.at = "loaded", !.seen = file]
  OBVIOUS
<1>2. c \in CallSet /\ c.at = "loaded" /\ c.token = call[t].token /\ c.op = call[t].op /\ c.seen = file
  BY <1>1 DEF CallSet, Types, Ats
<1>3. call' = [call EXCEPT ![t] = c]
  BY <1>1 DEF Load
<1> QED BY <1>2, <1>3 DEF Load, At, Goes, Types

LEMMA SaveDoes ==
    ASSUME Types, NEW t \in Tasks, Save(t)
    PROVE  /\ Goes(t, "release") /\ call[t].at = "loaded" /\ file' = Effect(call[t].op, call[t].seen)
           /\ UNCHANGED <<dblock, lock, portable, alive, left, calls>>
<1>1. "release" \in Ats
  BY DEF Ats
<1> QED BY <1>1, GoGoes DEF Save, At, Types

LEMMA WorkFailsDoes ==
    ASSUME Types, NEW t \in Tasks, WorkFails(t)
    PROVE  /\ Goes(t, "release") /\ call[t].at \in {"held", "loaded"}
           /\ UNCHANGED <<file, dblock, lock, portable, alive, left, calls>>
<1>1. "release" \in Ats
  BY DEF Ats
<1> QED BY <1>1, GoGoes DEF WorkFails, Types

LEMMA GivesUpDoes ==
    ASSUME Types, NEW t \in Tasks, TimesOut(t) \/ LinkFails(t)
    PROVE  /\ Ended(t) /\ call[t].at \in {"busy", "link"}
           /\ UNCHANGED <<file, dblock, lock, portable, alive, left, calls>>
  BY LeaveEnds DEF TimesOut, LinkFails, At, Types

LEMMA ReleaseDoes ==
    ASSUME Types, NEW t \in Tasks, Release(t)
    PROVE  /\ call[t].at = "release" /\ UNCHANGED <<file, lock, portable, alive, left, calls>>
           /\ dblock' = IF dblock = t THEN None ELSE dblock
           /\ \/ Goes(t, "unlink") /\ Portable(t)
              \/ Ended(t) /\ (~Portable(t) \/ lock.token # call[t].token)
<1>1. "unlink" \in Ats
  BY DEF Ats
<1> QED BY <1>1, GoGoes, LeaveEnds DEF Release, At, Types

LEMMA UnlinkDoes ==
    ASSUME Types, NEW t \in Tasks, Unlink(t)
    PROVE  /\ call[t].at = "unlink" /\ Ended(t) /\ lock' = NoLock
           /\ UNCHANGED <<file, dblock, portable, alive, left, calls>>
  BY LeaveEnds DEF Unlink, At, Types

LEMMA ReleaseFailsDoes ==
    ASSUME Types, NEW t \in Tasks, ReleaseFails(t)
    PROVE  /\ call[t].at \in {"release", "unlink"} /\ Portable(t) /\ Ended(t)
           /\ left' = left \cup {call[t].token} /\ UNCHANGED <<file, dblock, lock, portable, alive, calls>>
  BY LeaveEnds DEF ReleaseFails, Types

LEMMA EndsDoes ==
    ASSUME Types, NEW p \in Procs, Ends(p)
    PROVE  /\ call' \in [Tasks -> CallSet]
           /\ \A t \in Tasks : IF Here(t) = p THEN call'[t] = Idle ELSE call'[t] = call[t]
           /\ dblock' = (IF dblock \in Of(p) THEN None ELSE dblock) /\ alive' = alive \ {p}
           /\ left' = left \cup {call[t].token : t \in Of(p)}
           /\ UNCHANGED <<file, lock, portable, calls>>
<1>1. call' = [t \in Tasks |-> IF t \in Of(p) THEN Idle ELSE call[t]]
  BY DEF Ends
<1>2. \A t \in Tasks : t \in Of(p) <=> Here(t) = p
  BY DEF Of, Here
<1> QED BY <1>1, <1>2, Constants DEF Ends, Types

-----------------------------------------------------------------------------
(* The lock is given back, whatever is admitted *)

LEMMA AskBase == ASSUME Base, NEW t \in Tasks, Ask(t) PROVE Base'
<1>1. /\ ~Active(t) /\ Here(t) \in alive /\ calls' = calls + 1
      /\ call' \in [Tasks -> CallSet] /\ \A u \in Tasks \ {t} : call'[u] = call[u]
      /\ call'[t].at = "queued" /\ call'[t].token = calls' /\ call'[t].op.kind # "none"
      /\ UNCHANGED <<file, dblock, lock, portable, alive, left>>
  BY AskDoes DEF Base
<1>2. calls \in Nat /\ Types'
  BY <1>1 DEF Base, Types
<1>3. \A n \in Nat : (n \in 0 .. calls => n \in 0 .. calls' /\ n # calls') /\ (n \in 1 .. calls => n \in 1 .. calls' /\ n # calls')
  BY <1>1, <1>2
<1>4. /\ \A u \in Tasks : call[u].token \in Nat /\ (Active(u) => call[u].token \in 1 .. calls)
      /\ lock # NoLock => lock.token \in Nat /\ lock.token \in 0 .. calls
  BY DEF Base, Types, CallSet, Tokens
<1>5. calls' \in 1 .. calls' /\ calls' # NoLock.token
  BY <1>1, <1>2, Constants
<1>6. Tokens'
  BY <1>1, <1>3, <1>4, <1>5 DEF Base, Tokens, Active, Portable
<1>7. Kinds' /\ Lives' /\ DbOf' /\ LockOf'
  BY <1>1 DEF Base, Types, Kinds, Lives, DbOf, LockOf, Active, Holds, HoldAts, LockAts, Portable
<1>8. Loaded'
  BY <1>1 DEF Base, Loaded, Files
<1>9. Asked'
  BY <1>1 DEF Base, Asked, Active, NoOp
<1> QED BY <1>2, <1>6, <1>7, <1>8, <1>9 DEF Base

LEMMA LinkBase == ASSUME Base, NEW t \in Tasks, Link(t) PROVE Base'
<1>0. Types /\ file \in Files /\ Active(t) /\ ~Holds(t)
  BY LinkDoes DEF Base, Types, Active, Holds, HoldAts
<1>1. CASE UNCHANGED <<dblock, lock>> /\ ((Portable(t) /\ Goes(t, "look")) \/ (~Portable(t) /\ Goes(t, "busy")))
  BY <1>0, <1>1, LinkDoes, BaseGoes DEF Ats, LockAts
<1>2. CASE /\ Portable(t) /\ Goes(t, "held") /\ lock = NoLock /\ UNCHANGED dblock
           /\ lock' = [pid |-> Here(t), token |-> call[t].token]
  <2>1. UNCHANGED <<file, portable, alive, left, calls>>
    BY <1>0, LinkDoes
  <2>2. lock' \in Locks /\ lock'.token = call[t].token /\ call[t].token \in 1 .. calls
    BY <1>0, <1>2, Constants DEF Base, Types, Tokens, Locks, CallSet, Here
  <2>3. Types' /\ Kinds' /\ Lives' /\ DbOf'
    BY <1>0, <1>2, <2>1, <2>2 DEF Base, Types, Kinds, Lives, DbOf, Active, Holds, HoldAts, LockAts, Portable, Goes
  <2>4. calls \in Nat
    BY DEF Base, Types
  <2>5. Tokens'
    BY <1>0, <1>2, <2>1, <2>2, <2>4 DEF Base, Tokens, Active, Portable, Goes
  <2>6. LockOf' /\ Loaded'
    BY <1>2, <2>2 DEF Base, LockOf, Loaded, Holds, HoldAts, Goes, Files
  <2>7. Asked'
    BY <1>0, <1>2 DEF Base, Asked, Active, Goes
  <2> QED BY <2>3, <2>5, <2>6, <2>7 DEF Base
<1>3. CASE ~Portable(t) /\ Goes(t, "held") /\ dblock = None /\ dblock' = t /\ UNCHANGED lock
  <2>1. UNCHANGED <<file, portable, alive, left, calls>>
    BY <1>0, LinkDoes
  <2>2. Types' /\ Kinds' /\ Lives' /\ DbOf' /\ Tokens'
    BY <1>0, <1>3, <2>1 DEF Base, Types, Tokens, Kinds, Lives, DbOf, Active, Holds, HoldAts, LockAts, Portable, Goes
  <2>3. LockOf' /\ Loaded'
    BY <1>0, <1>3, <2>1 DEF Base, LockOf, Loaded, Holds, Goes, Files
  <2>4. Asked'
    BY <1>0, <1>3 DEF Base, Asked, Active, Goes
  <2> QED BY <2>2, <2>3, <2>4 DEF Base
<1> QED BY <1>0, <1>1, <1>2, <1>3, LinkDoes

LEMMA ReapBase == ASSUME Base, NEW t \in Tasks, Reap(t) PROVE Base'
<1>1. /\ call[t].at = "reap" /\ UNCHANGED <<file, dblock, portable, alive, left, calls>>
      /\ lock' = NoLock /\ (Goes(t, "busy") \/ Goes(t, "link"))
  BY ReapDoes DEF Base
<1>2. file' \in Files /\ Active(t) /\ ~Holds(t)
  BY <1>1 DEF Base, Types, Active, Holds, HoldAts
<1> QED BY <1>1, <1>2, BaseGoes DEF Ats, LockAts

LEMMA ReleaseBase ==
    ASSUME Base, NEW t \in Tasks, Release(t) \/ Unlink(t) \/ ReleaseFails(t) PROVE Base'
<1>0. Types /\ file \in Files
  BY DEF Base, Types
<1>1. CASE Release(t)
  <2>1. /\ call[t].at = "release" /\ UNCHANGED <<file, lock, portable, alive, left, calls>>
        /\ dblock' = IF dblock = t THEN None ELSE dblock
        /\ \/ Goes(t, "unlink") /\ Portable(t)
           \/ Ended(t) /\ (~Portable(t) \/ lock.token # call[t].token)
    BY <1>0, <1>1, ReleaseDoes
  <2>2. Active(t) /\ (~Portable(t) => lock.token # call[t].token) /\ None # t
    BY <2>1, Constants DEF Base, Tokens, Active
  <2>3. CASE Goes(t, "unlink") /\ Portable(t)
    <3>1. dblock # t
      BY <2>2, <2>3 DEF Base, DbOf
    <3> QED BY <1>0, <2>1, <2>2, <2>3, <3>1, BaseGoes DEF Ats, HoldAts
  <2>4. CASE Ended(t) /\ (~Portable(t) \/ lock.token # call[t].token)
    BY <2>1, <2>2, <2>4, BaseEnded
  <2> QED BY <2>1, <2>3, <2>4
<1>2. CASE Unlink(t)
  <2>1. /\ call[t].at = "unlink" /\ Ended(t) /\ lock' = NoLock
        /\ UNCHANGED <<file, dblock, portable, alive, left, calls>>
    BY <1>0, <1>2, UnlinkDoes
  <2>2. dblock # t
    BY <2>1, Constants DEF Base, DbOf, Kinds, LockAts
  <2> QED BY <2>1, <2>2, BaseEnded
<1>3. CASE ReleaseFails(t)
  <2>1. /\ call[t].at \in {"release", "unlink"} /\ Portable(t) /\ Ended(t)
        /\ left' = left \cup {call[t].token} /\ UNCHANGED <<file, dblock, lock, portable, alive, calls>>
    BY <1>0, <1>3, ReleaseFailsDoes
  <2>2. dblock # t
    BY <2>1, Constants DEF Base, DbOf
  <2> QED BY <2>1, <2>2, BaseEnded
<1> QED BY <1>1, <1>2, <1>3

LEMMA OnItsWayBase ==
    ASSUME Base, NEW t \in Tasks,
           \/ Turn(t) \/ Look(t) \/ Judge(t) \/ Sleeps(t) \/ Load(t) \/ Save(t)
           \/ WorkFails(t) \/ TimesOut(t) \/ LinkFails(t)
    PROVE  Base'
<1>0. Types /\ file \in Files
  BY DEF Base, Types
<1>1. CASE Turn(t) \/ Sleeps(t)
  <2>1. Goes(t, "link") /\ call[t].at \in {"queued", "busy"} /\ UNCHANGED <<file, dblock, lock, portable, alive, left, calls>>
    BY <1>0, <1>1, TurnDoes, SleepsDoes
  <2> QED BY <1>0, <2>1, BaseGoes DEF Ats, LockAts, Active, Holds, HoldAts
<1>2. CASE Look(t) \/ Judge(t)
  <2>1. /\ Goes(t, "busy") \/ Goes(t, "judge") \/ Goes(t, "reap")
        /\ call[t].at \in {"look", "judge"} /\ UNCHANGED <<file, dblock, lock, portable, alive, left, calls>>
    BY <1>0, <1>2, LookDoes, JudgeDoes
  <2>2. Portable(t) /\ Active(t) /\ ~Holds(t)
    BY <2>1 DEF Base, Kinds, LockAts, Active, Holds, HoldAts
  <2> QED BY <1>0, <2>1, <2>2, BaseGoes DEF Ats
<1>3. CASE Load(t) \/ WorkFails(t)
  <2>1. /\ (Goes(t, "loaded") /\ call'[t].seen \in Files) \/ Goes(t, "release")
        /\ call[t].at \in {"held", "loaded"} /\ UNCHANGED <<file, dblock, lock, portable, alive, left, calls>>
    BY <1>0, <1>3, LoadDoes, WorkFailsDoes
  <2> QED BY <1>0, <2>1, BaseGoes DEF Ats, LockAts, Active, HoldAts
<1>4. CASE Save(t)
  <2>1. Goes(t, "release") /\ call[t].at = "loaded" /\ UNCHANGED <<dblock, lock, portable, alive, left, calls>>
        /\ file' = Effect(call[t].op, call[t].seen)
    BY <1>0, <1>4, SaveDoes
  <2>2. PICK op \in OpSet, v \in Files : op = call[t].op /\ v = call[t].seen
    BY <2>1 DEF Base, Types, Loaded, CallSet
  <2>3. Effect(op, v) \in Files
    BY DEF Effect, OpSet, Files
  <2> QED BY <1>0, <2>1, <2>2, <2>3, BaseGoes DEF Ats, LockAts, Active, HoldAts
<1>5. CASE TimesOut(t) \/ LinkFails(t)
  <2>1. /\ Ended(t) /\ call[t].at \in {"busy", "link"}
        /\ UNCHANGED <<file, dblock, lock, portable, alive, left, calls>>
    BY <1>0, <1>5, GivesUpDoes
  <2>2. ~Holds(t)
    BY <2>1 DEF Holds, HoldAts
  <2>3. dblock # t
    BY <2>2, Constants DEF Base, DbOf
  <2> QED BY <2>1, <2>2, <2>3, BaseEnded
<1> QED BY <1>1, <1>2, <1>3, <1>4, <1>5

LEMMA EndsBase == ASSUME Base, NEW p \in Procs, Ends(p) PROVE Base'
<1>1. /\ call' \in [Tasks -> CallSet]
      /\ \A t \in Tasks : IF Here(t) = p THEN call'[t] = Idle ELSE call'[t] = call[t]
      /\ dblock' = (IF dblock \in Of(p) THEN None ELSE dblock) /\ alive' = alive \ {p}
      /\ left' = left \cup {call[t].token : t \in Of(p)}
      /\ UNCHANGED <<file, lock, portable, calls>>
  BY EndsDoes DEF Base
<1>2. Types'
  BY <1>1 DEF Base, Types
<1>3. \A t \in Tasks : Here(t) = p => ~Active(t)' /\ ~Holds(t)' /\ call'[t].at \notin LockAts
  BY <1>1, Constants DEF Active, Holds, HoldAts, LockAts
<1>4. \A t \in Tasks : Here(t) # p => call'[t] = call[t]
  BY <1>1
<1>5. Tokens' /\ Kinds' /\ Lives'
  BY <1>1, <1>3, <1>4 DEF Base, Tokens, Kinds, Lives, Active, Portable
<1>6. DbOf'
  BY <1>1, <1>4 DEF Base, Types, DbOf, Holds, Portable, Of, Here
<1>7. LockOf'
  <2>1. CASE lock = NoLock \/ lock.token \in left
    BY <1>1, <2>1 DEF LockOf
  <2>2. ASSUME NEW t \in Tasks, Holds(t), call[t].token = lock.token PROVE LockOf'
    <3>1. CASE Here(t) = p
      BY <1>1, <2>2, <3>1 DEF LockOf, Of, Here
    <3>2. CASE Here(t) # p
      BY <1>1, <1>4, <2>2, <3>2 DEF LockOf, Holds
    <3> QED BY <3>1, <3>2
  <2> QED BY <2>1, <2>2 DEF Base, LockOf
<1>8. Loaded'
  BY <1>1, <1>4, Constants DEF Base, Loaded, Files
<1>9. Asked'
  BY <1>3, <1>4 DEF Base, Asked, Active
<1> QED BY <1>2, <1>5, <1>6, <1>7, <1>8, <1>9 DEF Base

LEMMA RestartBase == ASSUME Base, NEW p \in Procs, Restart(p) PROVE Base'
<1>1. alive' = alive \cup {p} /\ UNCHANGED <<file, dblock, lock, portable, call, left, calls>>
  BY DEF Restart
<1> QED BY <1>1 DEF Base, Types, Tokens, Kinds, Lives, DbOf, LockOf, Loaded, Asked, Active, Holds, Portable

LEMMA BaseInit == Init => Base
<1> SUFFICES ASSUME Init PROVE Base
  OBVIOUS
<1>1. \A t \in Tasks : call[t] = Idle /\ call[t].at = "idle"
  BY Constants DEF Init
<1>2. file \in Files /\ lock \in Locks /\ call \in [Tasks -> CallSet] /\ calls = 0
      /\ (lock = NoLock \/ lock.token = 0)
  BY Constants DEF Init, Files, Locks
<1>3. Types
  BY <1>2 DEF Init, Types
<1>4. Tokens /\ Kinds /\ Lives /\ Loaded /\ Asked
  BY <1>1, <1>2 DEF Tokens, Kinds, Lives, Loaded, Asked, Active, LockAts
<1>5. DbOf /\ LockOf
  BY <1>2 DEF Init, DbOf, LockOf
<1> QED BY <1>3, <1>4, <1>5 DEF Base

LEMMA BaseNext == Base /\ [Next]_vars => Base'
<1> SUFFICES ASSUME Base, [Next]_vars PROVE Base'
  OBVIOUS
<1>1. CASE UNCHANGED vars
  BY <1>1 DEF vars, Base, Types, Tokens, Kinds, Lives, DbOf, LockOf, Loaded, Asked, Active, Holds, Portable
<1>2. ASSUME NEW t \in Tasks, Dies(t) PROVE Base'
  BY <1>2, EndsBase, Constants DEF Dies, Here
<1>3. ASSUME NEW t \in Tasks, TaskStep(t) \/ Ask(t) \/ TimesOut(t) \/ LinkFails(t) \/ WorkFails(t) \/ ReleaseFails(t)
      PROVE  Base'
  BY <1>2, <1>3, OnItsWayBase, AskBase, LinkBase, ReapBase, ReleaseBase DEF TaskStep
<1>4. ASSUME NEW p \in Procs, Crash(p) \/ Restart(p) PROVE Base'
  BY <1>4, EndsBase, RestartBase DEF Crash
<1> QED BY <1>1, <1>3, <1>4 DEF Next

\* Whatever fails under the lock, and whatever is admitted, the lock is given back: it is
\* a call's at work, or of a process that ended or could not remove it (registry.ts
\* withRegistryLock, acquireRegistryPortableLock).
THEOREM RegistryLockReturned == Spec => []LockIsReturned
<1>1. Base => LockIsReturned
  BY DEF Base, Types, DbOf, LockOf, Holds, HoldAts, Holding, LockIsReturned
<1> QED BY <1>1, BaseInit, BaseNext, PTL DEF Spec

-----------------------------------------------------------------------------
(* Every change takes effect as a whole, without the admitted hazards *)

OneKind == portable = {} \/ portable = Procs
\* The lock of a call at work is its own.
Exclusive == \A t \in Tasks : Holds(t) =>
    IF Portable(t) THEN lock = [pid |-> Here(t), token |-> call[t].token] ELSE dblock = t
Reaps(t) == call[t].at = "reap" \/ (call[t].at = "judge" /\ call[t].owner.pid \notin alive)
\* Nobody is at work under a lock that somebody is about to rename away.
ReapedIsIdle == \A t, u \in Tasks : Reaps(t) /\ Holds(u) => ~Portable(u)
SeenCurrent == \A t \in Tasks : call[t].at = "loaded" => call[t].seen = file
Strict == OneKind /\ Exclusive /\ ReapedIsIdle /\ SeenCurrent

SStep == Serial!Next \/ UNCHANGED <<file, [t \in Tasks |-> Pending(t)]>>

LEMMA SerialFail ==
    ASSUME file' = file, \A t \in Tasks : Pending(t)' \in {Pending(t), NoOp}
    PROVE SStep
  BY DEF SStep, Serial!Next, Serial!Fail

LEMMA SerialAsk ==
    ASSUME file' = file, NEW t \in Tasks, Pending(t) = NoOp,
           \A u \in Tasks \ {t} : Pending(u)' = Pending(u)
    PROVE SStep
<1>1. [u \in Tasks |-> Pending(u)]' = [[u \in Tasks |-> Pending(u)] EXCEPT ![t] = [u \in Tasks |-> Pending(u)]'[t]]
  OBVIOUS
<1>2. Serial!Ask(t)
  BY <1>1 DEF Serial!Ask
<1> QED BY <1>2 DEF SStep, Serial!Next

LEMMA SerialSucceed ==
    ASSUME NEW t \in Tasks, Pending(t) # NoOp, file' = Effect(Pending(t), file), Pending(t)' = NoOp,
           \A u \in Tasks \ {t} : Pending(u)' = Pending(u)
    PROVE SStep
<1>1. [u \in Tasks |-> Pending(u)]' = [[u \in Tasks |-> Pending(u)] EXCEPT ![t] = NoOp]
  <2>1. \A u \in Tasks : Pending(u)' = IF u = t THEN NoOp ELSE Pending(u)
    OBVIOUS
  <2> HIDE DEF Pending
  <2> QED BY <2>1
<1>2. Serial!Succeed(t)
  BY <1>1 DEF Serial!Succeed
<1> QED BY <1>2 DEF SStep, Serial!Next

\* A lock names one call: two are not at work at once.
LEMMA Alone ==
    ASSUME Base, Strict, NEW t \in Tasks, NEW u \in Tasks, Holds(t), Holds(u) PROVE t = u
<1>1. Portable(t) <=> Portable(u)
  BY Constants DEF Strict, OneKind, Portable, Here
<1>2. CASE Portable(t)
  <2>1. call[t].token = call[u].token
    BY <1>1, <1>2 DEF Strict, Exclusive
  <2>2. Active(t) /\ Active(u)
    BY DEF Holds, HoldAts, Active
  <2> QED BY <2>1, <2>2 DEF Base, Tokens
<1>3. CASE ~Portable(t)
  BY <1>1, <1>3 DEF Strict, Exclusive
<1> QED BY <1>2, <1>3

\* A step of one call on its way, under the lock or not.
LEMMA StrictGoes ==
    ASSUME Strict, NEW t \in Tasks, NEW a \in Ats, Goes(t, a),
           UNCHANGED <<file, dblock, lock, portable, alive>>,
           a \in HoldAts => Holds(t), a = "loaded" => call'[t].seen = file,
           a = "reap" \/ (a = "judge" /\ call'[t].owner.pid \notin alive)
             => Reaps(t) \/ \A u \in Tasks : Holds(u) => ~Portable(u),
           call[t].at = "idle" \/ call[t].at \in {"release", "unlink"} => a \in {"idle", "release", "unlink"}
    PROVE  Strict' /\ SStep
<1>1. Exclusive'
  BY DEF Strict, Exclusive, Goes, Holds, Portable
<1>2. ReapedIsIdle'
  BY DEF Strict, ReapedIsIdle, Reaps, Goes, Holds, Portable
<1>3. SeenCurrent' /\ OneKind'
  BY DEF Strict, SeenCurrent, OneKind, Goes
<1>4. \A u \in Tasks : Pending(u)' \in {Pending(u), NoOp}
  BY DEF Pending, Goes
<1> QED BY <1>1, <1>2, <1>3, <1>4, SerialFail DEF Strict

LEMMA StrictEnded ==
    ASSUME Base, Strict, NEW t \in Tasks, Ended(t), UNCHANGED <<file, portable, alive>>,
           dblock' = dblock \/ Holds(t), lock' = lock \/ Holds(t)
    PROVE  Strict' /\ SStep
<1>0. ~Holds(t)' /\ ~Reaps(t)' /\ call'[t].at # "loaded" /\ Pending(t)' = NoOp
  BY DEF Ended, Holds, HoldAts, Reaps, Pending
<1>1. Exclusive'
  <2>1. CASE Holds(t)
    BY <1>0, <2>1, Alone DEF Exclusive, Holds, Ended
  <2>2. CASE ~Holds(t)
    BY <1>0, <2>2 DEF Strict, Exclusive, Holds, Ended, Portable
  <2> QED BY <2>1, <2>2
<1>2. ReapedIsIdle' /\ SeenCurrent' /\ OneKind'
  BY <1>0 DEF Strict, ReapedIsIdle, SeenCurrent, OneKind, Reaps, Holds, Ended, Portable
<1>3. \A u \in Tasks : Pending(u)' \in {Pending(u), NoOp}
  BY <1>0 DEF Pending, Ended
<1> QED BY <1>1, <1>2, <1>3, SerialFail DEF Strict

LEMMA OnItsWayStrict ==
    ASSUME Base, Strict, NEW t \in Tasks,
           \/ Turn(t) \/ Look(t) \/ Judge(t) \/ Sleeps(t) \/ Load(t)
           \/ WorkFails(t) \/ TimesOut(t) \/ LinkFails(t)
    PROVE  Strict' /\ SStep
<1>0. Types
  BY DEF Base
<1>1. CASE Turn(t) \/ Sleeps(t)
  <2>1. Goes(t, "link") /\ call[t].at \in {"queued", "busy"} /\ UNCHANGED <<file, dblock, lock, portable, alive>>
    BY <1>0, <1>1, TurnDoes, SleepsDoes
  <2> QED BY <2>1, StrictGoes DEF Ats, HoldAts
<1>2. CASE Look(t)
  <2>1. /\ call[t].at = "look" /\ UNCHANGED <<file, dblock, lock, portable, alive>>
        /\ Goes(t, "busy") \/ (Goes(t, "judge") /\ lock # NoLock /\ call'[t].owner = lock)
    BY <1>0, <1>2, LookDoes
  <2>2. ASSUME lock.pid \notin alive, NEW u \in Tasks, Holds(u), Portable(u) PROVE FALSE
    <3>1. lock.pid = Here(u)
      BY <2>2 DEF Strict, Exclusive
    <3>2. Here(u) \in alive
      BY <2>2 DEF Base, Lives, Active, Holds, HoldAts
    <3> QED BY <2>2, <3>1, <3>2
  <2>3. CASE Goes(t, "busy")
    BY <2>1, <2>3, StrictGoes DEF Ats, HoldAts
  <2>4. CASE Goes(t, "judge") /\ call'[t].owner = lock
    BY <2>1, <2>2, <2>4, StrictGoes DEF Ats, HoldAts
  <2> QED BY <2>1, <2>3, <2>4
<1>3. CASE Judge(t)
  <2>1. /\ call[t].at = "judge" /\ UNCHANGED <<file, dblock, lock, portable, alive>>
        /\ Goes(t, "busy") \/ (Goes(t, "reap") /\ Reaps(t))
    BY <1>0, <1>3, JudgeDoes DEF Reaps
  <2> QED BY <2>1, StrictGoes DEF Ats, HoldAts
<1>4. CASE Load(t)
  <2>1. /\ Goes(t, "loaded") /\ call[t].at = "held" /\ call'[t].seen = file
        /\ UNCHANGED <<file, dblock, lock, portable, alive>>
    BY <1>0, <1>4, LoadDoes
  <2> QED BY <2>1, StrictGoes DEF Ats, HoldAts, Holds
<1>5. CASE WorkFails(t)
  <2>1. Goes(t, "release") /\ call[t].at \in {"held", "loaded"} /\ UNCHANGED <<file, dblock, lock, portable, alive>>
    BY <1>0, <1>5, WorkFailsDoes
  <2> QED BY <2>1, StrictGoes DEF Ats, HoldAts, Holds
<1>6. CASE TimesOut(t) \/ LinkFails(t)
  BY <1>0, <1>6, GivesUpDoes, StrictEnded
<1> QED BY <1>1, <1>2, <1>3, <1>4, <1>5, <1>6

LEMMA AskStrict == ASSUME Base, Strict, NEW t \in Tasks, Ask(t) PROVE Strict' /\ SStep
<1>1. /\ ~Active(t) /\ \A u \in Tasks \ {t} : call'[u] = call[u]
      /\ call'[t].at = "queued" /\ UNCHANGED <<file, dblock, lock, portable, alive>>
  BY AskDoes DEF Base
<1>2. ~Holds(t)' /\ ~Reaps(t)' /\ Pending(t) = NoOp
  BY <1>1 DEF Holds, HoldAts, Reaps, Active, Pending
<1>3. OneKind' /\ Exclusive' /\ ReapedIsIdle' /\ SeenCurrent'
  BY <1>1, <1>2 DEF Strict, OneKind, Exclusive, ReapedIsIdle, SeenCurrent, Reaps, Holds, Portable
<1>4. \A u \in Tasks \ {t} : Pending(u)' = Pending(u)
  BY <1>1 DEF Pending
<1> QED BY <1>1, <1>2, <1>3, <1>4, SerialAsk DEF Strict

LEMMA LinkStrict ==
    ASSUME Base, Strict, LateReap \notin Admitted, NEW t \in Tasks, Link(t) PROVE Strict' /\ SStep
<1>0. Types /\ call[t].at = "link" /\ UNCHANGED <<file, portable, alive>>
  BY LinkDoes DEF Base
<1>1. CASE (Goes(t, "look") \/ Goes(t, "busy")) /\ UNCHANGED <<dblock, lock>>
  BY <1>0, <1>1, StrictGoes DEF Ats, HoldAts
<1>2. CASE /\ Portable(t) /\ Goes(t, "held") /\ lock = NoLock /\ UNCHANGED dblock
           /\ lock' = [pid |-> Here(t), token |-> call[t].token] /\ Reaping = {}
  <2>1. \A u \in Tasks : ~Holds(u)
    <3> SUFFICES ASSUME NEW u \in Tasks, Holds(u) PROVE FALSE
      OBVIOUS
    <3>1. Portable(u)
      BY <1>2, Constants DEF Strict, OneKind, Portable, Here
    <3>2. call[u].token \in Nat /\ lock.token = call[u].token
      BY <3>1 DEF Strict, Exclusive, Base, Types, CallSet
    <3> QED BY <1>2, <3>2, Constants
  <2>2. \A u \in Tasks : ~Reaps(u)
    BY <1>2 DEF Reaping, Reaps, At
  <2>3. OneKind' /\ Exclusive' /\ ReapedIsIdle' /\ SeenCurrent'
    BY <1>0, <1>2, <2>1, <2>2 DEF Strict, OneKind, Exclusive, ReapedIsIdle, SeenCurrent, Reaps, Holds, HoldAts, Portable, Goes
  <2>4. \A u \in Tasks : Pending(u)' = Pending(u)
    BY <1>0, <1>2 DEF Pending, Goes
  <2> QED BY <1>0, <2>3, <2>4, SerialFail DEF Strict
<1>3. CASE ~Portable(t) /\ Goes(t, "held") /\ dblock = None /\ dblock' = t /\ UNCHANGED lock
  <2>1. \A u \in Tasks : ~Holds(u) /\ ~Portable(u)
    BY <1>3, Constants DEF Strict, OneKind, Exclusive, Portable, Here
  <2>2. OneKind' /\ Exclusive' /\ ReapedIsIdle' /\ SeenCurrent'
    BY <1>0, <1>3, <2>1 DEF Strict, OneKind, Exclusive, ReapedIsIdle, SeenCurrent, Holds, HoldAts, Portable, Goes
  <2>3. \A u \in Tasks : Pending(u)' = Pending(u)
    BY <1>0, <1>3 DEF Pending, Goes
  <2> QED BY <1>0, <2>2, <2>3, SerialFail DEF Strict
<1> QED BY <1>0, <1>1, <1>2, <1>3, LinkDoes

LEMMA ReapStrict == ASSUME Base, Strict, NEW t \in Tasks, Reap(t) PROVE Strict' /\ SStep
<1>1. /\ call[t].at = "reap" /\ UNCHANGED <<file, dblock, portable, alive>>
      /\ lock' = NoLock /\ (Goes(t, "busy") \/ Goes(t, "link"))
  BY ReapDoes DEF Base
<1>2. \A u \in Tasks : Holds(u) => ~Portable(u)
  BY <1>1 DEF Strict, ReapedIsIdle, Reaps
<1>3. OneKind' /\ Exclusive' /\ ReapedIsIdle' /\ SeenCurrent'
  BY <1>1, <1>2 DEF Strict, OneKind, Exclusive, ReapedIsIdle, SeenCurrent, Reaps, Holds, HoldAts, Portable, Goes
<1>4. \A u \in Tasks : Pending(u)' = Pending(u)
  BY <1>1 DEF Pending, Goes
<1> QED BY <1>1, <1>3, <1>4, SerialFail DEF Strict

LEMMA SaveStrict == ASSUME Base, Strict, NEW t \in Tasks, Save(t) PROVE Strict' /\ SStep
<1>1. /\ Goes(t, "release") /\ call[t].at = "loaded" /\ file' = Effect(call[t].op, call[t].seen)
      /\ UNCHANGED <<dblock, lock, portable, alive>> /\ Types
  BY SaveDoes DEF Base
<1>2. Holds(t) /\ \A u \in Tasks \ {t} : ~Holds(u)
  BY <1>1, Alone DEF Holds, HoldAts
<1>3. OneKind' /\ Exclusive' /\ ReapedIsIdle'
  BY <1>1, <1>2 DEF Strict, OneKind, Exclusive, ReapedIsIdle, Reaps, Holds, HoldAts, Portable, Goes
<1>4. SeenCurrent'
  BY <1>1, <1>2 DEF SeenCurrent, Holds, HoldAts, Goes
<1>5. Pending(t) = call[t].op /\ Pending(t)' = NoOp /\ \A u \in Tasks \ {t} : Pending(u)' = Pending(u)
  BY <1>1 DEF Pending, Goes
<1>6. call[t].seen = file
  BY <1>1 DEF Strict, SeenCurrent
<1>7. call[t].op # NoOp
  BY <1>1 DEF Base, Asked, Active
<1> QED BY <1>1, <1>3, <1>4, <1>5, <1>6, <1>7, SerialSucceed DEF Strict

LEMMA ReleaseStrict ==
    ASSUME Base, Strict, NEW t \in Tasks, Release(t) \/ Unlink(t) \/ ReleaseFails(t) PROVE Strict' /\ SStep
<1>0. Types /\ None # t
  BY Constants DEF Base
<1>1. Holds(t) /\ call[t].at \in {"release", "unlink"} /\ UNCHANGED <<file, portable, alive>>
  BY <1>0, ReleaseDoes, UnlinkDoes, ReleaseFailsDoes DEF Holds, HoldAts
<1>2. CASE Ended(t)
  <2>1. dblock' = dblock \/ Holds(t)
    BY <1>1
  <2> QED BY <1>1, <1>2, <2>1, StrictEnded
<1>3. CASE Goes(t, "unlink") /\ Release(t) /\ Portable(t)
  <2>1. dblock # t
    BY <1>0, <1>3 DEF Base, DbOf
  <2>2. UNCHANGED <<dblock, lock>>
    BY <1>0, <1>3, <2>1, ReleaseDoes
  <2> QED BY <1>1, <1>3, <2>2, StrictGoes DEF Ats
<1> QED BY <1>0, <1>2, <1>3, ReleaseDoes, UnlinkDoes, ReleaseFailsDoes

\* A process ends, and nobody is about to rename its last lock away for an earlier one.
LEMMA EndsStrict ==
    ASSUME Base, Strict, NEW p \in Procs, Ends(p),
           ~Misread(p) \/ \A u \in Tasks : Here(u) # p /\ Holds(u) => ~Portable(u)
    PROVE  Strict' /\ SStep
<1>1. /\ \A t \in Tasks : IF Here(t) = p THEN call'[t] = Idle ELSE call'[t] = call[t]
      /\ dblock' = (IF dblock \in Of(p) THEN None ELSE dblock) /\ alive' = alive \ {p}
      /\ UNCHANGED <<file, lock, portable>>
  BY EndsDoes DEF Base
<1>2. \A t \in Tasks : Here(t) = p => ~Holds(t)' /\ ~Reaps(t)' /\ call'[t].at = "idle"
  BY <1>1, Constants DEF Holds, HoldAts, Reaps
<1>3. \A t \in Tasks : Here(t) # p => call'[t] = call[t]
  BY <1>1
<1>4. Exclusive' /\ SeenCurrent' /\ OneKind'
  BY <1>1, <1>2, <1>3 DEF Strict, Exclusive, SeenCurrent, OneKind, Holds, Portable, Of, Here
<1>5. ReapedIsIdle'
  <2> SUFFICES ASSUME NEW t \in Tasks, NEW u \in Tasks, Reaps(t)', Holds(u)' PROVE ~Portable(u)'
    BY DEF ReapedIsIdle
  <2>1. Here(t) # p /\ Here(u) # p /\ Holds(u)
    BY <1>2, <1>3 DEF Holds
  <2>2. CASE Reaps(t)
    BY <1>1, <2>1, <2>2 DEF Strict, ReapedIsIdle, Portable
  <2>3. CASE ~Reaps(t)
    <3>1. call[t].at = "judge" /\ call[t].owner.pid = p
      BY <1>1, <1>3, <2>1, <2>3 DEF Reaps
    <3>2. CASE ~Misread(p)
      <4>1. lock.pid = p
        BY <3>1, <3>2 DEF Misread, At
      <4> QED BY <1>1, <2>1, <4>1 DEF Strict, Exclusive, Portable
    <3>3. CASE Misread(p)
      BY <1>1, <2>1, <3>3 DEF Portable
    <3> QED BY <3>2, <3>3
  <2> QED BY <2>2, <2>3
<1>6. \A t \in Tasks : Pending(t)' \in {Pending(t), NoOp}
  BY <1>2, <1>3 DEF Pending
<1> QED BY <1>1, <1>4, <1>5, <1>6, SerialFail DEF Strict

LEMMA DiesStrict == ASSUME Base, Strict, NEW t \in Tasks, Dies(t) PROVE Strict' /\ SStep
<1>1. Holds(t) /\ Ends(Here(t)) /\ Here(t) \in Procs
  BY Constants DEF Dies, At, Holds, HoldAts, Here
<1>2. \A u \in Tasks : Holds(u) => u = t
  BY <1>1, Alone
<1> QED BY <1>1, <1>2, EndsStrict

LEMMA StrictInit == ASSUME MixedLocks \notin Admitted PROVE Init => Strict /\ Serial!Init
<1> SUFFICES ASSUME Init PROVE Strict /\ Serial!Init
  OBVIOUS
<1>1. \A t \in Tasks : call[t].at = "idle"
  BY Constants DEF Init
<1>2. Strict
  BY <1>1 DEF Init, Strict, OneKind, Exclusive, ReapedIsIdle, SeenCurrent, Holds, HoldAts, Reaps
<1>3. \A t \in Tasks : Pending(t) = NoOp
  BY <1>1 DEF Pending
<1> QED BY <1>2, <1>3 DEF Serial!Init

LEMMA StrictNext ==
    ASSUME Admitted = {} PROVE Base /\ Strict /\ [Next]_vars => Strict' /\ SStep
<1> SUFFICES ASSUME Base, Strict, [Next]_vars PROVE Strict' /\ SStep
  OBVIOUS
<1>1. CASE UNCHANGED vars
  <2>1. Strict'
    BY <1>1 DEF vars, Strict, OneKind, Exclusive, ReapedIsIdle, SeenCurrent, Holds, Reaps, Portable
  <2>2. file' = file /\ \A t \in Tasks : Pending(t)' = Pending(t)
    BY <1>1 DEF vars, Pending
  <2> QED BY <2>1, <2>2, SerialFail
<1>2. ASSUME NEW t \in Tasks, TaskStep(t) \/ Ask(t) \/ TimesOut(t) \/ LinkFails(t) \/ WorkFails(t) \/ ReleaseFails(t)
      PROVE  Strict' /\ SStep
  BY <1>2, OnItsWayStrict, AskStrict, LinkStrict, ReapStrict, SaveStrict, ReleaseStrict, DiesStrict DEF TaskStep
<1>3. ASSUME NEW p \in Procs, Crash(p) PROVE Strict' /\ SStep
  BY <1>3, EndsStrict DEF Crash
<1>4. ASSUME NEW p \in Procs, Restart(p) PROVE Strict' /\ SStep
  <2>1. alive' = alive \cup {p} /\ UNCHANGED <<file, dblock, lock, portable, call>>
    BY <1>4 DEF Restart
  <2>2. Strict'
    BY <2>1 DEF Strict, OneKind, Exclusive, ReapedIsIdle, SeenCurrent, Holds, Reaps, Portable
  <2>3. \A t \in Tasks : Pending(t)' = Pending(t)
    BY <2>1 DEF Pending
  <2> QED BY <2>1, <2>2, <2>3, SerialFail
<1> QED BY <1>1, <1>2, <1>3, <1>4 DEF Next

\* The lock between processes, whichever of the two kinds it is, makes every change of the
\* registry take effect as a whole on what the one before it left, or not at all, through
\* timeouts, failures, deaths and locks left behind (registry.ts withRegistryLock).  The
\* promise chain is no part of the argument.
THEOREM RegistryIsSerial == ASSUME Admitted = {} PROVE Spec => UpdatesAreSerial
<1>1. Init => Strict /\ Serial!Init
  BY StrictInit
<1>2. Base /\ Strict /\ [Next]_vars => Strict' /\ SStep
  BY StrictNext
<1>3. Base /\ Strict /\ [Next]_vars => [Serial!Next]_<<file, [t \in Tasks |-> Pending(t)]>>
  BY <1>2 DEF SStep
<1> QED BY <1>1, <1>2, <1>3, BaseInit, BaseNext, PTL DEF Spec, UpdatesAreSerial, Serial!Spec

=============================================================================
