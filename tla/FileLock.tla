------------------------------- MODULE FileLock -------------------------------
(***************************************************************************)
(* A lock that is a file naming its owner's pid, taken over from a dead    *)
(* owner under a second such file (file-lock.ts).  It guards the embedding *)
(* checkpoint and each machine-wide slot of the embedding gate.            *)
(*                                                                         *)
(* A process is its pid: one that restarts here is a new process with a    *)
(* recycled pid, which finds its predecessor's files under its own name.   *)
(* Every await is a step of its own; reading a file and judging whether    *)
(* the pid read is alive are two steps.                                    *)
(***************************************************************************)
EXTENDS Naturals

CONSTANTS
    Procs,      \* pids
    None,       \* no file
    Junk,       \* a file without a readable pid, within its grace period
    OldJunk,    \* and past it
    Attempts,   \* the attempts of acquireReserved (3)
    Clears,     \* the attempts of takeTakeoverLock (2)
    MaxMishaps, \* bound on the processes that die and the file operations that fail
    Admitted    \* which of the three hazards below may happen

Overlap == "acquire during own release"
LateJudge == "exit between read and judgement"
DoubleClear == "two clear one dead taker at once"

ASSUME LockAssumption ==
    /\ {None, Junk, OldJunk} \cap Procs = {} /\ None \notin {Junk, OldJunk} /\ Junk # OldJunk
    /\ Attempts \in Nat \ {0} /\ Clears \in Nat \ {0} /\ MaxMishaps \in Nat
    /\ Admitted \subseteq {Overlap, LateJudge, DoubleClear}

VARIABLES
    lock,      \* whom <path>.lock names
    takeover,  \* whom <path>.lock.takeover names
    alive,     \* processes that run
    held,      \* processes whose heldHere has the path: reserved or owned
    acq,       \* per process: where its acquireLock is
    rel,       \* per process: where its releaseLock is
    mishaps    \* deaths and failed operations so far

vars == <<lock, takeover, alive, held, acq, rel, mishaps>>

Resting == [at |-> "idle", try |-> 0, clear |-> 0, seen |-> None, then |-> "idle"]
Reserved == [Resting EXCEPT !.at = "link"]

Init ==
    /\ lock \in {None, Junk} /\ takeover = None
    /\ alive = Procs /\ held = {}
    /\ acq = [p \in Procs |-> Resting] /\ rel = [p \in Procs |-> "none"]
    /\ mishaps = 0

At(p, s) == p \in alive /\ acq[p].at = s
To(p, s) == acq' = [acq EXCEPT ![p].at = s, ![p].seen = None]
Saw(p, s, what) == acq' = [acq EXCEPT ![p].at = s, ![p].seen = what]
Owns(p) == At(p, "owner")

\* holdsLock and its mutant: one's own pid counts as a live holder.
OwnPidHolds(h, p) == h = Junk \/ (h \in Procs /\ h \in alive)
Holds(h, p) == h = Junk \/ (h \in Procs /\ h # p /\ h \in alive)

-----------------------------------------------------------------------------
(* acquireLock *)

\* heldHere.add before the first await.  While it is there every other attempt of
\* this process returns at once and changes nothing.
Reserve(p) ==
    /\ At(p, "idle") /\ p \notin held
    /\ Overlap \in Admitted \/ rel[p] = "none"
    /\ held' = held \cup {p}
    /\ acq' = [acq EXCEPT ![p] = Reserved]
    /\ UNCHANGED <<lock, takeover, alive, rel, mishaps>>

\* Mutant: a reservation left behind.
GiveUpReserved(p) == acq' = [acq EXCEPT ![p] = Resting] /\ UNCHANGED held
\* Not held: the reservation goes with the attempt.
GiveUp(p) ==
    /\ acq' = [acq EXCEPT ![p] = Resting]
    /\ held' = held \ {p}

\* `continue`: the next attempt, if there is one.
Retry(p) ==
    IF acq[p].try + 1 < Attempts
    THEN /\ acq' = [acq EXCEPT ![p] = [Reserved EXCEPT !.try = acq[p].try + 1]]
         /\ UNCHANGED held
    ELSE GiveUp(p)

\* link() is atomic: it puts a whole file in place or fails.
Link(p) ==
    /\ At(p, "link")
    /\ IF lock = None
       THEN lock' = p /\ To(p, "owner")
       ELSE UNCHANGED lock /\ To(p, "read")
    /\ UNCHANGED <<takeover, alive, held, rel, mishaps>>

Read(p) ==
    /\ At(p, "read") /\ Saw(p, "judge", lock)
    /\ UNCHANGED <<lock, takeover, alive, held, rel, mishaps>>

Judge(p) ==
    /\ At(p, "judge")
    /\ LET h == acq[p].seen IN
       CASE h = None -> Retry(p)
         [] h # None /\ Holds(h, p) -> GiveUp(p)
         [] OTHER -> To(p, "take") /\ UNCHANGED held
    /\ UNCHANGED <<lock, takeover, alive, rel, mishaps>>

-----------------------------------------------------------------------------
(* takeTakeoverLock *)

\* Mutant: stale locks are removed without the takeover lock.
TakeNothing(p) ==
    /\ At(p, "take") /\ To(p, "reread")
    /\ UNCHANGED <<lock, takeover, alive, held, rel, mishaps>>

Take(p) ==
    /\ At(p, "take")
    /\ IF takeover = None
       THEN takeover' = p /\ To(p, "reread")
       ELSE UNCHANGED takeover /\ To(p, "readTaker")
    /\ UNCHANGED <<lock, alive, held, rel, mishaps>>

\* Without DoubleClear, processes look at somebody's takeover lock one at a time.
ReadTaker(p) ==
    /\ At(p, "readTaker")
    /\ \/ DoubleClear \in Admitted
       \/ \A q \in Procs \ {p} : acq[q].at \notin {"judgeTaker", "clearTaker"}
    /\ Saw(p, "judgeTaker", takeover)
    /\ UNCHANGED <<lock, takeover, alive, held, rel, mishaps>>

\* Another go at the takeover lock, or another attempt at the lock itself.
TakeAgain(p) ==
    IF acq[p].clear + 1 < Clears
    THEN /\ acq' = [acq EXCEPT ![p].at = "take", ![p].seen = None, ![p].clear = @ + 1]
         /\ UNCHANGED held
    ELSE Retry(p)

JudgeTaker(p) ==
    /\ At(p, "judgeTaker")
    /\ LET h == acq[p].seen IN
       CASE h = None -> TakeAgain(p)
         [] h # None /\ Holds(h, p) -> Retry(p)
         [] OTHER -> To(p, "clearTaker") /\ UNCHANGED held
    /\ UNCHANGED <<lock, takeover, alive, rel, mishaps>>

ClearTaker(p) ==
    /\ At(p, "clearTaker") /\ takeover' = None /\ TakeAgain(p)
    /\ UNCHANGED <<lock, alive, rel, mishaps>>

-----------------------------------------------------------------------------
(* Under the takeover lock *)

Reread(p) ==
    /\ At(p, "reread") /\ Saw(p, "rejudge", lock)
    /\ UNCHANGED <<lock, takeover, alive, held, rel, mishaps>>

\* The `finally` of the takeover comes first, whatever happens after it.
LeaveTakeover(p, then) ==
    acq' = [acq EXCEPT ![p].at = "readMine", ![p].seen = None, ![p].then = then]

\* Mutant: the lock is removed as first read, without looking again.
TrustFirstRead(p) ==
    /\ At(p, "rejudge") /\ To(p, "remove")
    /\ UNCHANGED <<lock, takeover, alive, held, rel, mishaps>>

Rejudge(p) ==
    /\ At(p, "rejudge")
    /\ LET h == acq[p].seen IN
       CASE h = None -> To(p, "relink")
         [] h # None /\ Holds(h, p) -> LeaveTakeover(p, "give up")
         [] OTHER -> To(p, "remove")
    /\ UNCHANGED <<lock, takeover, alive, held, rel, mishaps>>

Remove(p) ==
    /\ At(p, "remove") /\ lock' = None /\ To(p, "relink")
    /\ UNCHANGED <<takeover, alive, held, rel, mishaps>>

Relink(p) ==
    /\ At(p, "relink")
    /\ IF lock = None
       THEN lock' = p /\ LeaveTakeover(p, "own")
       ELSE UNCHANGED lock /\ LeaveTakeover(p, "retry")
    /\ UNCHANGED <<takeover, alive, held, rel, mishaps>>

ReadMine(p) ==
    /\ At(p, "readMine") /\ Saw(p, "drop", takeover)
    /\ UNCHANGED <<lock, takeover, alive, held, rel, mishaps>>

\* What the takeover decided: the lock is ours, another attempt, or not held.
Leave(p) ==
    CASE acq[p].then = "own" -> To(p, "owner") /\ UNCHANGED held
      [] acq[p].then = "retry" -> Retry(p)
      [] OTHER -> GiveUp(p)

\* The takeover lock is removed only if it still named us.
Drop(p) ==
    /\ At(p, "drop")
    /\ takeover' = IF acq[p].seen = p THEN None ELSE takeover
    /\ Leave(p)
    /\ UNCHANGED <<lock, alive, rel, mishaps>>

-----------------------------------------------------------------------------
(* releaseLock *)

\* heldHere.delete comes first; the file goes two awaits later.
Release(p) ==
    /\ Owns(p) /\ rel[p] = "none"
    /\ held' = held \ {p}
    /\ acq' = [acq EXCEPT ![p] = Resting]
    /\ rel' = [rel EXCEPT ![p] = "read"]
    /\ UNCHANGED <<lock, takeover, alive, mishaps>>

\* Only a lock that names another pid is left alone.
ReleaseRead(p) ==
    /\ p \in alive /\ rel[p] = "read"
    /\ rel' = [rel EXCEPT ![p] = IF lock \in Procs \ {p} THEN "none" ELSE "unlink"]
    /\ UNCHANGED <<lock, takeover, alive, held, acq, mishaps>>

ReleaseUnlink(p) ==
    /\ p \in alive /\ rel[p] = "unlink"
    /\ lock' = None /\ rel' = [rel EXCEPT ![p] = "none"]
    /\ UNCHANGED <<takeover, alive, held, acq, mishaps>>

-----------------------------------------------------------------------------
(* The environment *)

\* Somebody has read p's pid from a file that has since changed hands, and has yet
\* to ask whether p is alive.
Misread(p) ==
    \E q \in Procs \ {p} :
        /\ acq[q].seen = p
        /\ \/ acq[q].at \in {"judge", "rejudge"} /\ lock # p
           \/ acq[q].at = "judgeTaker" /\ takeover # p

\* A file operation fails for a reason of its own.  A failed link ends the attempt
\* (or the takeover), a lock that cannot be read counts as live, and a failed unlink
\* is ignored, so the file stays.
Fails(p) ==
    /\ p \in alive /\ mishaps < MaxMishaps /\ mishaps' = mishaps + 1
    /\ CASE acq[p].at \in {"link", "read"} -> GiveUp(p)
         [] acq[p].at \in {"take", "readTaker"} -> Retry(p)
         [] acq[p].at = "clearTaker" -> TakeAgain(p)
         [] acq[p].at \in {"reread", "relink"} -> LeaveTakeover(p, "give up") /\ UNCHANGED held
         [] acq[p].at = "remove" -> To(p, "relink") /\ UNCHANGED held
         [] acq[p].at \in {"readMine", "drop"} -> Leave(p)
         [] OTHER -> FALSE
    /\ UNCHANGED <<lock, takeover, alive, rel>>

FailsToUnlink(p) ==
    /\ p \in alive /\ rel[p] = "unlink" /\ mishaps < MaxMishaps
    /\ mishaps' = mishaps + 1 /\ rel' = [rel EXCEPT ![p] = "none"]
    /\ UNCHANGED <<lock, takeover, alive, held, acq>>

\* A process ends or is killed; its files stay.
Die(p) ==
    /\ p \in alive /\ mishaps < MaxMishaps
    /\ LateJudge \in Admitted \/ ~ Misread(p)
    /\ alive' = alive \ {p} /\ held' = held \ {p} /\ mishaps' = mishaps + 1
    /\ acq' = [acq EXCEPT ![p] = Resting] /\ rel' = [rel EXCEPT ![p] = "none"]
    /\ UNCHANGED <<lock, takeover>>

\* A new process is given the pid.
Restart(p) ==
    /\ p \notin alive /\ alive' = alive \cup {p}
    /\ UNCHANGED <<lock, takeover, held, acq, rel, mishaps>>

\* UNREADABLE_LOCK_GRACE_MS passes.
Age ==
    /\ lock = Junk /\ lock' = OldJunk
    /\ UNCHANGED <<takeover, alive, held, acq, rel, mishaps>>

-----------------------------------------------------------------------------

Continue(p) ==
    \/ Link(p) \/ Read(p) \/ Judge(p)
    \/ Take(p) \/ ReadTaker(p) \/ JudgeTaker(p) \/ ClearTaker(p)
    \/ Reread(p) \/ Rejudge(p) \/ Remove(p) \/ Relink(p) \/ ReadMine(p) \/ Drop(p)

FinishRelease(p) == ReleaseRead(p) \/ ReleaseUnlink(p)

Next ==
    \/ \E p \in Procs : Reserve(p) \/ Continue(p) \/ Release(p) \/ FinishRelease(p)
    \/ \E p \in Procs : Fails(p) \/ FailsToUnlink(p) \/ Die(p) \/ Restart(p)
    \/ Age

\* An await of a live process resumes; time passes.  Nothing makes a process ask
\* for the lock, give it back or die.
Fairness ==
    /\ \A p \in Procs : WF_vars(Continue(p)) /\ WF_vars(FinishRelease(p))
    /\ WF_vars(Age)

Spec == Init /\ [][Next]_vars /\ Fairness

-----------------------------------------------------------------------------

TypeOK ==
    /\ lock \in Procs \cup {None, Junk, OldJunk} /\ takeover \in Procs \cup {None}
    /\ alive \subseteq Procs /\ held \subseteq alive
    /\ acq \in [Procs -> [at : {"idle", "link", "read", "judge", "take", "readTaker",
                                "judgeTaker", "clearTaker", "reread", "rejudge", "remove",
                                "relink", "readMine", "drop", "owner"},
                          try : 0..(Attempts - 1), clear : 0..(Clears - 1),
                          seen : Procs \cup {None, Junk, OldJunk},
                          then : {"idle", "give up", "own", "retry"}]]
    /\ rel \in [Procs -> {"none", "read", "unlink"}]
    /\ mishaps \in 0..MaxMishaps

\* Two live processes never both own the lock, through crashes, recycled pids and
\* concurrent takeovers of a dead owner (file-lock.ts acquireLock).
OneOwner == \A p, q \in Procs : Owns(p) /\ Owns(q) => p = q

\* The file of a live owner is never taken from it: whoever owns it is named by it.
OwnerIsNamed == \A p \in Procs : Owns(p) => lock = p

\* A path is reserved in a process exactly while an attempt or an owner there uses
\* it: a reservation left behind would refuse every later attempt.
ReservedWhileUsed == \A p \in Procs : p \in held <=> acq[p].at # "idle"

\* Only one process at a time decides on a stale lock.
OneTaker ==
    \A p, q \in Procs :
        /\ p \in alive /\ acq[p].at \in {"reread", "rejudge", "remove", "relink"}
        /\ q \in alive /\ acq[q].at \in {"reread", "rejudge", "remove", "relink"}
        => p = q

\* Whatever dead processes left behind - the lock, a takeover lock, an unreadable
\* file, its own recycled pid - a process that keeps asking gets the lock once no
\* other live process uses it or was given the pid it names.
Uncontended(p) ==
    \A q \in alive \ {p} : acq[q].at = "idle" /\ rel[q] = "none" /\ q \notin {lock, takeover}
LeftoversDoNotBlock ==
    \A p \in Procs :
        <>[]Uncontended(p) /\ []<>(acq[p].at = "link") => []<>(acq[p].at = "owner")

=============================================================================
