------------------------------ MODULE Registry ------------------------------
(***************************************************************************)
(* The registry of repositories (storage/registry.ts): registry.json, read *)
(* and rewritten as a whole by every process, behind a promise chain in    *)
(* each process and a lock between them.  The lock is an EXCLUSIVE         *)
(* transaction on registry.json.lock.db where there is SQLite, and a hard  *)
(* link that names its owner where there is not.                           *)
(*                                                                         *)
(* An entry is the number of the call that wrote it last.  `prune` is one  *)
(* more change of the file; what it deletes beside it is left out.         *)
(***************************************************************************)
EXTENDS Naturals, Sequences

CONSTANTS
    Names,       \* repositories
    Tasks,       \* the calls that may be in flight
    Prunes,      \* those that are the command line's prune
    Procs,       \* processes, by pid
    ProcOf,      \* the process of each call
    Gone,        \* the pid of a process that will not come back
    None,
    MaxCalls, MaxMishaps,
    Admitted     \* which of the two hazards below may happen

\* A lock is judged abandoned, changes hands, and is then renamed away.
LateReap == "acquire between judgement and rename"
\* Some processes have SQLite and some have not: two kinds of lock.
MixedLocks == "two kinds of lock"

ASSUME RegistryAssumption ==
    /\ ProcOf \in [Tasks -> Procs] /\ Prunes \subseteq Tasks /\ Gone \notin Procs
    /\ None \notin Nat \cup Tasks /\ MaxCalls \in Nat /\ MaxMishaps \in Nat
    /\ Admitted \subseteq {LateReap, MixedLocks}

VARIABLES
    file,      \* registry.json
    dblock,    \* the call that holds lock.db, or None
    lock,      \* whom lock.file names, or None
    portable,  \* processes without SQLite
    alive,
    chain,     \* per process, registryWriteLocks: its calls in order
    call,      \* per call
    left,      \* for LockIsReturned: whose lock.file nobody will remove
    calls, mishaps

vars == <<file, dblock, lock, portable, alive, chain, call, left, calls, mishaps>>

NoOp == [kind |-> "none", names |-> {}, value |-> 0]
NoLock == [pid |-> None, token |-> None]
Idle == [at |-> "idle", op |-> NoOp, token |-> 0, owner |-> NoLock, seen |-> None]

\* A lock.file may be there from before, its owner dead or its pid another's by now.
Init ==
    /\ file \in [Names -> {0, None}]
    /\ portable \in IF MixedLocks \in Admitted THEN SUBSET Procs ELSE {{}, Procs}
    /\ alive = Procs /\ dblock = None
    /\ lock \in {NoLock} \cup [pid : Procs \cup {Gone}, token : {0}] /\ left = {0}
    /\ chain = [p \in Procs |-> <<>>] /\ call = [t \in Tasks |-> Idle]
    /\ calls = 0 /\ mishaps = 0

At(t, s) == call[t].at = s
Here(t) == ProcOf[t]
Of(p) == {t \in Tasks : ProcOf[t] = p}
Go(t, s) == call' = [call EXCEPT ![t].at = s]
Portable(t) == Here(t) \in portable
Mishap == mishaps < MaxMishaps /\ mishaps' = mishaps + 1

\* registerRepo, updateRepoMeta, removeRepo and prune: what becomes of the file.
Effect(op, v) ==
    [n \in Names |-> IF n \notin op.names THEN v[n]
                     ELSE CASE op.kind = "register" -> op.value
                            [] op.kind = "update" -> IF v[n] = None THEN None ELSE op.value
                            [] OTHER -> None]
Ops(t) ==
    IF t \in Prunes THEN {[kind |-> "prune", names |-> ns, value |-> 0] : ns \in SUBSET Names \ {{}}}
    ELSE {[kind |-> k, names |-> {n}, value |-> calls + 1] : k \in {"register", "update", "remove"}, n \in Names}

-----------------------------------------------------------------------------
(* withRegistryLock *)

Ask(t) ==
    /\ At(t, "idle") /\ Here(t) \in alive /\ calls < MaxCalls
    /\ calls' = calls + 1
    /\ \E op \in Ops(t) : call' = [call EXCEPT ![t] = [Idle EXCEPT !.at = "queued", !.op = op, !.token = calls']]
    /\ chain' = [chain EXCEPT ![Here(t)] = Append(@, t)]
    /\ UNCHANGED <<file, dblock, lock, portable, alive, left, mishaps>>
\* The one before has settled, well or not.
Turn(t) ==
    /\ At(t, "queued") /\ Head(chain[Here(t)]) = t
    /\ Go(t, "link")
    /\ UNCHANGED <<file, dblock, lock, portable, alive, chain, left, calls, mishaps>>
Leave(t) ==
    /\ call' = [call EXCEPT ![t] = Idle]
    /\ chain' = [chain EXCEPT ![Here(t)] = Tail(@)]

-----------------------------------------------------------------------------
(* acquireRegistryFileLock, acquireRegistryPortableLock *)

\* Those that have read, or judged, a lock whose owner is dead.
Reaping == {t \in Tasks : At(t, "reap") \/ (At(t, "judge") /\ call[t].owner.pid \notin alive)}
Link(t) ==
    /\ At(t, "link")
    /\ IF Portable(t)
       THEN /\ UNCHANGED dblock
            /\ IF lock # NoLock THEN Go(t, "look") /\ UNCHANGED lock
               ELSE /\ LateReap \in Admitted \/ Reaping = {}
                    /\ lock' = [pid |-> Here(t), token |-> call[t].token] /\ Go(t, "held")
       ELSE /\ UNCHANGED lock
            /\ IF dblock # None THEN Go(t, "busy") /\ UNCHANGED dblock
               ELSE dblock' = t /\ Go(t, "held")
    /\ UNCHANGED <<file, portable, alive, chain, left, calls, mishaps>>
\* readRegistryLockOwner, then processIsAlive of what was read.
Look(t) ==
    /\ At(t, "look")
    /\ call' = [call EXCEPT ![t].at = IF lock = NoLock THEN "busy" ELSE "judge", ![t].owner = lock]
    /\ UNCHANGED <<file, dblock, lock, portable, alive, chain, left, calls, mishaps>>
\* Variant: whoever has it has had it long enough.
JudgeAny(t) ==
    /\ At(t, "judge") /\ Go(t, "reap")
    /\ UNCHANGED <<file, dblock, lock, portable, alive, chain, left, calls, mishaps>>
Judge(t) ==
    /\ At(t, "judge")
    /\ Go(t, IF call[t].owner.pid \in alive THEN "busy" ELSE "reap")
    /\ UNCHANGED <<file, dblock, lock, portable, alive, chain, left, calls, mishaps>>
\* rename and unlink, whatever is there by now; then try again at once.
Reap(t) ==
    /\ At(t, "reap") /\ lock' = NoLock
    /\ call' = [call EXCEPT ![t].at = IF lock = NoLock THEN "busy" ELSE "link", ![t].owner = NoLock]
    /\ UNCHANGED <<file, dblock, portable, alive, chain, left, calls, mishaps>>
\* It sleeps 25 ms, or, past the deadline, throws.
Sleeps(t) ==
    /\ At(t, "busy") /\ Go(t, "link")
    /\ UNCHANGED <<file, dblock, lock, portable, alive, chain, left, calls, mishaps>>
\* Variant: the deadline moves with every turn.
TimesOutNever(t) == At(t, "busy") /\ FALSE
TimesOut(t) ==
    /\ At(t, "busy") /\ Leave(t)
    /\ UNCHANGED <<file, dblock, lock, portable, alive, left, calls, mishaps>>
\* The candidate cannot be written, or an error that is neither busy nor EEXIST.
LinkFails(t) ==
    /\ At(t, "link") /\ Mishap /\ Leave(t)
    /\ UNCHANGED <<file, dblock, lock, portable, alive, left, calls>>

-----------------------------------------------------------------------------
(* The work, and the release *)

Load(t) ==
    /\ At(t, "held")
    /\ call' = [call EXCEPT ![t].at = "loaded", ![t].seen = file]
    /\ UNCHANGED <<file, dblock, lock, portable, alive, chain, left, calls, mishaps>>
Refuses(t) == call[t].op.kind = "prune" /\ \A n \in Names : Effect(call[t].op, call[t].seen)[n] = None
\* atomicWriteFile, unless there is nothing to change.
Save(t) ==
    /\ At(t, "loaded") /\ ~Refuses(t)
    /\ file' = Effect(call[t].op, call[t].seen)
    /\ Go(t, "release")
    /\ UNCHANGED <<dblock, lock, portable, alive, chain, left, calls, mishaps>>
\* Variant: no `finally`.
WorkFailsHeld(t) ==
    /\ call[t].at \in {"held", "loaded"} /\ Mishap
    /\ Leave(t)
    /\ UNCHANGED <<file, dblock, lock, portable, alive, left, calls>>
\* The file cannot be read, or not be written: nothing is changed.
WorkFails(t) ==
    /\ call[t].at \in {"held", "loaded"} /\ Mishap
    /\ Go(t, "release")
    /\ UNCHANGED <<file, dblock, lock, portable, alive, chain, left, calls>>
\* ROLLBACK; or the owner is read once more, and only its own link is removed.
Release(t) ==
    /\ At(t, "release")
    /\ dblock' = IF dblock = t THEN None ELSE dblock
    /\ IF Portable(t) /\ lock.token = call[t].token THEN Go(t, "unlink") /\ UNCHANGED chain ELSE Leave(t)
    /\ UNCHANGED <<file, lock, portable, alive, left, calls, mishaps>>
Unlink(t) ==
    /\ At(t, "unlink")
    /\ lock' = NoLock /\ Leave(t)
    /\ UNCHANGED <<file, dblock, portable, alive, left, calls, mishaps>>
\* The link cannot be read, or not be removed.
ReleaseFails(t) ==
    /\ Portable(t) /\ call[t].at \in {"release", "unlink"} /\ Mishap
    /\ left' = left \cup {call[t].token} /\ Leave(t)
    /\ UNCHANGED <<file, dblock, lock, portable, alive, calls>>

-----------------------------------------------------------------------------
(* Processes *)

Ends(p) ==
    /\ alive' = alive \ {p}
    /\ dblock' = IF dblock \in Of(p) THEN None ELSE dblock
    /\ left' = left \cup {call[t].token : t \in Of(p)}
    /\ chain' = [chain EXCEPT ![p] = <<>>]
    /\ call' = [t \in Tasks |-> IF t \in Of(p) THEN Idle ELSE call[t]]
    /\ UNCHANGED <<file, lock, portable, calls>>
\* Somebody has read an earlier lock of p's, which is gone.
Misread(p) == \E t \in Tasks : At(t, "judge") /\ call[t].owner.pid = p /\ call[t].owner # lock
Crash(p) ==
    /\ p \in alive /\ Mishap
    /\ LateReap \in Admitted \/ ~Misread(p)
    /\ Ends(p)
\* die(): prune would leave the registry empty.
Dies(t) ==
    /\ At(t, "loaded") /\ Refuses(t)
    /\ Ends(Here(t)) /\ UNCHANGED mishaps
\* A new process is given the pid.
Restart(p) ==
    /\ p \notin alive /\ alive' = alive \cup {p}
    /\ UNCHANGED <<file, dblock, lock, portable, chain, call, left, calls, mishaps>>

TaskStep(t) ==
    \/ Turn(t) \/ Link(t) \/ Look(t) \/ Judge(t) \/ Reap(t) \/ Sleeps(t)
    \/ Load(t) \/ Save(t) \/ Dies(t) \/ Release(t) \/ Unlink(t)
Next ==
    \/ \E t \in Tasks : TaskStep(t) \/ Ask(t) \/ TimesOut(t) \/ LinkFails(t) \/ WorkFails(t) \/ ReleaseFails(t)
    \/ \E p \in Procs : Crash(p) \/ Restart(p)
\* The event loop of every process turns, and a call that keeps waiting sees five minutes
\* pass.
Spec == Init /\ [][Next]_vars
Fairness == \A t \in Tasks : WF_vars(TaskStep(t)) /\ SF_vars(TimesOut(t))
FairSpec == Spec /\ Fairness

-----------------------------------------------------------------------------
(* Properties *)

\* Every change of the registry takes effect as a whole on what the one before it left,
\* or not at all: no repository is lost between two calls, two processes or two crashes.
Pending(t) == IF call[t].at \in {"idle", "release", "unlink"} THEN NoOp ELSE call[t].op
Serial == INSTANCE SerialStore WITH
    Callers <- Tasks, value <- file, asked <- [t \in Tasks |-> Pending(t)]
UpdatesAreSerial == Serial!Spec

\* Whatever fails under the lock, the lock is given back: it is a call's that is at work,
\* or of a process that ended or could not remove it.
Holding == {t \in Tasks : call[t].at \in {"held", "loaded", "release", "unlink"}}
LockIsReturned ==
    /\ lock = NoLock \/ lock.token \in left \/ \E t \in Holding : call[t].token = lock.token
    /\ dblock = None \/ dblock \in Holding

\* Every call settles, even behind a lock that names a process it never belonged to.
EveryCallReturns == \A t \in Tasks : []<>At(t, "idle")
=============================================================================
