--------------------------- MODULE ToolCallsProof ---------------------------
(***************************************************************************)
(* FreshAnswers and NoJoinAfterTimeout of ToolCalls, for any callers,      *)
(* handlers, tools, sizes of the two caches and number of writes.          *)
(*                                                                         *)
(* What a handler has read is at least as new as every write of this       *)
(* process that is over (`mine`), or a write crossed it.  When a write     *)
(* ends, all that runs is crossed and all that wrapTool remembers is       *)
(* dropped; what the memo remembers was asked for under a version that     *)
(* write has left behind.                                                  *)
(***************************************************************************)
EXTENDS ToolCalls, TLAPS

Phases == {"idle", "started", "read", "hung", "committed", "dropped"}
RunSet == [at : Phases, key : Keys, ver : Nat, crossed : BOOLEAN, given : BOOLEAN]
CallerSet == [run : Runs \cup {None}, floor : Nat, fresh : BOOLEAN]
CacheEntry == [key : Searches, ver : Nat, crossed : BOOLEAN]
MemoEntry == [key : Audits, token : Nat, run : Runs \cup {None}, ver : Nat, crossed : BOOLEAN]

Types ==
    /\ rows \in Nat /\ done \in Nat /\ mine \in Nat /\ done <= mine /\ mine <= rows
    /\ resident \in Nat \cup {None} /\ watcher \in Nat \cup {None}
    /\ run \in [Runs -> RunSet] /\ caller \in [Callers -> CallerSet]
    /\ cache \in Seq(CacheEntry) /\ memo \in Seq(MemoEntry)

\* What is in memory has every write of this process that is over or has dropped it.
ResidentOK ==
    resident # None =>
      /\ mine <= resident /\ resident <= rows
      /\ \A r \in Runs : At(r, "dropped") => run[r].ver <= resident
WatcherOK == watcher # None => watcher <= rows

\* A write is index_file's; a handler has read what is over, or was crossed.
RunOK(r) ==
    /\ run[r].ver <= rows
    /\ At(r, "committed") \/ At(r, "dropped") => run[r].key = Index
    /\ run[r].key = Index => ~At(r, "read") /\ ~At(r, "hung") /\ (At(r, "started") => run[r].ver = 0)
    /\ At(r, "read") => run[r].crossed \/ mine <= run[r].ver
\* Whoever waits does so for a run, and counts on no more than what is over.
CallerOK(c) ==
    /\ caller[c].fresh
    /\ Waiting(c) => ~At(caller[c].run, "idle") /\ caller[c].floor <= mine

CacheOK(e) == e.crossed \/ done <= e.ver

\* Everything this process is writing came after the entry was asked for.
Before(token) ==
    /\ \A r \in Writing : token < run[r].ver
    /\ watcher # None => token < watcher
MemoOK(e) ==
    /\ e.token <= rows
    /\ e.run = None => e.crossed \/ (Before(e.token) /\ (e.token < mine \/ mine <= e.ver))
    /\ e.run # None =>
         /\ run[e.run].at \in {"started", "read", "hung"} /\ run[e.run].key = e.key
         /\ run[e.run].crossed \/ Before(e.token)
         /\ run[e.run].given => e.token < rows
\* No two entries are one key's, or one handler's.
Distinct(e, f) == (e.key = f.key => e.token # f.token) /\ (e.run = f.run => e.run = None)
Apart(s) == \A i, j \in DOMAIN s : i # j => Distinct(s[i], s[j])

IInv ==
    /\ Types /\ ResidentOK /\ WatcherOK
    /\ \A r \in Runs : RunOK(r)
    /\ \A c \in Callers : CallerOK(c)
    /\ \A i \in DOMAIN cache : CacheOK(cache[i])
    /\ \A i \in DOMAIN memo : MemoOK(memo[i])
    /\ Apart(memo)

LEMMA InitIInv == ASSUME Init PROVE IInv
<1> USE DEF Init
<1>1. NoRun \in RunSet /\ NoCall \in CallerSet
  BY DEF RunSet, Phases, Keys, CallerSet, NoRun, NoCall
<1>2. Types
  BY <1>1 DEF Types
<1> QED BY <1>2, ToolCallsAssumption DEF IInv, ResidentOK, WatcherOK, RunOK, CallerOK, Apart, At, Waiting, NoRun, NoCall

-----------------------------------------------------------------------------
(* Sequences *)

LEMMA RemoveAtElements ==
    ASSUME NEW S, NEW s \in Seq(S), NEW i \in 1 .. Len(s)
    PROVE /\ RemoveAt(s, i) \in Seq(S) /\ Len(RemoveAt(s, i)) = Len(s) - 1
          /\ \A j \in 1 .. Len(s) - 1 : RemoveAt(s, i)[j] = IF j < i THEN s[j] ELSE s[j + 1]
<1>1. PICK a \in Seq(S), b \in Seq(S) : a = SubSeq(s, 1, i - 1) /\ b = SubSeq(s, i + 1, Len(s))
  <2>1. SubSeq(s, 1, i - 1) \in Seq(S)
    OBVIOUS
  <2>2. SubSeq(s, i + 1, Len(s)) \in Seq(S)
    OBVIOUS
  <2> QED BY <2>1, <2>2
<1>2. a \in Seq(S) /\ Len(a) = i - 1 /\ \A j \in 1 .. i - 1 : a[j] = s[j]
  BY <1>1
<1>3. b \in Seq(S) /\ Len(b) = Len(s) - i /\ \A j \in 1 .. Len(s) - i : b[j] = s[i + j]
  BY <1>1
<1>4. RemoveAt(s, i) = a \o b
  BY <1>1 DEF RemoveAt
<1>5. a \o b \in Seq(S) /\ Len(a \o b) = Len(s) - 1
  <2>1. a \o b \in Seq(S)
    BY <1>2, <1>3
  <2>2. Len(a \o b) = Len(a) + Len(b)
    OBVIOUS
  <2>3. Len(s) \in Nat
    OBVIOUS
  <2>4. (i - 1) + (Len(s) - i) = Len(s) - 1
    BY <2>3
  <2> QED BY <1>2, <1>3, <2>1, <2>2, <2>4
<1>6. ASSUME NEW j \in 1 .. Len(s) - 1 PROVE (a \o b)[j] = IF j < i THEN s[j] ELSE s[j + 1]
  <2>1. CASE j < i
    <3>1. (a \o b)[j] = a[j]
      BY <1>2, <1>3, <2>1
    <3> QED BY <1>2, <2>1, <3>1
  <2>2. CASE j >= i
    <3>1. PICK k \in 1 .. Len(s) - i : k = j - (i - 1) /\ i + k = j + 1
      BY <2>2
    <3>2. (a \o b)[j] = b[k]
      BY <1>2, <1>3, <2>2, <3>1
    <3>3. b[k] = s[i + k]
      BY <1>3
    <3> QED BY <2>2, <3>1, <3>2, <3>3
  <2>3. Len(s) \in Nat /\ i \in Int /\ j \in Int
    OBVIOUS
  <2>4. j < i \/ j >= i
    BY <2>3
  <2> QED BY <2>1, <2>2, <2>4
<1> QED BY <1>4, <1>5, <1>6

LEMMA TailElements ==
    ASSUME NEW S, NEW s \in Seq(S), Len(s) > 0
    PROVE /\ Tail(s) \in Seq(S) /\ Len(Tail(s)) = Len(s) - 1
          /\ \A j \in 1 .. Len(s) - 1 : Tail(s)[j] = s[j + 1]
  OBVIOUS

\* What is left of the memo's entries, and what is new among them.
LEMMA RemovedIsApart ==
    ASSUME NEW s \in Seq(MemoEntry), NEW i \in DOMAIN s, Apart(s)
    PROVE /\ RemoveAt(s, i) \in Seq(MemoEntry) /\ Apart(RemoveAt(s, i))
          /\ \A j \in DOMAIN RemoveAt(s, i) : \E k \in DOMAIN s \ {i} : RemoveAt(s, i)[j] = s[k]
<1>0. i \in 1 .. Len(s)
  OBVIOUS
<1>1. PICK t \in Seq(MemoEntry) : t = RemoveAt(s, i)
  BY <1>0, RemoveAtElements
<1>2. Len(t) = Len(s) - 1 /\ \A j \in 1 .. Len(s) - 1 : t[j] = IF j < i THEN s[j] ELSE s[j + 1]
  BY <1>0, <1>1, RemoveAtElements
<1>3. DOMAIN s = 1 .. Len(s) /\ DOMAIN t = 1 .. Len(s) - 1 /\ Len(s) \in Nat /\ i \in Nat
  BY <1>2
<1>4. \A j \in DOMAIN t : (IF j < i THEN j ELSE j + 1) \in DOMAIN s \ {i}
  BY <1>3
<1>5. \A j \in DOMAIN t : t[j] = s[IF j < i THEN j ELSE j + 1]
  BY <1>2, <1>3
<1>6. \A j, k \in DOMAIN t : j # k => (IF j < i THEN j ELSE j + 1) # (IF k < i THEN k ELSE k + 1)
  BY <1>3
<1>7. Apart(t)
  BY <1>4, <1>5, <1>6 DEF Apart
<1> QED BY <1>1, <1>4, <1>5, <1>7

LEMMA TailIsApart ==
    ASSUME NEW s \in Seq(MemoEntry), Len(s) > 0, Apart(s)
    PROVE /\ Tail(s) \in Seq(MemoEntry) /\ Apart(Tail(s))
          /\ \A j \in DOMAIN Tail(s) : \E k \in DOMAIN s : Tail(s)[j] = s[k]
<1>1. PICK t \in Seq(MemoEntry) : t = Tail(s)
  BY TailElements
<1>2. Len(t) = Len(s) - 1 /\ \A j \in 1 .. Len(s) - 1 : t[j] = s[j + 1]
  BY <1>1, TailElements
<1>3. DOMAIN s = 1 .. Len(s) /\ DOMAIN t = 1 .. Len(s) - 1 /\ Len(s) \in Nat
  BY <1>2
<1>4. \A j \in DOMAIN t : j + 1 \in DOMAIN s /\ t[j] = s[j + 1]
  BY <1>2, <1>3
<1>5. \A j, k \in DOMAIN t : j # k => j + 1 # k + 1
  BY <1>3
<1>6. Apart(t)
  BY <1>4, <1>5 DEF Apart
<1> QED BY <1>1, <1>4, <1>6

LEMMA AppendedIsApart ==
    ASSUME NEW s \in Seq(MemoEntry), NEW e \in MemoEntry, Apart(s), \A j \in DOMAIN s : Distinct(s[j], e)
    PROVE /\ Append(s, e) \in Seq(MemoEntry) /\ Apart(Append(s, e)) /\ Len(Append(s, e)) > 0
          /\ \A j \in DOMAIN Append(s, e) : Append(s, e)[j] = e \/ \E k \in DOMAIN s : Append(s, e)[j] = s[k]
<1>1. PICK t \in Seq(MemoEntry) : t = Append(s, e)
  <2>1. Append(s, e) \in Seq(MemoEntry)
    OBVIOUS
  <2> QED BY <2>1
<1>2. /\ Len(t) = Len(s) + 1 /\ t[Len(s) + 1] = e /\ Len(s) \in Nat
      /\ \A j \in 1 .. Len(s) : t[j] = s[j]
  BY <1>1
<1>3. DOMAIN s = 1 .. Len(s) /\ DOMAIN t = 1 .. Len(s) + 1
  BY <1>2
<1>4. \A j \in DOMAIN t : (j \in DOMAIN s /\ t[j] = s[j]) \/ (j = Len(s) + 1 /\ t[j] = e)
  BY <1>2, <1>3
<1>5. \A j \in DOMAIN s : Distinct(e, s[j])
  BY DEF Distinct
<1>6. Apart(t)
  BY <1>4, <1>5 DEF Apart
<1> QED BY <1>1, <1>2, <1>4, <1>6

LEMMA ForgetElements ==
    ASSUME Types, Apart(memo), NEW S, Forget(S), S \subseteq DOMAIN memo
    PROVE /\ memo' \in Seq(MemoEntry) /\ Apart(memo)'
          /\ \A j \in DOMAIN memo' : \E k \in DOMAIN memo :
               memo'[j] = memo[k] /\ ((\A a, b \in S : a = b) => k \notin S)
<1>1. CASE S = {} /\ memo' = memo
  BY <1>1 DEF Types, Apart
<1>2. CASE \E i \in S : memo' = RemoveAt(memo, i)
  <2>0. PICK s \in Seq(MemoEntry) : s = memo
    BY DEF Types
  <2>1. PICK i \in DOMAIN s : s = memo /\ i \in S /\ memo' = RemoveAt(s, i)
    BY <1>2, <2>0
  <2>2. Apart(s)
    BY <2>1
  <2>3. /\ memo' \in Seq(MemoEntry) /\ Apart(RemoveAt(s, i))
        /\ \A j \in DOMAIN memo' : \E k \in DOMAIN s \ {i} : memo'[j] = s[k]
    BY <2>1, <2>2, RemovedIsApart
  <2>4. Apart(memo)'
    BY <2>1, <2>3 DEF Apart
  <2> QED BY <2>1, <2>3, <2>4
<1> QED BY <1>1, <1>2 DEF Forget

\* setCache has the new entry and some of the old ones.
LEMMA SetCacheElements ==
    ASSUME Types, NEW e \in CacheEntry
    PROVE /\ SetCache(e) \in Seq(CacheEntry)
          /\ \A i \in DOMAIN SetCache(e) : SetCache(e)[i] = e \/ \E k \in DOMAIN cache : SetCache(e)[i] = cache[k]
<1>1. PICK kept \in Seq(CacheEntry) :
        /\ kept = IF Len(cache) >= CacheMax THEN Tail(cache) ELSE cache
        /\ \A i \in DOMAIN kept : \E k \in DOMAIN cache : kept[i] = cache[k]
  <2>1. CASE Len(cache) >= CacheMax
    <3>1. PICK s \in Seq(CacheEntry) : s = cache
      BY DEF Types
    <3>2. Len(s) > 0
      BY <2>1, <3>1, ToolCallsAssumption
    <3>3. Tail(s) \in Seq(CacheEntry) /\ Len(Tail(s)) = Len(s) - 1 /\ \A j \in 1 .. Len(s) - 1 : Tail(s)[j] = s[j + 1]
      BY <3>2, TailElements
    <3>4. PICK t \in Seq(CacheEntry) : t = Tail(s)
      BY <3>3
    <3>5. DOMAIN s = 1 .. Len(s) /\ DOMAIN t = 1 .. Len(s) - 1 /\ Len(s) \in Nat
      BY <3>3, <3>4
    <3>6. \A i \in DOMAIN t : i + 1 \in DOMAIN s /\ t[i] = s[i + 1]
      BY <3>3, <3>4, <3>5
    <3> QED BY <2>1, <3>1, <3>4, <3>6
  <2>2. CASE ~ (Len(cache) >= CacheMax)
    BY <2>2 DEF Types
  <2> QED BY <2>1, <2>2
<1>2. CASE \E i \in DOMAIN kept : kept[i].key = e.key
  <2>1. SetCache(e) = [i \in DOMAIN kept |-> IF kept[i].key = e.key THEN e ELSE kept[i]]
    BY <1>1, <1>2 DEF SetCache
  <2>2. [i \in DOMAIN kept |-> IF kept[i].key = e.key THEN e ELSE kept[i]] \in Seq(CacheEntry)
    OBVIOUS
  <2>3. PICK t : t = [i \in DOMAIN kept |-> IF kept[i].key = e.key THEN e ELSE kept[i]]
    OBVIOUS
  <2>4. DOMAIN t = DOMAIN kept /\ \A i \in DOMAIN kept : t[i] = e \/ t[i] = kept[i]
    BY <2>3
  <2>5. \A i \in DOMAIN t : t[i] = e \/ \E k \in DOMAIN cache : t[i] = cache[k]
    BY <1>1, <2>4
  <2> QED BY <2>1, <2>2, <2>3, <2>5
<1>3. CASE ~ \E i \in DOMAIN kept : kept[i].key = e.key
  <2>1. SetCache(e) = Append(kept, e)
    BY <1>1, <1>3 DEF SetCache
  <2>2. Append(kept, e) \in Seq(CacheEntry)
    OBVIOUS
  <2>3. \A i \in DOMAIN Append(kept, e) : Append(kept, e)[i] = e \/ \E k \in DOMAIN kept : Append(kept, e)[i] = kept[k]
    OBVIOUS
  <2> QED BY <1>1, <2>1, <2>2, <2>3
<1> QED BY <1>2, <1>3

-----------------------------------------------------------------------------
(* Runs, callers and the memo's entries through a step *)

LEMMA Assemble ==
    ASSUME Types', ResidentOK', WatcherOK', \A r \in Runs : RunOK(r)', \A c \in Callers : CallerOK(c)',
           \A i \in DOMAIN cache' : CacheOK(cache[i])', \A i \in DOMAIN memo' : MemoOK(memo[i])', Apart(memo)'
    PROVE IInv'
  BY DEF IInv

LEMMA NoRunType == NoRun \in RunSet /\ NoRun.at = "idle" /\ NoRun.key = Index /\ NoRun.ver = 0
  BY DEF NoRun, RunSet, Phases, Keys

LEMMA CrossMoves ==
    ASSUME NEW new \in [Runs -> RunSet], run' = Cross(new)
    PROVE /\ run' \in [Runs -> RunSet]
          /\ \A r \in Runs : /\ run'[r].at = new[r].at /\ run'[r].key = new[r].key
                             /\ run'[r].ver = new[r].ver /\ run'[r].given = new[r].given
                             /\ run'[r].key # Index => run'[r].crossed
<1>1. ASSUME NEW r \in Runs
      PROVE /\ run'[r] \in RunSet /\ run'[r].at = new[r].at /\ run'[r].key = new[r].key
            /\ run'[r].ver = new[r].ver /\ run'[r].given = new[r].given
            /\ run'[r].key # Index => run'[r].crossed
  <2>1. CASE new[r].key = Index
    BY <2>1 DEF Cross
  <2>2. CASE new[r].key # Index
    <3>1. run'[r] = [new[r] EXCEPT !.crossed = TRUE]
      BY <2>2 DEF Cross
    <3> QED BY <3>1 DEF RunSet
  <2> QED BY <2>1, <2>2
<1>2. run' = [r \in Runs |-> run'[r]]
  BY DEF Cross
<1> QED BY <1>1, <1>2

\* Whoever waited for r has an answer, and one that will do.
LEMMA AnsweredMoves ==
    ASSUME IInv, NEW r \in Runs, NEW data \in BOOLEAN, Answered(r, data), data => At(r, "read")
    PROVE /\ caller' \in [Callers -> CallerSet]
          /\ \A c \in Callers : /\ caller[c].run # r => caller'[c] = caller[c]
                                /\ caller[c].run = r => caller'[c].run = None /\ caller'[c].fresh
<1>1. ASSUME NEW c \in Callers
      PROVE /\ caller'[c] \in CallerSet
            /\ caller[c].run # r => caller'[c] = caller[c]
            /\ caller[c].run = r => caller'[c].run = None /\ caller'[c].fresh
  <2>1. CASE caller[c].run # r
    BY <2>1 DEF Answered, IInv, Types
  <2>2. CASE caller[c].run = r /\ ~data
    <3>1. caller'[c] = NoCall
      BY <2>2 DEF Answered
    <3> QED BY <2>2, <3>1 DEF NoCall, CallerSet
  <2>3. CASE caller[c].run = r /\ data
    <3>1. caller'[c] = Given(caller[c].floor, run[r].ver, run[r].crossed)
      BY <2>3 DEF Answered
    <3>2. caller[c].floor <= mine /\ (run[r].crossed \/ mine <= run[r].ver)
      BY <2>3, ToolCallsAssumption DEF IInv, CallerOK, RunOK, Waiting
    <3>3. run[r].ver \in Nat /\ caller[c].floor \in Nat /\ mine \in Nat /\ run[r].crossed \in BOOLEAN
      BY DEF IInv, Types, RunSet, CallerSet
    <3>4. run[r].crossed \/ run[r].ver >= caller[c].floor
      BY <3>2, <3>3
    <3>5. Given(caller[c].floor, run[r].ver, run[r].crossed) = [run |-> None, floor |-> 0, fresh |-> TRUE]
      BY <3>4 DEF Given
    <3> QED BY <2>3, <3>1, <3>5 DEF CallerSet
  <2> QED BY <2>1, <2>2, <2>3
<1>2. caller' = [c \in Callers |-> caller'[c]]
  BY DEF Answered
<1> QED BY <1>1, <1>2

\* What a step may do to writes, and to the run an entry waits for.
WritesStay ==
    /\ rows' \in Nat /\ rows <= rows' /\ mine' = mine /\ run' \in [Runs -> RunSet]
    /\ \A r \in Runs : run'[r].at \in {"committed", "dropped"} =>
         (run[r].at \in {"committed", "dropped"} /\ run'[r].ver = run[r].ver) \/ rows < run'[r].ver
    /\ watcher' \in Nat \cup {None}
    /\ watcher' # None => watcher' = watcher \/ rows < watcher'
RunStays(e) ==
    e.run # None =>
      /\ run'[e.run].at \in {"started", "read", "hung"} /\ run'[e.run].key = run[e.run].key
      /\ run[e.run].crossed => run'[e.run].crossed
      /\ run'[e.run].given => run[e.run].given \/ e.token < rows'

LEMMA EntryStays ==
    ASSUME Types, NEW e \in MemoEntry, MemoOK(e), WritesStay, RunStays(e)
    PROVE MemoOK(e)'
<1>1. e.token \in Nat /\ rows \in Nat /\ e.token <= rows /\ e.token <= rows'
  BY DEF Types, MemoEntry, MemoOK, WritesStay
<1>2. Before(e.token) => Before(e.token)'
  <2>1. ASSUME Before(e.token), NEW r \in Runs, run'[r].at \in {"committed", "dropped"} PROVE e.token < run'[r].ver
    BY <1>1, <2>1 DEF Before, WritesStay, Writing, RunSet
  <2>2. ASSUME Before(e.token), watcher' # None PROVE e.token < watcher'
    BY <1>1, <2>2 DEF Before, WritesStay
  <2> QED BY <2>1, <2>2 DEF Before, Writing
<1> QED BY <1>1, <1>2 DEF MemoOK, WritesStay, RunStays

LEMMA MemoStays ==
    ASSUME IInv, WritesStay, memo' \in Seq(MemoEntry),
           \A i \in DOMAIN memo' : \E k \in DOMAIN memo : memo'[i] = memo[k] /\ RunStays(memo[k])
    PROVE \A i \in DOMAIN memo' : MemoOK(memo[i])'
<1> SUFFICES ASSUME NEW i \in DOMAIN memo' PROVE MemoOK(memo[i])'
  OBVIOUS
<1>1. PICK k \in DOMAIN memo : memo'[i] = memo[k] /\ RunStays(memo[k])
  OBVIOUS
<1>2. PICK e \in MemoEntry : e = memo'[i]
  OBVIOUS
<1>3. MemoOK(e)
  BY <1>1, <1>2 DEF IInv
<1>4. RunStays(e)
  BY <1>1, <1>2
<1>5. MemoOK(e)'
  BY <1>3, <1>4, EntryStays DEF IInv
<1> QED BY <1>2, <1>5 DEF MemoOK, Before

\* The memo is left alone, and the runs its entries wait for go on.
LEMMA MemoKept ==
    ASSUME IInv, WritesStay, memo' = memo, \A k \in DOMAIN memo : RunStays(memo[k])
    PROVE (\A i \in DOMAIN memo' : MemoOK(memo[i])') /\ Apart(memo)'
<1>1. memo' \in Seq(MemoEntry)
  BY DEF IInv, Types
<1>2. \A i \in DOMAIN memo' : \E k \in DOMAIN memo : memo'[i] = memo[k] /\ RunStays(memo[k])
  OBVIOUS
<1>3. \A i \in DOMAIN memo' : MemoOK(memo[i])'
  BY <1>1, <1>2, MemoStays
<1> QED BY <1>3 DEF IInv, Apart

\* The runs entries wait for.
LEMMA EntryRuns ==
    ASSUME IInv, NEW k \in DOMAIN memo, memo[k].run # None
    PROVE /\ memo[k].run \in Runs /\ run[memo[k].run].at \in {"started", "read", "hung"}
          /\ run[memo[k].run].key = memo[k].key /\ memo[k].key \in Audits /\ memo[k].key # Index
<1>1. PICK e \in MemoEntry : e = memo[k]
  BY DEF IInv, Types
<1>2. e.run \in Runs /\ e.key \in Audits
  BY <1>1 DEF MemoEntry
<1>3. MemoOK(e)
  BY <1>1 DEF IInv
<1> QED BY <1>1, <1>2, <1>3, ToolCallsAssumption DEF MemoOK

LEMMA CacheKept == ASSUME IInv, cache' = cache, done' = done PROVE \A i \in DOMAIN cache' : CacheOK(cache[i])'
  BY DEF IInv, CacheOK

\* Nobody's call is answered, no run ends.
LEMMA CallersWait ==
    ASSUME IInv, caller' = caller, mine' = mine, \A r \in Runs : run'[r].at = "idle" => run[r].at = "idle"
    PROVE \A c \in Callers : CallerOK(c)'
  BY DEF IInv, Types, CallerSet, CallerOK, Waiting, At

LEMMA ReadsStep == ASSUME IInv, NEW r \in Runs, Reads(r) PROVE IInv'
<1> USE DEF Reads
<1>1. /\ resident' \in Nat /\ mine <= resident' /\ resident' <= rows
      /\ \A s \in Runs : At(s, "dropped") => run[s].ver <= resident'
  BY ToolCallsAssumption DEF IInv, Types, ResidentOK, RunOK
<1>2. run[r] \in RunSet /\ run[r].key # Index /\ run[r].at = "started"
  BY DEF IInv, Types, At
<1>3. PICK new \in RunSet : new = [run[r] EXCEPT !.at = "read", !.ver = resident']
  BY <1>1, <1>2 DEF RunSet, Phases
<1>4. /\ new.at = "read" /\ new.ver = resident' /\ new.key = run[r].key
      /\ new.crossed = run[r].crossed /\ new.given = run[r].given
  BY <1>2, <1>3 DEF RunSet
<1>5. run'[r] = new /\ run' \in [Runs -> RunSet] /\ \A s \in Runs \ {r} : run'[s] = run[s]
  BY <1>3 DEF IInv, Types
<1>6. Types'
  BY <1>1, <1>5 DEF IInv, Types
<1>7. ResidentOK' /\ WatcherOK'
  <2>1. \A s \in Runs : At(s, "dropped")' => At(s, "dropped") /\ run'[s].ver = run[s].ver
    BY <1>4, <1>5 DEF At
  <2> QED BY <1>1, <2>1 DEF IInv, ResidentOK, WatcherOK
<1>8. \A s \in Runs : RunOK(s)'
  BY <1>1, <1>2, <1>4, <1>5 DEF IInv, RunOK, At
<1>9. \A c \in Callers : CallerOK(c)'
  BY <1>2, <1>4, <1>5, CallersWait
<1>10. WritesStay
  BY <1>4, <1>5 DEF IInv, Types, WritesStay
<1>11. \A k \in DOMAIN memo : RunStays(memo[k])
  BY <1>4, <1>5, EntryRuns DEF RunStays
<1>12. (\A i \in DOMAIN memo' : MemoOK(memo[i])') /\ Apart(memo)'
  BY <1>10, <1>11, MemoKept
<1> QED BY <1>6, <1>7, <1>8, <1>9, <1>12, CacheKept, Assemble

LEMMA HangsStep == ASSUME IInv, NEW r \in Runs, Hangs(r) PROVE IInv'
<1> USE DEF Hangs
<1>1. run[r] \in RunSet /\ run[r].key # Index /\ run[r].at = "started"
  BY DEF IInv, Types, At
<1>2. /\ run' \in [Runs -> RunSet] /\ \A s \in Runs \ {r} : run'[s] = run[s]
      /\ run'[r].at = "hung" /\ run'[r].ver = run[r].ver /\ run'[r].key = run[r].key
      /\ run'[r].crossed = run[r].crossed /\ run'[r].given = run[r].given
  BY <1>1 DEF IInv, Types, Go, RunSet, Phases
<1>3. Types'
  BY <1>2 DEF IInv, Types
<1>4. ResidentOK' /\ WatcherOK'
  <2>1. \A s \in Runs : At(s, "dropped")' => At(s, "dropped") /\ run'[s].ver = run[s].ver
    BY <1>2 DEF At
  <2> QED BY <2>1 DEF IInv, ResidentOK, WatcherOK
<1>5. \A s \in Runs : RunOK(s)'
  BY <1>1, <1>2 DEF IInv, RunOK, At
<1>6. \A c \in Callers : CallerOK(c)'
  BY <1>2, CallersWait
<1>7. WritesStay
  BY <1>2 DEF IInv, Types, WritesStay
<1>8. \A k \in DOMAIN memo : RunStays(memo[k])
  BY <1>2, EntryRuns DEF RunStays
<1>9. (\A i \in DOMAIN memo' : MemoOK(memo[i])') /\ Apart(memo)'
  BY <1>7, <1>8, MemoKept
<1> QED BY <1>3, <1>4, <1>5, <1>6, <1>9, CacheKept, Assemble

LEMMA CommitsStep == ASSUME IInv, NEW r \in Runs, Commits(r) PROVE IInv'
<1>0. /\ run' = Cross([run EXCEPT ![r].at = "committed", ![r].ver = rows'])
      /\ UNCHANGED <<resident, watcher, cache, memo, caller, done, mine>>
  BY DEF Commits
<1>1. /\ run[r] \in RunSet /\ run[r].key = Index /\ run[r].at = "started"
      /\ rows \in Nat /\ rows' = rows + 1 /\ rows' \in Nat /\ rows <= rows' /\ rows < rows'
  BY DEF Commits, IInv, Types, At
<1>2. PICK new \in [Runs -> RunSet] : new = [run EXCEPT ![r] = [run[r] EXCEPT !.at = "committed", !.ver = rows']]
  <2>1. [run[r] EXCEPT !.at = "committed", !.ver = rows'] \in RunSet
    BY <1>1 DEF RunSet, Phases
  <2> QED BY <2>1 DEF IInv, Types
<1>3. /\ new[r].at = "committed" /\ new[r].ver = rows' /\ new[r].key = Index
      /\ \A s \in Runs \ {r} : new[s] = run[s]
  <2>1. new[r] = [run[r] EXCEPT !.at = "committed", !.ver = rows']
    BY <1>2 DEF IInv, Types
  <2> QED BY <1>1, <1>2, <2>1 DEF IInv, Types, RunSet
<1>4. /\ run' \in [Runs -> RunSet]
      /\ \A s \in Runs : /\ run'[s].at = new[s].at /\ run'[s].key = new[s].key
                         /\ run'[s].ver = new[s].ver /\ run'[s].given = new[s].given
                         /\ run'[s].key # Index => run'[s].crossed
  <2>1. run' = Cross(new)
    BY <1>0, <1>2
  <2> QED BY <2>1, CrossMoves
<1>a. mine <= rows' /\ (resident # None => resident <= rows') /\ (watcher # None => watcher <= rows')
  <2>1. mine <= rows'
    BY <1>1 DEF IInv, Types
  <2>2. \A v \in Nat : v <= rows => v <= rows'
    BY <1>1
  <2> QED BY <2>1, <2>2 DEF IInv, Types, ResidentOK, WatcherOK
<1>5. Types'
  <2>1. run' \in [Runs -> RunSet]
    BY <1>4
  <2> QED BY <1>0, <1>1, <1>a, <2>1 DEF IInv, Types
<1>6. ResidentOK' /\ WatcherOK'
  <2>1. \A s \in Runs : At(s, "dropped")' => At(s, "dropped") /\ run'[s].ver = run[s].ver
    BY <1>3, <1>4 DEF At
  <2> QED BY <1>0, <1>a, <2>1 DEF IInv, ResidentOK, WatcherOK
<1>7. \A s \in Runs : RunOK(s)'
  <2>0. mine' = mine
    BY <1>0
  <2>1. ASSUME NEW s \in Runs PROVE RunOK(s)'
    <3>1. CASE s = r
      BY <1>1, <1>3, <1>4, <2>0, <3>1 DEF RunOK, At
    <3>2. CASE s # r
      <4>1. RunOK(s) /\ run[s].ver \in Nat
        BY DEF IInv, Types, RunSet
      <4>2. run[s].ver <= rows'
        BY <1>1, <4>1 DEF RunOK
      <4> QED BY <1>3, <1>4, <2>0, <3>2, <4>1, <4>2 DEF RunOK, At
    <3> QED BY <3>1, <3>2
  <2> QED BY <2>1
<1>8. \A c \in Callers : CallerOK(c)'
  BY <1>0, <1>3, <1>4, CallersWait
<1>9. WritesStay
  <2>1. \A s \in Runs : run'[s].at \in {"committed", "dropped"} =>
          (run[s].at \in {"committed", "dropped"} /\ run'[s].ver = run[s].ver) \/ rows < run'[s].ver
    <3>1. run'[r].ver = rows'
      BY <1>3, <1>4
    <3> QED BY <1>1, <1>3, <1>4, <3>1
  <2>2. watcher' \in Nat \cup {None}
    BY <1>0 DEF IInv, Types
  <2>3. run' \in [Runs -> RunSet]
    BY <1>4
  <2> QED BY <1>0, <1>1, <2>1, <2>2, <2>3 DEF WritesStay
<1>10. \A k \in DOMAIN memo : RunStays(memo[k])
  <2> SUFFICES ASSUME NEW k \in DOMAIN memo, memo[k].run # None PROVE RunStays(memo[k])
    BY DEF RunStays
  <2>1. /\ memo[k].run \in Runs /\ run[memo[k].run].at \in {"started", "read", "hung"}
        /\ run[memo[k].run].key # Index
    BY EntryRuns
  <2>2. memo[k].run # r
    BY <1>1, <2>1
  <2> QED BY <1>3, <1>4, <2>1, <2>2 DEF RunStays
<1>11. (\A i \in DOMAIN memo' : MemoOK(memo[i])') /\ Apart(memo)'
  BY <1>0, <1>9, <1>10, MemoKept
<1> QED BY <1>0, <1>5, <1>6, <1>7, <1>8, <1>11, CacheKept, Assemble

LEMMA DropsStep == ASSUME IInv, NEW r \in Runs, Drops(r) PROVE IInv'
<1> USE DEF Drops
<1>1. run[r] \in RunSet /\ run[r].key = Index /\ run[r].at = "committed"
  BY DEF IInv, Types, At, RunOK
<1>2. /\ run' \in [Runs -> RunSet] /\ \A s \in Runs \ {r} : run'[s] = run[s]
      /\ run'[r].at = "dropped" /\ run'[r].ver = run[r].ver /\ run'[r].key = run[r].key
      /\ run'[r].crossed = run[r].crossed /\ run'[r].given = run[r].given
  BY <1>1 DEF IInv, Types, Go, RunSet, Phases
<1>3. Types'
  BY <1>2 DEF IInv, Types
<1>4. ResidentOK' /\ WatcherOK'
  BY DEF IInv, ResidentOK, WatcherOK
<1>5. \A s \in Runs : RunOK(s)'
  BY <1>1, <1>2 DEF IInv, RunOK, At
<1>6. \A c \in Callers : CallerOK(c)'
  BY <1>2, CallersWait
<1>7. WritesStay
  BY <1>1, <1>2 DEF IInv, Types, WritesStay
<1>8. \A k \in DOMAIN memo : RunStays(memo[k])
  BY <1>1, <1>2, EntryRuns DEF RunStays
<1>9. (\A i \in DOMAIN memo' : MemoOK(memo[i])') /\ Apart(memo)'
  BY <1>7, <1>8, MemoKept
<1> QED BY <1>3, <1>4, <1>5, <1>6, <1>9, CacheKept, Assemble

LEMMA CrossAll ==
    ASSUME IInv, run' = Cross(run)
    PROVE /\ run' \in [Runs -> RunSet]
          /\ \A r \in Runs : /\ run'[r].at = run[r].at /\ run'[r].key = run[r].key
                             /\ run'[r].ver = run[r].ver /\ run'[r].given = run[r].given
                             /\ run'[r].key # Index => run'[r].crossed
<1>1. PICK new \in [Runs -> RunSet] : new = run
  BY DEF IInv, Types
<1>2. run' = Cross(new)
  BY <1>1
<1> QED BY <1>1, <1>2, CrossMoves

\* A commit outside the calls: rows go on, what is in memory stays.
LEMMA WatcherCommitsStep == ASSUME IInv, WatcherCommits PROVE IInv'
<1>1. /\ run' = Cross(run) /\ watcher = None /\ watcher' = rows'
      /\ rows \in Nat /\ rows' = rows + 1 /\ rows' \in Nat /\ rows <= rows' /\ rows < rows'
      /\ UNCHANGED <<resident, cache, memo, caller, done, mine>>
  BY DEF WatcherCommits, IInv, Types
<1>2. /\ run' \in [Runs -> RunSet]
      /\ \A r \in Runs : /\ run'[r].at = run[r].at /\ run'[r].key = run[r].key
                         /\ run'[r].ver = run[r].ver /\ run'[r].given = run[r].given
                         /\ run'[r].key # Index => run'[r].crossed
  BY <1>1, CrossAll
<1>3. \A v \in Nat : v <= rows => v <= rows'
  BY <1>1
<1>4. Types'
  BY <1>1, <1>2, <1>3 DEF IInv, Types
<1>5. ResidentOK' /\ WatcherOK'
  <2>1. resident # None => resident <= rows'
    BY <1>3 DEF IInv, Types, ResidentOK
  <2>2. rows' <= rows'
    BY <1>1
  <2> QED BY <1>1, <1>2, <2>1, <2>2 DEF IInv, ResidentOK, WatcherOK, At
<1>6. \A r \in Runs : RunOK(r)'
  <2>1. \A r \in Runs : run[r].ver <= rows'
    BY <1>3 DEF IInv, Types, RunSet, RunOK
  <2> QED BY <1>1, <1>2, <2>1 DEF IInv, RunOK, At
<1>7. \A c \in Callers : CallerOK(c)'
  BY <1>1, <1>2, CallersWait
<1>8. WritesStay
  BY <1>1, <1>2 DEF IInv, Types, WritesStay
<1>9. \A k \in DOMAIN memo : RunStays(memo[k])
  BY <1>2, EntryRuns DEF RunStays
<1>10. (\A i \in DOMAIN memo' : MemoOK(memo[i])') /\ Apart(memo)'
  BY <1>1, <1>8, <1>9, MemoKept
<1> QED BY <1>1, <1>4, <1>5, <1>6, <1>7, <1>10, CacheKept, Assemble

LEMMA OutsideCommitsStep == ASSUME IInv, OutsideCommits PROVE IInv'
<1>1. /\ rows \in Nat /\ rows' = rows + 1 /\ rows' \in Nat /\ rows <= rows'
      /\ UNCHANGED <<resident, watcher, cache, memo, run, caller, done, mine>>
  BY DEF OutsideCommits, IInv, Types
<1>2. \A v \in Nat : v <= rows => v <= rows'
  BY <1>1
<1>3. Types'
  BY <1>1, <1>2 DEF IInv, Types
<1>4. ResidentOK' /\ WatcherOK'
  <2>1. (resident # None => resident <= rows') /\ (watcher # None => watcher <= rows')
    BY <1>2 DEF IInv, Types, ResidentOK, WatcherOK
  <2> QED BY <1>1, <2>1 DEF IInv, ResidentOK, WatcherOK, At
<1>5. \A r \in Runs : RunOK(r)'
  <2>1. \A r \in Runs : run[r].ver <= rows'
    BY <1>2 DEF IInv, Types, RunSet, RunOK
  <2> QED BY <1>1, <2>1 DEF IInv, RunOK, At
<1>6. \A c \in Callers : CallerOK(c)'
  BY <1>1, CallersWait
<1>7. WritesStay
  BY <1>1 DEF IInv, Types, WritesStay
<1>8. \A k \in DOMAIN memo : RunStays(memo[k])
  BY <1>1, EntryRuns DEF RunStays
<1>9. (\A i \in DOMAIN memo' : MemoOK(memo[i])') /\ Apart(memo)'
  BY <1>1, <1>7, <1>8, MemoKept
<1> QED BY <1>1, <1>3, <1>4, <1>5, <1>6, <1>9, CacheKept, Assemble

\* Nothing changes but what is remembered, and that is forgotten.
LEMMA NothingMoves ==
    ASSUME IInv, UNCHANGED <<rows, watcher, memo, run, caller, done, mine>>
    PROVE /\ WatcherOK' /\ (\A r \in Runs : RunOK(r)') /\ (\A c \in Callers : CallerOK(c)')
          /\ (\A i \in DOMAIN memo' : MemoOK(memo[i])') /\ Apart(memo)'
<1>1. WatcherOK' /\ \A r \in Runs : RunOK(r)'
  BY DEF IInv, WatcherOK, RunOK, At
<1>2. \A c \in Callers : CallerOK(c)'
  BY CallersWait
<1>3. WritesStay
  BY DEF IInv, Types, WritesStay
<1>4. \A k \in DOMAIN memo : RunStays(memo[k])
  BY EntryRuns DEF RunStays
<1>5. (\A i \in DOMAIN memo' : MemoOK(memo[i])') /\ Apart(memo)'
  BY <1>3, <1>4, MemoKept
<1> QED BY <1>1, <1>2, <1>5

LEMMA EvictsStep == ASSUME IInv, Evicts PROVE IInv'
<1>1. resident' = None /\ UNCHANGED <<rows, watcher, cache, memo, run, caller, done, mine>>
  BY DEF Evicts
<1>2. Types' /\ ResidentOK'
  BY <1>1 DEF IInv, Types, ResidentOK
<1> QED BY <1>1, <1>2, NothingMoves, CacheKept, Assemble

LEMMA ExpiresStep == ASSUME IInv, Expires PROVE IInv'
<1>1. UNCHANGED <<rows, resident, watcher, memo, run, caller, done, mine>>
  BY DEF Expires
<1>2. PICK s \in Seq(CacheEntry) : s = cache
  BY DEF IInv, Types
<1>3. PICK i \in 1 .. Len(s) : cache' = RemoveAt(s, i)
  BY <1>2 DEF Expires
<1>4. /\ cache' \in Seq(CacheEntry) /\ Len(cache') = Len(s) - 1
      /\ \A j \in 1 .. Len(s) - 1 : cache'[j] = IF j < i THEN s[j] ELSE s[j + 1]
  BY <1>3, RemoveAtElements
<1>5. DOMAIN s = 1 .. Len(s) /\ DOMAIN cache' = 1 .. Len(s) - 1 /\ Len(s) \in Nat
  BY <1>4
<1>6. \A j \in DOMAIN cache' : \E k \in DOMAIN s : cache'[j] = s[k]
  <2>1. \A j \in 1 .. Len(s) - 1 : j \in DOMAIN s /\ j + 1 \in DOMAIN s
    BY <1>5
  <2>2. \A j \in 1 .. Len(s) - 1 : cache'[j] = s[j] \/ cache'[j] = s[j + 1]
    BY <1>4
  <2> QED BY <1>5, <2>1, <2>2
<1>7. \A j \in DOMAIN cache' : CacheOK(cache[j])'
  BY <1>1, <1>2, <1>6 DEF IInv, CacheOK
<1>8. Types' /\ ResidentOK'
  BY <1>1, <1>4 DEF IInv, Types, ResidentOK, At
<1> QED BY <1>1, <1>7, <1>8, NothingMoves, Assemble

LEMMA LaterIs == ASSUME NEW a \in Nat, NEW b \in Nat PROVE Later(a, b) \in Nat /\ a <= Later(a, b) /\ b <= Later(a, b) /\ Later(a, b) \in {a, b}
  BY DEF Later

\* A write of this process is over.  Everything that runs is crossed, and what the memo
\* has was asked for under an older version, or is as new.
LEMMA WriteOver ==
    ASSUME IInv, NEW new \in [Runs -> RunSet], run' = Cross(new), NEW v \in Nat, mine' = Later(v, mine),
           UNCHANGED <<rows, memo>>, watcher' = watcher \/ watcher' = None, watcher' \in Nat \cup {None},
           \A r \in Runs : new[r] = run[r] \/ (run[r].key = Index /\ new[r] = NoRun),
           v = 0 \/ v = watcher \/ \E r \in Writing : v = run[r].ver
    PROVE /\ (\A r \in Runs : RunOK(r)')
          /\ (\A i \in DOMAIN memo' : MemoOK(memo[i])') /\ Apart(memo)'
<1>1. /\ run' \in [Runs -> RunSet]
      /\ \A r \in Runs : /\ run'[r].at = new[r].at /\ run'[r].key = new[r].key
                         /\ run'[r].ver = new[r].ver /\ run'[r].given = new[r].given
                         /\ run'[r].key # Index => run'[r].crossed
  BY CrossMoves
<1>2. mine \in Nat /\ mine' \in Nat /\ v <= mine' /\ mine <= mine' /\ mine' \in {v, mine}
  BY LaterIs DEF IInv, Types
<1>3. \A r \in Runs : RunOK(r)'
  <2>1. ASSUME NEW r \in Runs, new[r] = run[r] PROVE RunOK(r)'
    BY <1>1, <2>1 DEF IInv, RunOK, At
  <2>2. ASSUME NEW r \in Runs, new[r] = NoRun PROVE RunOK(r)'
    <3>1. rows \in Nat /\ 0 <= rows
      BY DEF IInv, Types
    <3> QED BY <1>1, <2>2, <3>1, NoRunType DEF RunOK, At
  <2> QED BY <2>1, <2>2
<1>4. ASSUME NEW i \in DOMAIN memo PROVE MemoOK(memo[i])'
  <2>1. PICK e \in MemoEntry : e = memo[i]
    BY DEF IInv, Types
  <2>2. MemoOK(e) /\ e.token \in Nat /\ e.ver \in Nat
    BY <2>1 DEF IInv, MemoEntry
  <2>3. Before(e.token) => Before(e.token)'
    <3>1. \A r \in Runs : run'[r].at \in {"committed", "dropped"} => run[r].at \in {"committed", "dropped"} /\ run'[r].ver = run[r].ver
      BY <1>1, NoRunType
    <3> QED BY <3>1 DEF Before, Writing
  <2>4. Before(e.token) => e.token < v \/ v = 0 \/ v = watcher
    BY DEF Before
  <2>5. Before(e.token) /\ (e.token < mine \/ mine <= e.ver) => e.token < mine' \/ mine' <= e.ver
    <3>1. CASE mine' = mine
      BY <3>1
    <3>2. CASE mine' = v /\ v # mine
      <4>1. v > mine /\ v # 0
        BY <1>2, <3>2
      <4>2. Before(e.token) => e.token < v
        BY <2>4, <4>1, ToolCallsAssumption DEF Before
      <4> QED BY <3>2, <4>2
    <3> QED BY <1>2, <3>1, <3>2
  <2>6. e.run # None =>
          /\ run'[e.run].at = run[e.run].at /\ run'[e.run].key = run[e.run].key
          /\ run'[e.run].crossed /\ run'[e.run].given = run[e.run].given
    <3>1. SUFFICES ASSUME e.run # None
                   PROVE /\ run'[e.run].at = run[e.run].at /\ run'[e.run].key = run[e.run].key
                         /\ run'[e.run].crossed /\ run'[e.run].given = run[e.run].given
      OBVIOUS
    <3>2. e.run \in Runs /\ run[e.run].key # Index
      BY <2>1, <3>1, EntryRuns
    <3> QED BY <1>1, <3>2
  <2>7. MemoOK(e)'
    BY <2>2, <2>3, <2>5, <2>6 DEF MemoOK
  <2> QED BY <2>1, <2>7 DEF MemoOK, Before
<1> QED BY <1>3, <1>4 DEF IInv, Apart

LEMMA ReturnsStep == ASSUME IInv, NEW r \in Runs, Returns(r) PROVE IInv'
<1>1. PICK v \in Nat : v = run[r].ver
  BY DEF IInv, Types, RunSet
<1>2. PICK new \in [Runs -> RunSet] : new = [run EXCEPT ![r] = NoRun]
  BY NoRunType DEF IInv, Types
<1>3. new[r] = NoRun /\ \A s \in Runs \ {r} : new[s] = run[s]
  BY <1>2 DEF IInv, Types
<1>4. /\ run' = Cross(new) /\ mine' = Later(v, mine) /\ done' = Later(v, done) /\ cache' = <<>>
      /\ UNCHANGED <<rows, resident, watcher, memo>> /\ run[r].key = Index
  BY <1>1, <1>2 DEF Returns, IInv, RunOK, At
<1>5. (r \in Writing \/ v = 0) /\ (At(r, "dropped") \/ v = 0)
  BY <1>1 DEF Returns, IInv, RunOK, At, Writing
<1>6. /\ (\A s \in Runs : RunOK(s)')
      /\ (\A i \in DOMAIN memo' : MemoOK(memo[i])') /\ Apart(memo)'
  <2>1. watcher' \in Nat \cup {None}
    BY <1>4 DEF IInv, Types
  <2>2. \A s \in Runs : new[s] = run[s] \/ (run[s].key = Index /\ new[s] = NoRun)
    BY <1>3, <1>4
  <2>3. v = 0 \/ v = watcher \/ \E s \in Writing : v = run[s].ver
    BY <1>1, <1>5
  <2> QED BY <1>4, <2>1, <2>2, <2>3, WriteOver
<1>7. /\ run' \in [Runs -> RunSet]
      /\ \A s \in Runs : run'[s].at = new[s].at /\ run'[s].ver = new[s].ver
  BY <1>4, CrossMoves
<1>8. /\ caller' \in [Callers -> CallerSet]
      /\ \A c \in Callers : /\ caller[c].run # r => caller'[c] = caller[c]
                            /\ caller[c].run = r => caller'[c].run = None /\ caller'[c].fresh
  <2>1. PICK data \in BOOLEAN : data = FALSE
    OBVIOUS
  <2>2. Answered(r, data)
    BY <2>1 DEF Returns
  <2> QED BY <2>1, <2>2, AnsweredMoves
<1>9. /\ mine \in Nat /\ done \in Nat /\ mine' \in Nat /\ done' \in Nat /\ done' <= mine' /\ mine <= mine'
      /\ mine' \in {v, mine} /\ mine' <= rows
  <2>1. done <= mine /\ mine <= rows /\ v <= rows /\ done \in Nat /\ mine \in Nat /\ rows \in Nat
    BY <1>1 DEF IInv, Types, RunOK
  <2> QED BY <1>4, <2>1 DEF Later
<1>10. Types'
  BY <1>4, <1>7, <1>8, <1>9 DEF IInv, Types
<1>11. ResidentOK' /\ WatcherOK'
  <2>1. \A s \in Runs : At(s, "dropped")' => At(s, "dropped") /\ run'[s].ver = run[s].ver
    BY <1>3, <1>7, NoRunType DEF At
  <2>2. resident # None => mine' <= resident
    <3>1. CASE v = 0
      BY <1>9, <3>1 DEF IInv, Types, ResidentOK
    <3>2. CASE At(r, "dropped")
      BY <1>1, <1>9, <3>2 DEF IInv, ResidentOK
    <3> QED BY <1>5, <3>1, <3>2
  <2> QED BY <1>4, <2>1, <2>2 DEF IInv, ResidentOK, WatcherOK
<1>12. \A c \in Callers : CallerOK(c)'
  <2>1. ASSUME NEW c \in Callers, caller[c].run = r PROVE CallerOK(c)'
    BY <1>8, <2>1 DEF CallerOK, Waiting
  <2>2. ASSUME NEW c \in Callers, caller[c].run # r PROVE CallerOK(c)'
    <3>1. caller'[c] = caller[c] /\ caller[c].run \in Runs \cup {None} /\ caller[c].floor \in Nat
      BY <1>8, <2>2 DEF IInv, Types, CallerSet
    <3>2. Waiting(c) => run'[caller[c].run].at = run[caller[c].run].at
      BY <1>3, <1>7, <2>2, <3>1 DEF Waiting
    <3>3. CallerOK(c)
      BY DEF IInv
    <3>4. caller[c].floor <= mine => caller[c].floor <= mine'
      BY <1>9, <3>1
    <3> QED BY <3>1, <3>2, <3>3, <3>4 DEF CallerOK, Waiting, At
  <2> QED BY <2>1, <2>2
<1>13. \A i \in DOMAIN cache' : CacheOK(cache[i])'
  BY <1>4
<1> QED BY <1>6, <1>10, <1>11, <1>12, <1>13, Assemble

LEMMA WatcherDropsStep == ASSUME IInv, WatcherDrops PROVE IInv'
<1>1. PICK v \in Nat : v = watcher
  BY DEF WatcherDrops, IInv, Types
<1>2. PICK new \in [Runs -> RunSet] : new = run
  BY DEF IInv, Types
<1>3. /\ run' = Cross(new) /\ mine' = Later(v, mine) /\ watcher' = None /\ resident' = None
      /\ UNCHANGED <<rows, cache, memo, caller, done>>
  BY <1>1, <1>2 DEF WatcherDrops
<1>4. /\ (\A s \in Runs : RunOK(s)')
      /\ (\A i \in DOMAIN memo' : MemoOK(memo[i])') /\ Apart(memo)'
  BY <1>1, <1>2, <1>3, WriteOver
<1>5. /\ run' \in [Runs -> RunSet]
      /\ \A s \in Runs : run'[s].at = new[s].at /\ run'[s].ver = new[s].ver
  BY <1>3, CrossMoves
<1>6. mine \in Nat /\ mine' \in Nat /\ done <= mine' /\ mine <= mine' /\ mine' <= rows
  <2>1. done <= mine /\ mine <= rows /\ v <= rows /\ done \in Nat /\ mine \in Nat /\ rows \in Nat
    BY <1>1, ToolCallsAssumption DEF IInv, Types, WatcherOK
  <2> QED BY <1>3, <2>1 DEF Later
<1>7. Types'
  BY <1>3, <1>5, <1>6 DEF IInv, Types
<1>8. ResidentOK' /\ WatcherOK'
  BY <1>3 DEF ResidentOK, WatcherOK
<1>9. \A c \in Callers : CallerOK(c)'
  <2>1. ASSUME NEW c \in Callers PROVE CallerOK(c)'
    <3>1. caller'[c] = caller[c] /\ caller[c].run \in Runs \cup {None} /\ caller[c].floor \in Nat
      BY <1>3 DEF IInv, Types, CallerSet
    <3>2. Waiting(c) => run'[caller[c].run].at = run[caller[c].run].at
      BY <1>2, <1>5, <3>1 DEF Waiting
    <3>3. CallerOK(c)
      BY DEF IInv
    <3>4. caller[c].floor <= mine => caller[c].floor <= mine'
      BY <1>6, <3>1
    <3> QED BY <3>1, <3>2, <3>3, <3>4 DEF CallerOK, Waiting, At
  <2> QED BY <2>1
<1> QED BY <1>3, <1>4, <1>7, <1>8, <1>9, CacheKept, Assemble

-----------------------------------------------------------------------------
(* Calls and their answers *)

\* The answer a caller gets will do, or it waits for a run that goes on.
LEMMA OneCaller ==
    ASSUME IInv, NEW c \in Callers, NEW k \in CallerSet, caller' = [caller EXCEPT ![c] = k],
           k.fresh, k.run # None => run'[k.run].at # "idle" /\ k.floor <= mine,
           mine' = mine, \A r \in Runs : run'[r].at = "idle" => run[r].at = "idle"
    PROVE /\ caller' \in [Callers -> CallerSet]
          /\ \A d \in Callers : CallerOK(d)'
<1>1. caller' \in [Callers -> CallerSet] /\ caller'[c] = k /\ \A d \in Callers \ {c} : caller'[d] = caller[d]
  BY DEF IInv, Types
<1>2. CallerOK(c)'
  BY <1>1 DEF CallerOK, Waiting, At
<1>3. ASSUME NEW d \in Callers \ {c} PROVE CallerOK(d)'
  BY <1>1, <1>3 DEF IInv, Types, CallerSet, CallerOK, Waiting, At
<1> QED BY <1>1, <1>2, <1>3

LEMMA FloorIs == ASSUME IInv, NEW key PROVE Floor(key) \in Nat /\ Floor(key) <= mine /\ (key \notin Audits => Floor(key) = done)
  BY DEF IInv, Types, Floor

LEMMA GivenIs ==
    ASSUME NEW floor \in Nat, NEW ver \in Nat, NEW crossed \in BOOLEAN, crossed \/ floor <= ver
    PROVE Given(floor, ver, crossed) = [run |-> None, floor |-> 0, fresh |-> TRUE]
<1>1. crossed \/ ver >= floor
  OBVIOUS
<1> QED BY <1>1 DEF Given

LEMMA CachedStep == ASSUME IInv, NEW c \in Callers, NEW key \in Searches \cup {Index}, Cached(c, key) PROVE IInv'
<1>1. UNCHANGED <<rows, resident, watcher, cache, memo, run, done, mine>>
  BY DEF Cached
<1>2. PICK i \in DOMAIN cache : Reply(c, key, cache[i])
  BY DEF Cached
<1>3. PICK e \in CacheEntry : e = cache[i]
  BY DEF IInv, Types
<1>4. PICK k \in CallerSet : k = [run |-> None, floor |-> 0, fresh |-> TRUE]
  BY DEF CallerSet
<1>5. k = Given(Floor(key), e.ver, e.crossed)
  <2>1. e.crossed \/ done <= e.ver
    BY <1>3 DEF IInv, CacheOK
  <2>2. Floor(key) = done /\ Floor(key) \in Nat
    BY FloorIs, ToolCallsAssumption
  <2>3. e.ver \in Nat /\ e.crossed \in BOOLEAN
    BY DEF CacheEntry
  <2>4. PICK f \in Nat, v \in Nat, x \in BOOLEAN : f = Floor(key) /\ v = e.ver /\ x = e.crossed /\ (x \/ f <= v)
    BY <2>1, <2>2, <2>3
  <2>5. Given(f, v, x) = [run |-> None, floor |-> 0, fresh |-> TRUE]
    BY <2>4, GivenIs
  <2> QED BY <1>4, <2>4, <2>5
<1>6. caller' = [caller EXCEPT ![c] = k]
  BY <1>2, <1>3, <1>5 DEF Reply
<1>7. caller' \in [Callers -> CallerSet] /\ \A d \in Callers : CallerOK(d)'
  BY <1>1, <1>4, <1>6, OneCaller
<1>8. Types' /\ ResidentOK' /\ WatcherOK'
  BY <1>1, <1>7 DEF IInv, Types, ResidentOK, WatcherOK, At
<1>9. \A r \in Runs : RunOK(r)'
  BY <1>1 DEF IInv, RunOK, At
<1>10. (\A j \in DOMAIN memo' : MemoOK(memo[j])') /\ Apart(memo)'
  <2>1. WritesStay
    BY <1>1 DEF IInv, Types, WritesStay
  <2>2. \A j \in DOMAIN memo : RunStays(memo[j])
    BY <1>1, EntryRuns DEF RunStays
  <2> QED BY <1>1, <2>1, <2>2, MemoKept
<1> QED BY <1>1, <1>7, <1>8, <1>9, <1>10, CacheKept, Assemble

\* A call joins a run, and only that caller moves.
LEMMA JoinMoves ==
    ASSUME IInv, NEW c \in Callers, NEW key, NEW r \in Runs, Join(c, key, r), run'[r].at # "idle",
           mine' = mine, \A s \in Runs : run'[s].at = "idle" => run[s].at = "idle"
    PROVE /\ caller' \in [Callers -> CallerSet]
          /\ \A d \in Callers : CallerOK(d)'
<1>1. PICK k \in CallerSet : k = [run |-> r, floor |-> Floor(key), fresh |-> TRUE]
  BY FloorIs DEF CallerSet
<1>2. caller' = [caller EXCEPT ![c] = k]
  BY <1>1 DEF Join
<1>3. k.fresh /\ k.run = r /\ k.floor <= mine
  BY <1>1, FloorIs
<1> QED BY <1>2, <1>3, OneCaller

\* A handler starts.
LEMMA ExecuteMoves ==
    ASSUME IInv, NEW c \in Callers, NEW key \in Keys, NEW r \in Runs, Execute(c, key, r),
           UNCHANGED <<rows, resident, watcher, mine>>
    PROVE /\ caller' \in [Callers -> CallerSet] /\ (\A d \in Callers : CallerOK(d)')
          /\ run' \in [Runs -> RunSet] /\ (\A s \in Runs : RunOK(s)') /\ ResidentOK' /\ WritesStay
          /\ \A s \in Runs \ {r} : run'[s] = run[s]
          /\ At(r, "idle") /\ run'[r].at = "started" /\ run'[r].key = key /\ ~run'[r].given
          /\ key # Index => run'[r].crossed \/ (watcher = None /\ Writing = {})
<1>1. PICK x \in BOOLEAN : x <=> (key # Index /\ (watcher # None \/ Writing # {}))
  OBVIOUS
<1>2. PICK new \in RunSet :
        /\ new = [NoRun EXCEPT !.at = "started", !.key = key, !.crossed = x]
        /\ new.at = "started" /\ new.key = key /\ new.ver = 0 /\ ~new.given
        /\ new.crossed = x
  <2>1. PICK new \in RunSet : new = [NoRun EXCEPT !.at = "started", !.key = key, !.crossed = x]
    BY NoRunType DEF RunSet, Phases
  <2>2. new.at = "started" /\ new.key = key /\ new.ver = 0 /\ new.crossed = x
    BY <2>1, NoRunType DEF RunSet
  <2>3. NoRun.given = FALSE
    BY DEF NoRun
  <2>4. ~new.given
    BY <2>1, <2>3, NoRunType DEF RunSet
  <2> QED BY <2>1, <2>2, <2>4
<1>3. run' = [run EXCEPT ![r] = new] /\ Join(c, key, r) /\ At(r, "idle")
  BY <1>1, <1>2 DEF Execute
<1>4. run'[r] = new /\ run' \in [Runs -> RunSet] /\ \A s \in Runs \ {r} : run'[s] = run[s]
  BY <1>3 DEF IInv, Types
<1>5. caller' \in [Callers -> CallerSet] /\ \A d \in Callers : CallerOK(d)'
  BY <1>2, <1>3, <1>4, JoinMoves
<1>6. \A s \in Runs : RunOK(s)'
  <2>1. rows \in Nat /\ 0 <= rows
    BY DEF IInv, Types
  <2>2. RunOK(r)'
    BY <1>2, <1>4, <2>1 DEF RunOK, At
  <2>3. ASSUME NEW s \in Runs \ {r} PROVE RunOK(s)'
    BY <1>4, <2>3 DEF IInv, RunOK, At
  <2> QED BY <2>2, <2>3
<1>7. ResidentOK'
  <2>1. \A s \in Runs : At(s, "dropped")' => At(s, "dropped") /\ run'[s].ver = run[s].ver
    BY <1>2, <1>4 DEF At
  <2> QED BY <2>1 DEF IInv, ResidentOK
<1>8. WritesStay
  <2>1. \A s \in Runs : run'[s].at \in {"committed", "dropped"} => run'[s] = run[s]
    BY <1>2, <1>4
  <2>2. rows' \in Nat /\ rows <= rows' /\ watcher' \in Nat \cup {None}
    BY DEF IInv, Types
  <2> QED BY <1>4, <2>1, <2>2 DEF WritesStay
<1> QED BY <1>1, <1>2, <1>3, <1>4, <1>5, <1>6, <1>7, <1>8

LEMMA UncachedStep == ASSUME IInv, NEW c \in Callers, NEW key \in Searches \cup {Index}, Uncached(c, key) PROVE IInv'
<1>1. UNCHANGED <<rows, resident, watcher, cache, memo, done, mine>> /\ key \in Keys
  BY DEF Uncached, Keys
<1>2. ASSUME NEW r \in InFlight(key), Join(c, key, r), run' = run PROVE IInv'
  <2>1. r \in Runs /\ run'[r].at # "idle"
    BY <1>2 DEF InFlight
  <2>2. caller' \in [Callers -> CallerSet] /\ \A d \in Callers : CallerOK(d)'
    BY <1>1, <1>2, <2>1, JoinMoves
  <2>3. Types' /\ ResidentOK' /\ WatcherOK'
    BY <1>1, <1>2, <2>2 DEF IInv, Types, ResidentOK, WatcherOK, At
  <2>4. \A s \in Runs : RunOK(s)'
    BY <1>1, <1>2 DEF IInv, RunOK, At
  <2>5. WritesStay
    BY <1>1, <1>2 DEF IInv, Types, WritesStay
  <2>6. \A j \in DOMAIN memo : RunStays(memo[j])
    BY <1>1, <1>2, EntryRuns DEF RunStays
  <2>7. (\A j \in DOMAIN memo' : MemoOK(memo[j])') /\ Apart(memo)'
    BY <1>1, <2>5, <2>6, MemoKept
  <2> QED BY <1>1, <2>2, <2>3, <2>4, <2>7, CacheKept, Assemble
<1>3. ASSUME NEW r \in Runs, Execute(c, key, r) PROVE IInv'
  <2>1. /\ caller' \in [Callers -> CallerSet] /\ (\A d \in Callers : CallerOK(d)')
        /\ run' \in [Runs -> RunSet] /\ (\A s \in Runs : RunOK(s)') /\ ResidentOK' /\ WritesStay
        /\ \A s \in Runs \ {r} : run'[s] = run[s]
        /\ At(r, "idle")
    BY <1>1, <1>3, ExecuteMoves
  <2>2. Types' /\ WatcherOK'
    BY <1>1, <2>1 DEF IInv, Types, WatcherOK
  <2>3. \A j \in DOMAIN memo : RunStays(memo[j])
    <3> SUFFICES ASSUME NEW j \in DOMAIN memo, memo[j].run # None PROVE RunStays(memo[j])
      BY DEF RunStays
    <3>1. memo[j].run \in Runs /\ run[memo[j].run].at \in {"started", "read", "hung"}
      BY EntryRuns
    <3>2. memo[j].run # r
      BY <2>1, <3>1 DEF At
    <3> QED BY <2>1, <3>1, <3>2 DEF RunStays
  <2>4. (\A j \in DOMAIN memo' : MemoOK(memo[j])') /\ Apart(memo)'
    BY <1>1, <2>1, <2>3, MemoKept
  <2> QED BY <1>1, <2>1, <2>2, <2>4, CacheKept, Assemble
<1> QED BY <1>2, <1>3 DEF Uncached

LEMMA AuditHit ==
    ASSUME IInv, NEW c \in Callers, NEW key \in Audits, NEW i \in Entries(key),
           memo' = Append(RemoveAt(memo, i), memo[i]),
           IF memo[i].run # None THEN Join(c, key, memo[i].run) ELSE Reply(c, key, memo[i]),
           run' = run, UNCHANGED <<rows, resident, watcher, cache, done, mine>>
    PROVE IInv'
<1>1. PICK s \in Seq(MemoEntry) : s = memo
  BY DEF IInv, Types
<1>2. i \in DOMAIN s /\ Apart(s) /\ s[i].key = key /\ s[i].token = rows
  BY <1>1 DEF IInv, Entries
<1>3. PICK e \in MemoEntry : e = s[i]
  BY <1>2
<1>4. PICK t \in Seq(MemoEntry) :
        /\ t = RemoveAt(s, i) /\ Apart(t)
        /\ \A j \in DOMAIN t : \E k \in DOMAIN s \ {i} : t[j] = s[k]
  BY <1>2, RemovedIsApart
<1>5. \A j \in DOMAIN t : Distinct(t[j], e)
  BY <1>2, <1>3, <1>4 DEF Apart
<1>6. /\ Append(t, e) \in Seq(MemoEntry) /\ Apart(Append(t, e))
      /\ \A j \in DOMAIN Append(t, e) : Append(t, e)[j] = e \/ \E k \in DOMAIN t : Append(t, e)[j] = t[k]
  BY <1>4, <1>5, AppendedIsApart
<1>7. memo' = Append(t, e)
  BY <1>1, <1>3, <1>4
<1>8. /\ memo' \in Seq(MemoEntry) /\ Apart(memo)'
      /\ \A j \in DOMAIN memo' : \E k \in DOMAIN memo : memo'[j] = memo[k]
  <2>1. Apart(memo)'
    BY <1>6, <1>7 DEF Apart
  <2>2. \A j \in DOMAIN memo' : memo'[j] = s[i] \/ \E k \in DOMAIN s : memo'[j] = s[k]
    BY <1>3, <1>4, <1>6, <1>7
  <2> QED BY <1>1, <1>2, <1>6, <1>7, <2>1, <2>2
<1>9. WritesStay
  BY DEF IInv, Types, WritesStay
<1>10. \A j \in DOMAIN memo' : MemoOK(memo[j])'
  <2>1. \A k \in DOMAIN memo : RunStays(memo[k])
    BY EntryRuns DEF RunStays
  <2> QED BY <1>8, <1>9, <2>1, MemoStays
<1>11. caller' \in [Callers -> CallerSet] /\ \A d \in Callers : CallerOK(d)'
  <2>1. CASE e.run # None
    <3>1. PICK r \in Runs : r = e.run /\ run'[r].at # "idle"
      BY <1>1, <1>2, <1>3, <2>1, EntryRuns
    <3>2. Join(c, key, r)
      BY <1>1, <1>3, <2>1, <3>1
    <3> QED BY <3>1, <3>2, JoinMoves
  <2>2. CASE e.run = None
    <3>1. PICK k \in CallerSet : k = [run |-> None, floor |-> 0, fresh |-> TRUE]
      BY DEF CallerSet
    <3>2. e.crossed \/ mine <= e.ver
      <4>1. MemoOK(e) /\ e.token = rows
        BY <1>1, <1>2, <1>3 DEF IInv
      <4>2. mine \in Nat /\ rows \in Nat /\ mine <= rows
        BY DEF IInv, Types
      <4> QED BY <2>2, <4>1, <4>2 DEF MemoOK
    <3>3. PICK f \in Nat, v \in Nat, x \in BOOLEAN : f = Floor(key) /\ v = e.ver /\ x = e.crossed /\ (x \/ f <= v)
      <4>1. e.ver \in Nat /\ e.crossed \in BOOLEAN /\ mine \in Nat
        BY DEF MemoEntry, IInv, Types
      <4>2. Floor(key) \in Nat /\ Floor(key) <= mine
        BY FloorIs
      <4>3. e.crossed \/ Floor(key) <= e.ver
        BY <3>2, <4>1, <4>2
      <4> QED BY <4>1, <4>2, <4>3
    <3>4. Given(f, v, x) = k
      BY <3>1, <3>3, GivenIs
    <3>5. caller' = [caller EXCEPT ![c] = k]
      BY <1>1, <1>3, <2>2, <3>3, <3>4 DEF Reply
    <3> QED BY <3>1, <3>5, OneCaller
  <2> QED BY <2>1, <2>2
<1>12. Types' /\ ResidentOK' /\ WatcherOK'
  BY <1>8, <1>11 DEF IInv, Types, ResidentOK, WatcherOK, At
<1>13. \A r \in Runs : RunOK(r)'
  BY DEF IInv, RunOK, At
<1> QED BY <1>8, <1>10, <1>11, <1>12, <1>13, CacheKept, Assemble

LEMMA AuditMiss ==
    ASSUME IInv, NEW c \in Callers, NEW key \in Audits, NEW r \in Runs, Entries(key) = {}, Execute(c, key, r),
           memo' = Remember(Append(memo, [key |-> key, token |-> rows, run |-> r, ver |-> 0, crossed |-> FALSE])),
           UNCHANGED <<rows, resident, watcher, cache, done, mine>>
    PROVE IInv'
<1>1. key \in Keys /\ key # Index /\ r # None
  BY ToolCallsAssumption DEF Keys
<1>2. /\ caller' \in [Callers -> CallerSet] /\ (\A d \in Callers : CallerOK(d)')
      /\ run' \in [Runs -> RunSet] /\ (\A s \in Runs : RunOK(s)') /\ ResidentOK' /\ WritesStay
      /\ \A s \in Runs \ {r} : run'[s] = run[s]
      /\ At(r, "idle") /\ run'[r].at = "started" /\ run'[r].key = key /\ ~run'[r].given
      /\ run'[r].crossed \/ (watcher = None /\ Writing = {})
  BY <1>1, ExecuteMoves
<1>3. PICK s \in Seq(MemoEntry) : s = memo
  BY DEF IInv, Types
<1>4. PICK e \in MemoEntry :
        /\ e = [key |-> key, token |-> rows, run |-> r, ver |-> 0, crossed |-> FALSE]
        /\ e.key = key /\ e.token = rows /\ e.run = r
  <2>1. rows \in Nat
    BY DEF IInv, Types
  <2>2. [key |-> key, token |-> rows, run |-> r, ver |-> 0, crossed |-> FALSE] \in MemoEntry
    BY <2>1 DEF MemoEntry
  <2> QED BY <2>2
<1>5. \A k \in DOMAIN s : s[k].run # r
  BY <1>1, <1>2, <1>3, EntryRuns DEF At
<1>6. Apart(s) /\ \A k \in DOMAIN s : Distinct(s[k], e)
  <2>1. \A k \in DOMAIN s : s[k].key = key => s[k].token # rows
    BY <1>3 DEF Entries
  <2> QED BY <1>3, <1>4, <1>5, <2>1 DEF IInv, Distinct
<1>7. PICK t \in Seq(MemoEntry) :
        /\ t = Append(s, e) /\ Apart(t) /\ Len(t) > 0
        /\ \A j \in DOMAIN t : t[j] = e \/ \E k \in DOMAIN s : t[j] = s[k]
  BY <1>6, AppendedIsApart
<1>8. memo' = IF Len(t) > MemoMax THEN Tail(t) ELSE t
  BY <1>3, <1>4, <1>7 DEF Remember
<1>9. /\ memo' \in Seq(MemoEntry) /\ Apart(memo)'
      /\ \A j \in DOMAIN memo' : \E k \in DOMAIN t : memo'[j] = t[k]
  <2>1. CASE memo' = t
    BY <1>7, <2>1 DEF Apart
  <2>2. CASE memo' = Tail(t)
    <3>1. /\ Tail(t) \in Seq(MemoEntry) /\ Apart(Tail(t))
          /\ \A j \in DOMAIN Tail(t) : \E k \in DOMAIN t : Tail(t)[j] = t[k]
      BY <1>7, TailIsApart
    <3> QED BY <2>2, <3>1 DEF Apart
  <2> QED BY <1>8, <2>1, <2>2
<1>10. ASSUME NEW j \in DOMAIN memo' PROVE MemoOK(memo[j])'
  <2>1. PICK d \in MemoEntry : d = memo'[j]
    BY <1>9
  <2>2. CASE d = e
    <3>1. ~run'[r].crossed => Before(rows)'
      BY <1>2 DEF Before, Writing, WritesStay
    <3>2. rows' \in Nat /\ rows' = rows
      BY DEF IInv, Types
    <3>3. MemoOK(e)'
      BY <1>1, <1>2, <1>4, <3>1, <3>2 DEF MemoOK, Before
    <3> QED BY <2>1, <2>2, <3>3 DEF MemoOK, Before
  <2>3. CASE \E k \in DOMAIN s : d = s[k]
    <3>1. MemoOK(d) /\ d.run # r
      BY <1>3, <1>5, <2>3 DEF IInv
    <3>2. RunStays(d)
      <4>1. d.run # None => d.run \in Runs \ {r} /\ run[d.run].at \in {"started", "read", "hung"}
        BY <3>1 DEF MemoOK, MemoEntry
      <4> QED BY <1>2, <4>1 DEF RunStays
    <3>3. MemoOK(d)'
      BY <1>2, <3>1, <3>2, EntryStays DEF IInv
    <3> QED BY <2>1, <3>3 DEF MemoOK, Before
  <2>4. d = e \/ \E k \in DOMAIN s : d = s[k]
    <3>1. PICK k \in DOMAIN t : memo'[j] = t[k]
      BY <1>9
    <3> QED BY <1>7, <2>1, <3>1
  <2> QED BY <2>2, <2>3, <2>4
<1>11. Types' /\ WatcherOK'
  BY <1>2, <1>9 DEF IInv, Types, WatcherOK
<1> QED BY <1>2, <1>9, <1>10, <1>11, CacheKept, Assemble

LEMMA AuditStep == ASSUME IInv, NEW c \in Callers, NEW key \in Audits, Audit(c, key) PROVE IInv'
  BY AuditHit, AuditMiss DEF Audit

LEMMA TimeOutStep == ASSUME IInv, NEW c \in Callers, TimeOut(c) PROVE IInv'
<1>0. PICK r \in Runs : r = caller[c].run
  BY DEF TimeOut, Waiting, IInv, Types, CallerSet
<1>1. PICK S : r = caller[c].run /\ S = IF run[r].key \in Audits THEN Entries(run[r].key) ELSE {}
  BY <1>0
<1>2. /\ UNCHANGED <<rows, resident, watcher, cache, done, mine>>
      /\ caller' = [caller EXCEPT ![c] = NoCall] /\ run' = [run EXCEPT ![r].given = TRUE]
      /\ Forget(S)
  BY <1>1 DEF TimeOut
<1>3. run[r] \in RunSet
  BY DEF IInv, Types
<1>4. /\ run' \in [Runs -> RunSet] /\ \A s \in Runs \ {r} : run'[s] = run[s]
      /\ run'[r].at = run[r].at /\ run'[r].ver = run[r].ver /\ run'[r].key = run[r].key
      /\ run'[r].crossed = run[r].crossed
  BY <1>2, <1>3 DEF IInv, Types, RunSet
<1>5. \A s \in Runs : run'[s].at = run[s].at /\ run'[s].ver = run[s].ver /\ run'[s].key = run[s].key /\ run'[s].crossed = run[s].crossed
  BY <1>4
<1>6. caller' \in [Callers -> CallerSet] /\ \A d \in Callers : CallerOK(d)'
  <2>0. NoCall \in CallerSet /\ NoCall.run = None /\ NoCall.fresh
    BY DEF NoCall, CallerSet
  <2>1. PICK k \in CallerSet : k = NoCall /\ k.run = None /\ k.fresh
    BY <2>0
  <2> QED BY <1>2, <1>5, <2>1, OneCaller
<1>7. S \subseteq DOMAIN memo /\ \A a, b \in S : a = b
  <2>1. \A a, b \in S : memo[a].key = memo[b].key /\ memo[a].token = memo[b].token
    BY <1>1 DEF Entries
  <2>2. S \subseteq DOMAIN memo
    BY <1>1 DEF Entries
  <2> QED BY <2>1, <2>2 DEF IInv, Apart, Distinct
<1>8. /\ memo' \in Seq(MemoEntry) /\ Apart(memo)'
      /\ \A j \in DOMAIN memo' : \E k \in DOMAIN memo : memo'[j] = memo[k] /\ k \notin S
  BY <1>2, <1>7, ForgetElements DEF IInv
<1>9. WritesStay
  BY <1>2, <1>4, <1>5 DEF IInv, Types, WritesStay
\* The entry of the run that timed out is gone, or its version is.
<1>10. \A k \in DOMAIN memo : k \notin S => RunStays(memo[k])
  <2> SUFFICES ASSUME NEW k \in DOMAIN memo, k \notin S, memo[k].run # None PROVE RunStays(memo[k])
    BY DEF RunStays
  <2>1. /\ memo[k].run \in Runs /\ run[memo[k].run].at \in {"started", "read", "hung"}
        /\ run[memo[k].run].key = memo[k].key /\ memo[k].key \in Audits
    BY EntryRuns
  <2>2. memo[k].run = r => memo[k].token < rows'
    <3>1. memo[k].run = r => memo[k].token # rows
      BY <1>1, <2>1 DEF Entries
    <3>2. MemoOK(memo[k]) /\ rows \in Nat
      BY DEF IInv, Types
    <3>3. memo[k] \in MemoEntry
      BY DEF IInv, Types
    <3>4. memo[k].token \in Nat /\ memo[k].token <= rows
      BY <3>2, <3>3 DEF MemoOK, MemoEntry
    <3> QED BY <1>2, <3>1, <3>2, <3>4
  <2> QED BY <1>4, <1>5, <2>1, <2>2 DEF RunStays
<1>11. \A j \in DOMAIN memo' : MemoOK(memo[j])'
  <2>1. \A j \in DOMAIN memo' : \E k \in DOMAIN memo : memo'[j] = memo[k] /\ RunStays(memo[k])
    BY <1>8, <1>10
  <2> QED BY <1>8, <1>9, <2>1, MemoStays
<1>12. Types' /\ ResidentOK' /\ WatcherOK'
  BY <1>2, <1>4, <1>5, <1>6, <1>8 DEF IInv, Types, ResidentOK, WatcherOK, At
<1>13. \A s \in Runs : RunOK(s)'
  BY <1>2, <1>5 DEF IInv, RunOK, At
<1> QED BY <1>2, <1>6, <1>8, <1>11, <1>12, <1>13, CacheKept, Assemble

\* A run ends, with or without an answer.
LEMMA RunEnds ==
    ASSUME IInv, NEW r \in Runs, run[r].at \in {"started", "read"}, run' = [run EXCEPT ![r] = NoRun],
           NEW data \in BOOLEAN, Answered(r, data), data => At(r, "read"),
           UNCHANGED <<rows, resident, watcher, done, mine>>
    PROVE /\ run' \in [Runs -> RunSet] /\ (\A s \in Runs \ {r} : run'[s] = run[s]) /\ run'[r] = NoRun
          /\ caller' \in [Callers -> CallerSet] /\ (\A c \in Callers : CallerOK(c)')
          /\ (\A s \in Runs : RunOK(s)') /\ ResidentOK' /\ WatcherOK' /\ WritesStay
<1>1. run' \in [Runs -> RunSet] /\ (\A s \in Runs \ {r} : run'[s] = run[s]) /\ run'[r] = NoRun
  BY NoRunType DEF IInv, Types
<1>2. /\ caller' \in [Callers -> CallerSet]
      /\ \A c \in Callers : /\ caller[c].run # r => caller'[c] = caller[c]
                            /\ caller[c].run = r => caller'[c].run = None /\ caller'[c].fresh
  BY AnsweredMoves
<1>3. \A c \in Callers : CallerOK(c)'
  <2>1. ASSUME NEW c \in Callers, caller[c].run = r PROVE CallerOK(c)'
    BY <1>2, <2>1 DEF CallerOK, Waiting
  <2>2. ASSUME NEW c \in Callers, caller[c].run # r PROVE CallerOK(c)'
    <3>1. caller'[c] = caller[c] /\ caller[c].run \in Runs \cup {None}
      BY <1>2, <2>2 DEF IInv, Types, CallerSet
    <3>2. CallerOK(c)
      BY DEF IInv
    <3> QED BY <1>1, <2>2, <3>1, <3>2 DEF CallerOK, Waiting, At
  <2> QED BY <2>1, <2>2
<1>4. \A s \in Runs : RunOK(s)'
  <2>1. rows \in Nat /\ 0 <= rows
    BY DEF IInv, Types
  <2>2. RunOK(r)'
    BY <1>1, <2>1, NoRunType DEF RunOK, At
  <2> QED BY <1>1, <2>2 DEF IInv, RunOK, At
<1>5. \A s \in Runs : run'[s].at \in {"committed", "dropped"} => run[s].at \in {"committed", "dropped"} /\ run'[s] = run[s]
  BY <1>1, NoRunType
<1>6. ResidentOK' /\ WatcherOK'
  BY <1>5 DEF IInv, ResidentOK, WatcherOK, At
<1>7. WritesStay
  BY <1>1, <1>5 DEF IInv, Types, WritesStay
<1> QED BY <1>1, <1>2, <1>3, <1>4, <1>6, <1>7

LEMMA ErrsStep == ASSUME IInv, NEW r \in Runs, Errs(r) PROVE IInv'
<1>1. PICK data \in BOOLEAN, S \in SUBSET (DOMAIN memo) : data = FALSE /\ S = {i \in DOMAIN memo : memo[i].run = r}
  OBVIOUS
<1>2. /\ run[r].at \in {"started", "read"} /\ run' = [run EXCEPT ![r] = NoRun]
      /\ Answered(r, data) /\ Forget(S)
      /\ UNCHANGED <<rows, resident, watcher, cache, done, mine>>
  BY <1>1 DEF Errs
<1>3. /\ run' \in [Runs -> RunSet] /\ (\A s \in Runs \ {r} : run'[s] = run[s]) /\ run'[r] = NoRun
      /\ caller' \in [Callers -> CallerSet] /\ (\A c \in Callers : CallerOK(c)')
      /\ (\A s \in Runs : RunOK(s)') /\ ResidentOK' /\ WatcherOK' /\ WritesStay
  BY <1>1, <1>2, RunEnds
<1>4. S \subseteq DOMAIN memo /\ \A a, b \in S : a = b
  <2>1. \A a, b \in S : memo[a].run = memo[b].run /\ memo[a].run # None
    BY <1>1, ToolCallsAssumption
  <2>2. S \subseteq DOMAIN memo
    BY <1>1
  <2> QED BY <2>1, <2>2 DEF IInv, Apart, Distinct
<1>5. /\ memo' \in Seq(MemoEntry) /\ Apart(memo)'
      /\ \A j \in DOMAIN memo' : \E k \in DOMAIN memo : memo'[j] = memo[k] /\ k \notin S
  BY <1>2, <1>4, ForgetElements DEF IInv
<1>6. \A k \in DOMAIN memo : k \notin S => RunStays(memo[k])
  <2> SUFFICES ASSUME NEW k \in DOMAIN memo, k \notin S, memo[k].run # None PROVE RunStays(memo[k])
    BY DEF RunStays
  <2>1. memo[k].run \in Runs /\ run[memo[k].run].at \in {"started", "read", "hung"}
    BY EntryRuns
  <2>2. memo[k].run # r
    BY <1>1
  <2> QED BY <1>3, <2>1, <2>2 DEF RunStays
<1>7. \A j \in DOMAIN memo' : MemoOK(memo[j])'
  <2>1. \A j \in DOMAIN memo' : \E k \in DOMAIN memo : memo'[j] = memo[k] /\ RunStays(memo[k])
    BY <1>5, <1>6
  <2> QED BY <1>3, <1>5, <2>1, MemoStays
<1>8. Types'
  BY <1>2, <1>3, <1>5 DEF IInv, Types
<1> QED BY <1>2, <1>3, <1>5, <1>7, <1>8, CacheKept, Assemble

LEMMA EndsStep == ASSUME IInv, NEW r \in Runs, Ends(r) PROVE IInv'
<1>1. PICK data \in BOOLEAN : data = TRUE
  OBVIOUS
<1>2. /\ run[r].at = "read" /\ run' = [run EXCEPT ![r] = NoRun] /\ Answered(r, data)
      /\ UNCHANGED <<rows, resident, watcher, done, mine>>
  BY <1>1 DEF Ends, At
<1>3. /\ run' \in [Runs -> RunSet] /\ (\A s \in Runs \ {r} : run'[s] = run[s]) /\ run'[r] = NoRun
      /\ caller' \in [Callers -> CallerSet] /\ (\A c \in Callers : CallerOK(c)')
      /\ (\A s \in Runs : RunOK(s)') /\ ResidentOK' /\ WatcherOK' /\ WritesStay
  BY <1>2, RunEnds DEF At
<1>4. /\ run[r] \in RunSet /\ run[r].ver \in Nat /\ run[r].crossed \in BOOLEAN
      /\ run[r].crossed \/ mine <= run[r].ver
  BY <1>2 DEF IInv, Types, RunSet, RunOK, At
<1>5. cache' \in Seq(CacheEntry) /\ \A i \in DOMAIN cache' : CacheOK(cache[i])'
  <2>1. CASE run[r].key \in Searches
    <3>1. PICK e \in CacheEntry : e = [key |-> run[r].key, ver |-> run[r].ver, crossed |-> run[r].crossed]
      BY <1>4, <2>1 DEF CacheEntry
    <3>2. e.ver = run[r].ver /\ e.crossed = run[r].crossed
      BY <3>1
    <3>3. cache' = SetCache(e)
      BY <2>1, <3>1 DEF Ends
    <3>4. /\ cache' \in Seq(CacheEntry)
          /\ \A i \in DOMAIN cache' : cache'[i] = e \/ \E k \in DOMAIN cache : cache'[i] = cache[k]
      BY <3>3, SetCacheElements DEF IInv
    <3>5. CacheOK(e) /\ done' = done
      BY <1>2, <1>4, <3>2 DEF CacheOK, IInv, Types
    <3> QED BY <3>4, <3>5 DEF IInv, CacheOK
  <2>2. CASE run[r].key \notin Searches
    <3>1. cache' = cache /\ done' = done
      BY <1>2, <2>2 DEF Ends
    <3> QED BY <3>1, CacheKept DEF IInv, Types
  <2> QED BY <2>1, <2>2
<1>6. /\ memo' = [i \in DOMAIN memo |->
                   IF memo[i].run = r THEN [memo[i] EXCEPT !.run = None, !.ver = run[r].ver, !.crossed = run[r].crossed]
                   ELSE memo[i]]
  BY DEF Ends
<1>7. DOMAIN memo' = DOMAIN memo /\ memo \in Seq(MemoEntry) /\ \A i \in DOMAIN memo : memo[i] \in MemoEntry
  <2>1. memo \in Seq(MemoEntry)
    BY DEF IInv, Types
  <2>2. DOMAIN memo' = DOMAIN memo
    BY <1>6
  <2>3. \A i \in DOMAIN memo : memo[i] \in MemoEntry
    BY <2>1
  <2> QED BY <2>1, <2>2, <2>3
<1>8. ASSUME NEW i \in DOMAIN memo
      PROVE /\ memo'[i] \in MemoEntry /\ memo'[i].key = memo[i].key /\ memo'[i].token = memo[i].token
            /\ memo[i].run # r => memo'[i] = memo[i]
            /\ memo[i].run = r => memo'[i].run = None /\ memo'[i].ver = run[r].ver /\ memo'[i].crossed = run[r].crossed
  <2>1. CASE memo[i].run # r
    BY <1>6, <1>7, <2>1
  <2>2. CASE memo[i].run = r
    <3>1. memo'[i] = [memo[i] EXCEPT !.run = None, !.ver = run[r].ver, !.crossed = run[r].crossed]
      BY <1>6, <2>2
    <3> QED BY <1>4, <1>7, <2>2, <3>1 DEF MemoEntry
  <2> QED BY <2>1, <2>2
<1>9. memo' \in Seq(MemoEntry)
  <2>1. PICK n \in Nat : DOMAIN memo = 1 .. n
    BY <1>7
  <2>2. memo' \in [1 .. n -> MemoEntry]
    BY <1>6, <1>7, <1>8, <2>1
  <2> QED BY <2>2
<1>10. Apart(memo)'
  <2>1. ASSUME NEW i \in DOMAIN memo, NEW j \in DOMAIN memo, i # j PROVE Distinct(memo'[i], memo'[j])
    <3>1. Distinct(memo[i], memo[j])
      BY <2>1 DEF IInv, Apart
    <3>2. /\ memo'[i].key = memo[i].key /\ memo'[i].token = memo[i].token
          /\ memo'[j].key = memo[j].key /\ memo'[j].token = memo[j].token
          /\ memo'[i].run = memo[i].run \/ memo'[i].run = None
          /\ memo'[j].run = memo[j].run \/ memo'[j].run = None
      BY <1>8
    <3> QED BY <3>1, <3>2 DEF Distinct
  <2> QED BY <1>7, <2>1 DEF Apart, Distinct
<1>11. ASSUME NEW i \in DOMAIN memo PROVE MemoOK(memo[i])'
  <2>1. PICK e \in MemoEntry, d \in MemoEntry : e = memo[i] /\ d = memo'[i]
    BY <1>7, <1>8
  <2>2. MemoOK(e)
    BY <2>1 DEF IInv
  <2>3. CASE e.run # r
    <3>1. RunStays(e) /\ d = e
      <4>1. e.run # None => e.run \in Runs \ {r} /\ run[e.run].at \in {"started", "read", "hung"}
        BY <2>2, <2>3 DEF MemoOK, MemoEntry
      <4> QED BY <1>3, <1>8, <2>1, <2>3, <4>1 DEF RunStays
    <3>2. MemoOK(e)'
      BY <1>3, <2>2, <3>1, EntryStays DEF IInv
    <3> QED BY <2>1, <3>1, <3>2 DEF MemoOK, Before
  <2>4. CASE e.run = r
    <3>1. /\ d.run = None /\ d.ver = run[r].ver /\ d.crossed = run[r].crossed /\ d.token = e.token
      BY <1>8, <2>1, <2>4
    <3>2. run[r].crossed \/ Before(e.token)
      BY <2>2, <2>4, ToolCallsAssumption DEF MemoOK
    <3>3. Before(e.token) => Before(e.token)'
      <4>1. \A s \in Runs : run'[s].at \in {"committed", "dropped"} => run[s].at \in {"committed", "dropped"} /\ run'[s] = run[s]
        BY <1>3, NoRunType
      <4> QED BY <1>2, <4>1 DEF Before, Writing
    <3>4. MemoOK(d)'
      BY <1>2, <1>4, <2>2, <3>1, <3>2, <3>3 DEF MemoOK
    <3> QED BY <2>1, <3>4 DEF MemoOK, Before
  <2> QED BY <2>3, <2>4
<1>12. Types'
  BY <1>2, <1>3, <1>5, <1>9 DEF IInv, Types
<1> QED BY <1>3, <1>5, <1>7, <1>10, <1>11, <1>12, Assemble

-----------------------------------------------------------------------------
LEMMA Inductive == IInv /\ [Next]_vars => IInv'
<1> SUFFICES ASSUME IInv, [Next]_vars PROVE IInv'
  OBVIOUS
<1>1. CASE UNCHANGED vars
  <2>1. Types' /\ ResidentOK'
    BY <1>1 DEF vars, IInv, Types, ResidentOK, At
  <2> QED BY <1>1, <2>1, NothingMoves, CacheKept, Assemble DEF vars
<1>2. ASSUME NEW c \in Callers, NEW key \in Searches \cup {Index}, Cached(c, key) \/ Uncached(c, key) PROVE IInv'
  BY <1>2, CachedStep, UncachedStep
<1>3. ASSUME NEW c \in Callers, NEW key \in Audits, Audit(c, key) PROVE IInv'
  BY <1>3, AuditStep
<1>4. ASSUME NEW c \in Callers, TimeOut(c) PROVE IInv'
  BY <1>4, TimeOutStep
<1>5. ASSUME NEW r \in Runs,
             Reads(r) \/ Ends(r) \/ Errs(r) \/ Hangs(r) \/ Commits(r) \/ Drops(r) \/ Returns(r)
      PROVE IInv'
  BY <1>5, ReadsStep, EndsStep, ErrsStep, HangsStep, CommitsStep, DropsStep, ReturnsStep
<1>6. CASE WatcherCommits \/ WatcherDrops \/ OutsideCommits \/ Expires \/ Evicts
  BY <1>6, WatcherCommitsStep, WatcherDropsStep, OutsideCommitsStep, ExpiresStep, EvictsStep
<1> QED BY <1>1, <1>2, <1>3, <1>4, <1>5, <1>6 DEF Next

\* However a call is answered - from wrapTool's cache, by joining a call in flight, from
\* the memo or by its own handler (server-helpers.ts, handler-wrappers.ts) - the answer has
\* every write it may count on, unless the handler ran while this process was writing.
THEOREM AnswersAreFresh == Spec => []FreshAnswers
<1>1. IInv => FreshAnswers
  BY DEF IInv, CallerOK, FreshAnswers
<1> QED BY <1>1, InitIInv, Inductive, PTL DEF Spec

\* A call of a cacheable tool never waits for a run that somebody was told timed out
\* (the eviction in runtime.ts registerToolDefinition).
THEOREM TimedOutIsNotJoined == Spec => NoJoinAfterTimeout
<1> DEFINE A(c) == ~Waiting(c) /\ Waiting(c)' /\ run'[caller'[c].run].key \in Audits => ~run'[caller'[c].run].given
<1>1. IInv /\ [Next]_vars => [\A c \in Callers : A(c)]_vars
  <2> SUFFICES ASSUME IInv, Next, NEW c \in Callers,
                      ~Waiting(c), Waiting(c)', run'[caller'[c].run].key \in Audits
               PROVE ~run'[caller'[c].run].given
    OBVIOUS
  <2>1. caller[c] \in CallerSet /\ caller[c].run = None /\ caller'[c].run # None /\ caller \in [Callers -> CallerSet]
    BY DEF IInv, Types, Waiting
\* Nobody begins to wait otherwise than by joining or starting a run.
  <2>2. ASSUME NEW d \in Callers, NEW key, NEW r \in Runs, Join(d, key, r) PROVE caller'[c].run = r
    <3>1. d = c
      BY <2>1, <2>2 DEF Join
    <3> QED BY <2>1, <2>2, <3>1 DEF Join
  <2>3. ASSUME NEW d \in Callers, NEW key, NEW e, Reply(d, key, e) PROVE FALSE
    <3>1. caller'[c] = caller[c] \/ caller'[c] = Given(Floor(key), e.ver, e.crossed)
      BY <2>1, <2>3 DEF Reply
    <3> QED BY <2>1, <3>1 DEF Given
  <2>4. ASSUME NEW r \in Runs, NEW data \in BOOLEAN, Answered(r, data) PROVE FALSE
    <3>1. caller'[c] = caller[c]
      BY <2>1, <2>4, ToolCallsAssumption DEF Answered
    <3> QED BY <2>1, <3>1
  <2>5. ASSUME NEW d \in Callers, NEW key \in Keys, NEW r \in Runs, Execute(d, key, r) PROVE ~run'[caller'[c].run].given
    <3>1. caller'[c].run = r
      BY <2>2, <2>5 DEF Execute
    <3>2. run'[r] = [NoRun EXCEPT !.at = "started", !.key = key, !.crossed = key # Index /\ (watcher # None \/ Writing # {})]
      BY <2>5 DEF Execute, IInv, Types
    <3> QED BY <3>1, <3>2 DEF NoRun
  <2>6. ASSUME NEW d \in Callers, NEW key \in Searches \cup {Index}, Cached(d, key) \/ Uncached(d, key)
        PROVE ~run'[caller'[c].run].given
    <3>1. CASE Cached(d, key)
      BY <2>3, <3>1 DEF Cached
    <3>2. ASSUME NEW r \in InFlight(key), Join(d, key, r), run' = run PROVE FALSE
      <4>1. r \in Runs /\ run[r].key = key
        BY DEF InFlight
      <4>2. caller'[c].run = r
        BY <2>2, <3>2, <4>1
      <4> QED BY <3>2, <4>1, <4>2, ToolCallsAssumption
    <3>3. key \in Keys
      BY DEF Keys
    <3> QED BY <2>5, <2>6, <3>1, <3>2, <3>3 DEF Uncached
  <2>7. ASSUME NEW d \in Callers, NEW key \in Audits, Audit(d, key) PROVE ~run'[caller'[c].run].given
    <3>1. ASSUME NEW i \in Entries(key), run' = run,
                 IF memo[i].run # None THEN Join(d, key, memo[i].run) ELSE Reply(d, key, memo[i])
          PROVE ~run'[caller'[c].run].given
      <4>1. i \in DOMAIN memo /\ memo[i].token = rows /\ MemoOK(memo[i]) /\ rows \in Nat
        BY DEF Entries, IInv, Types
      <4>2. CASE memo[i].run # None
        <5>1. PICK r \in Runs : r = memo[i].run
          BY <4>1, <4>2, EntryRuns
        <5>2. caller'[c].run = r
          BY <2>2, <3>1, <4>2, <5>1
        <5>3. ~run[r].given
          BY <4>1, <4>2, <5>1 DEF MemoOK
        <5> QED BY <3>1, <5>2, <5>3
      <4>3. CASE memo[i].run = None
        BY <2>3, <3>1, <4>3
      <4> QED BY <4>2, <4>3
    <3>2. key \in Keys
      BY DEF Keys
    <3> QED BY <2>5, <2>7, <3>1, <3>2 DEF Audit
  <2>8. ASSUME NEW d \in Callers, TimeOut(d) PROVE FALSE
    <3>1. caller'[c] = caller[c] \/ caller'[c] = NoCall
      BY <2>1, <2>8 DEF TimeOut
    <3> QED BY <2>1, <3>1 DEF NoCall
  <2>9. ASSUME NEW r \in Runs,
               Reads(r) \/ Ends(r) \/ Errs(r) \/ Hangs(r) \/ Commits(r) \/ Drops(r) \/ Returns(r)
        PROVE FALSE
    <3>1. caller' = caller \/ Answered(r, TRUE) \/ Answered(r, FALSE)
      BY <2>9 DEF Reads, Ends, Errs, Hangs, Commits, Drops, Returns
    <3> QED BY <2>1, <2>4, <3>1
  <2>10. CASE WatcherCommits \/ WatcherDrops \/ OutsideCommits \/ Expires \/ Evicts
    BY <2>1, <2>10 DEF WatcherCommits, WatcherDrops, OutsideCommits, Expires, Evicts
  <2> QED BY <2>6, <2>7, <2>8, <2>9, <2>10 DEF Next
<1> QED BY <1>1, InitIInv, Inductive, PTL DEF Spec, NoJoinAfterTimeout

-----------------------------------------------------------------------------
(* The two caches keep to their sizes *)

Sized == /\ rows <= MaxVersion /\ (watcher # None => watcher >= 1)
         /\ Len(cache) <= CacheMax /\ Len(memo) <= MemoMax

LEMMA ForgetShrinks ==
    ASSUME Types, NEW S, Forget(S), S \subseteq DOMAIN memo PROVE Len(memo') <= Len(memo)
<1>1. PICK s \in Seq(MemoEntry) : s = memo
  BY DEF Types
<1>2. CASE memo' = memo
  BY <1>1, <1>2
<1>3. CASE \E i \in S : memo' = RemoveAt(memo, i)
  <2>1. PICK i \in 1 .. Len(s) : memo' = RemoveAt(s, i)
    BY <1>1, <1>3
  <2>2. Len(memo') = Len(s) - 1 /\ Len(s) \in Nat
    BY <2>1, RemoveAtElements
  <2> QED BY <1>1, <2>2
<1> QED BY <1>2, <1>3 DEF Forget

LEMMA SetCacheFits ==
    ASSUME Types, NEW e \in CacheEntry, Len(cache) <= CacheMax PROVE Len(SetCache(e)) <= CacheMax
<1>1. PICK kept \in Seq(CacheEntry) :
        kept = (IF Len(cache) >= CacheMax THEN Tail(cache) ELSE cache) /\ Len(kept) + 1 <= CacheMax
  <2>1. PICK s \in Seq(CacheEntry) : s = cache
    BY DEF Types
  <2>2. Len(s) \in Nat /\ CacheMax \in Nat \ {0}
    BY ToolCallsAssumption
  <2>3. CASE Len(s) >= CacheMax
    <3>1. Len(s) > 0
      BY <2>2, <2>3
    <3>2. PICK t \in Seq(CacheEntry) : t = Tail(s) /\ Len(t) = Len(s) - 1
      BY <3>1, TailElements
    <3>3. Len(t) + 1 <= CacheMax
      BY <2>1, <2>2, <3>2
    <3> QED BY <2>1, <2>3, <3>2, <3>3
  <2>4. CASE ~(Len(s) >= CacheMax)
    BY <2>1, <2>2, <2>4
  <2> QED BY <2>3, <2>4
<1>2. CASE \E i \in DOMAIN kept : kept[i].key = e.key
  <2>1. SetCache(e) = [i \in DOMAIN kept |-> IF kept[i].key = e.key THEN e ELSE kept[i]]
    BY <1>1, <1>2 DEF SetCache
  <2>2. Len([i \in DOMAIN kept |-> IF kept[i].key = e.key THEN e ELSE kept[i]]) = Len(kept)
    OBVIOUS
  <2>3. Len(kept) \in Nat /\ CacheMax \in Nat
    BY ToolCallsAssumption
  <2> QED BY <1>1, <2>1, <2>2, <2>3
<1>3. CASE ~ \E i \in DOMAIN kept : kept[i].key = e.key
  <2>1. SetCache(e) = Append(kept, e)
    BY <1>1, <1>3 DEF SetCache
  <2>2. Len(Append(kept, e)) = Len(kept) + 1
    OBVIOUS
  <2> QED BY <1>1, <2>1, <2>2
<1> QED BY <1>2, <1>3

\* A hit moves its entry; a miss past the limit drops the least recent.
LEMMA AuditFits ==
    ASSUME IInv, Len(memo) <= MemoMax, NEW c \in Callers, NEW key \in Audits, Audit(c, key)
    PROVE  Len(memo') <= MemoMax
<1>1. PICK s \in Seq(MemoEntry) : s = memo
  BY DEF IInv, Types
<1>2. Len(s) \in Nat /\ MemoMax \in Nat
  BY ToolCallsAssumption
<1>3. ASSUME NEW i \in Entries(key), memo' = Append(RemoveAt(memo, i), memo[i]) PROVE Len(memo') <= MemoMax
  <2>1. i \in 1 .. Len(s)
    BY <1>1 DEF Entries
  <2>2. PICK t \in Seq(MemoEntry) : t = RemoveAt(s, i) /\ Len(t) = Len(s) - 1
    BY <2>1, RemoveAtElements
  <2>3. s[i] \in MemoEntry /\ memo' = Append(t, s[i])
    BY <1>1, <1>3, <2>1, <2>2
  <2>4. Len(memo') = Len(t) + 1
    BY <2>3
  <2> QED BY <1>1, <1>2, <2>2, <2>4
<1>4. ASSUME NEW r \in Runs, NEW e \in MemoEntry, memo' = Remember(Append(memo, e)) PROVE Len(memo') <= MemoMax
  <2>0. Append(s, e) \in Seq(MemoEntry) /\ Len(Append(s, e)) = Len(s) + 1
    OBVIOUS
  <2>1. PICK t \in Seq(MemoEntry) : t = Append(s, e) /\ Len(t) = Len(s) + 1
    BY <2>0
  <2>2. memo' = IF Len(t) > MemoMax THEN Tail(t) ELSE t
    BY <1>1, <1>4, <2>1 DEF Remember
  <2>3. CASE Len(t) > MemoMax
    <3>1. Len(t) > 0
      BY <1>2, <2>1
    <3>2. Len(memo') = Len(t) - 1
      BY <2>2, <2>3, <3>1, TailElements
    <3> QED BY <1>1, <1>2, <2>1, <3>2
  <2>4. CASE ~(Len(t) > MemoMax)
    BY <1>2, <2>1, <2>2, <2>4
  <2> QED BY <2>3, <2>4
<1>5. \A r \in Runs : [key |-> key, token |-> rows, run |-> r, ver |-> 0, crossed |-> FALSE] \in MemoEntry
  BY DEF MemoEntry, IInv, Types
<1> QED BY <1>3, <1>4, <1>5 DEF Audit

LEMMA CallersSized ==
    ASSUME IInv, Sized, NEW c \in Callers,
           \/ TimeOut(c)
           \/ \E key \in Searches \cup {Index} : Cached(c, key) \/ Uncached(c, key)
           \/ \E key \in Audits : Audit(c, key)
    PROVE  Sized'
<1>1. UNCHANGED <<rows, watcher, cache>>
  BY DEF Cached, Uncached, Audit, TimeOut
<1>2. Len(memo') <= MemoMax
  <2>1. CASE \E key \in Searches \cup {Index} : Cached(c, key) \/ Uncached(c, key)
    BY <2>1 DEF Sized, Cached, Uncached
  <2>2. CASE \E key \in Audits : Audit(c, key)
    BY <2>2, AuditFits DEF Sized
  <2>3. CASE TimeOut(c)
    <3>1. PICK S : Forget(S) /\ S \subseteq DOMAIN memo
      BY <2>3 DEF TimeOut, Entries
    <3>2. Types /\ Apart(memo) /\ memo \in Seq(MemoEntry)
      BY DEF IInv, Types
    <3>3. Len(memo') <= Len(memo) /\ memo' \in Seq(MemoEntry)
      BY <3>1, <3>2, ForgetShrinks, ForgetElements
    <3> QED BY <3>2, <3>3, ToolCallsAssumption DEF Sized
  <2> QED BY <2>1, <2>2, <2>3
<1> QED BY <1>1, <1>2 DEF Sized

LEMMA RunsSized ==
    ASSUME IInv, Sized, NEW r \in Runs,
           Reads(r) \/ Ends(r) \/ Errs(r) \/ Hangs(r) \/ Commits(r) \/ Drops(r) \/ Returns(r)
    PROVE  Sized'
<1>0. Types /\ rows \in Nat /\ MaxVersion \in Nat /\ CacheMax \in Nat
  BY ToolCallsAssumption DEF IInv, Types
<1>1. CASE Reads(r) \/ Hangs(r) \/ Drops(r)
  BY <1>1 DEF Sized, Reads, Hangs, Drops
<1>2. CASE Ends(r)
  <2>1. UNCHANGED <<rows, watcher>> /\ run[r] \in RunSet
    BY <1>2 DEF Ends, IInv, Types
  <2>2. Len(memo') = Len(memo)
    <3>1. PICK s \in Seq(MemoEntry) : s = memo
      BY <1>0 DEF Types
    <3>2. PICK f : f = [i \in DOMAIN s |-> memo'[i]]
      OBVIOUS
    <3>3. memo' = f
      BY <1>2, <3>1, <3>2 DEF Ends
    <3>4. DOMAIN f = 1 .. Len(s) /\ Len(s) \in Nat
      BY <3>2
    <3>5. Len(f) = Len(s)
      BY <3>4
    <3> QED BY <3>1, <3>3, <3>5
  <2>3. Len(cache') <= CacheMax
    <3>1. CASE run[r].key \in Searches
      <4>1. PICK e \in CacheEntry : e = [key |-> run[r].key, ver |-> run[r].ver, crossed |-> run[r].crossed]
        BY <2>1, <3>1 DEF CacheEntry, RunSet
      <4> QED BY <1>0, <1>2, <3>1, <4>1, SetCacheFits DEF Ends, Sized
    <3>2. CASE run[r].key \notin Searches
      BY <1>2, <3>2 DEF Ends, Sized
    <3> QED BY <3>1, <3>2
  <2> QED BY <2>1, <2>2, <2>3 DEF Sized
<1>3. CASE Errs(r)
  <2>1. PICK S : Forget(S) /\ S \subseteq DOMAIN memo
    BY <1>3 DEF Errs
  <2>2. Apart(memo) /\ memo \in Seq(MemoEntry)
    BY DEF IInv, Types
  <2>3. Len(memo') <= Len(memo) /\ memo' \in Seq(MemoEntry)
    BY <1>0, <2>1, <2>2, ForgetShrinks, ForgetElements
  <2> QED BY <1>3, <2>2, <2>3, ToolCallsAssumption DEF Sized, Errs
<1>4. CASE Commits(r)
  BY <1>0, <1>4 DEF Sized, Commits
<1>5. CASE Returns(r)
  BY <1>0, <1>5 DEF Sized, Returns
<1> QED BY <1>1, <1>2, <1>3, <1>4, <1>5

\* The response cache and the memo never outgrow CACHE_MAX_SIZE and CACHE_MAX_ENTRIES, and
\* nothing in memory is of a version nobody committed (server-helpers.ts setCache,
\* handler-wrappers.ts withCache).
THEOREM CallsTyped == Spec => []TypeOK
<1>1. Init => Sized
  BY ToolCallsAssumption DEF Init, Sized
<1>2. IInv /\ Sized /\ [Next]_vars => Sized'
  <2> SUFFICES ASSUME IInv, Sized, [Next]_vars PROVE Sized'
    OBVIOUS
  <2>1. CASE UNCHANGED vars \/ WatcherDrops \/ Evicts
    BY <2>1 DEF vars, WatcherDrops, Evicts, Sized
  <2>2. CASE WatcherCommits \/ OutsideCommits
    BY <2>2, ToolCallsAssumption DEF WatcherCommits, OutsideCommits, Sized, IInv, Types
  <2>3. CASE Expires
    <3>1. PICK s \in Seq(CacheEntry) : s = cache
      BY DEF IInv, Types
    <3>2. PICK i \in 1 .. Len(s) : cache' = RemoveAt(s, i)
      BY <2>3, <3>1 DEF Expires
    <3>3. Len(cache') = Len(s) - 1 /\ Len(s) \in Nat
      BY <3>2, RemoveAtElements
    <3> QED BY <2>3, <3>1, <3>3, ToolCallsAssumption DEF Expires, Sized
  <2> QED BY <2>1, <2>2, <2>3, CallersSized, RunsSized DEF Next
<1>3. IInv /\ Sized => TypeOK
  BY ToolCallsAssumption DEF IInv, Types, ResidentOK, WatcherOK, Sized, TypeOK, RunSet, Phases
<1> QED BY <1>1, <1>2, <1>3, InitIInv, Inductive, PTL DEF Spec

=============================================================================
