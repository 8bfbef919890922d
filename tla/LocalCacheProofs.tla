-------------------------- MODULE LocalCacheProofs -------------------------
(***************************************************************************)
(* What TLAPS proves of LocalCache, for every set of contents and names,   *)
(* every size, cap and batch, with a faulty server.  The types need no     *)
(* more.  Mutual exclusion, verified files and the refinement hold for any *)
(* processes, with crashes and deletions that fail, under the POSIX lock:  *)
(* with the sentinel fallback mutual exclusion is false, as a run of TLC   *)
(* shows.  LRU is proved of one process, and that the cache is at rest     *)
(* between calls of one that does not die, with one name for each content: *)
(* the cache promises neither otherwise.                                   *)
(***************************************************************************)
EXTENDS LocalCache, FiniteSetTheorems, TLAPS

\* Where a process uses the temporary file of its request.
Critical == {"locked", "download", "stream", "verify", "publish"}

\* A call in progress has a path, an idle process has none.
RequestInv == \A p \in Procs :
                 IF pc[p] = "idle" THEN req[p] = None ELSE req[p] \in Paths

\* The eviction loop deletes rows of other contents, and never runs dry
\* between choosing a victim and deleting its row.
CandidatesInv ==
    \A p \in Procs :
       /\ pc[p] \in {"unlink", "forget"} => cands[p] # <<>>
       /\ pc[p] = "idle" => cands[p] = <<>>
       /\ \A i \in DOMAIN cands[p] : cands[p][i].cid # req[p].cid

\* A lock is held for the request only, by one process at a time.
HoldersInv ==
    /\ MutualExclusion
    /\ \A c \in Contents : \A p \in holders[c] :
          /\ pc[p] \notin {"idle", "lookup", "head", "recheck", "lock"}
          /\ req[p].cid = c
    /\ \A p \in Procs : pc[p] \in Critical => p \in holders[req[p].cid]

\* What the hash check saw is still there when the file is renamed.
VerifiedInv == /\ FinalFilesVerified
               /\ \A p \in Procs : pc[p] = "publish" => tmp[req[p]] = "good"

\* What holds of calls with either kind of lock, and what the POSIX lock adds.
Calls == TypeOK /\ RequestInv /\ CandidatesInv
IInv == Calls /\ HoldersInv /\ VerifiedInv

-----------------------------------------------------------------------------

\* The invariant holds before the first call.
LEMMA InitIInv == Init => IInv
<1> SUFFICES ASSUME Init PROVE IInv
  OBVIOUS
<1> USE DEF Init, LockInit
<1>1. TypeOK
  <2>1. sentinel \in [Contents -> BOOLEAN]
    BY PosixAssumption
  <2>2. QED
    BY <2>1, CacheAssumption DEF TypeOK, LockTypeOK, Location
<1>2. RequestInv /\ CandidatesInv
  BY DEF RequestInv, CandidatesInv
<1>3. HoldersInv /\ VerifiedInv
  BY DEF HoldersInv, VerifiedInv, MutualExclusion, FinalFilesVerified, Critical
<1>4. QED
  BY <1>1, <1>2, <1>3 DEF IInv, Calls

\* A deletion shortens the list of candidates, whose rest is unchanged.
LEMMA TailCandidates ==
    ASSUME NEW s \in Seq(Candidate), s # <<>>
    PROVE  /\ Head(s) \in Candidate
           /\ Head(s) = s[1] /\ 1 \in DOMAIN s
           /\ Tail(s) \in Seq(Candidate)
           /\ \A i \in DOMAIN Tail(s) : i + 1 \in DOMAIN s /\ Tail(s)[i] = s[i + 1]
OBVIOUS

\* An eviction query returns rows of other contents, as typed entries.
LEMMA QueriedCandidates ==
    ASSUME TypeOK, NEW own, NEW s \in EvictionCandidates(own)
    PROVE  /\ CacheEntries(s) \in Seq(Candidate)
           /\ \A i \in DOMAIN CacheEntries(s) : CacheEntries(s)[i].cid # own
           /\ s # <<>> => CacheEntries(s) # <<>>
<1>1. PICK n \in 0..Batch : s \in [1..n -> Indexed \ {own}]
  BY DEF EvictionCandidates
<1>2. n \in Nat /\ Len(s) = n /\ DOMAIN s = 1..n
  BY <1>1, CacheAssumption
<1>3. \A i \in 1..n : s[i] \in Contents /\ s[i] # own /\ index[s[i]] \in Row
  BY <1>1, NoneAssumption DEF Indexed, TypeOK
<1>4. \A i \in 1..n : [cid |-> s[i], name |-> index[s[i]].name,
                       at |-> index[s[i]].at] \in Candidate
  BY <1>3 DEF Row, Candidate
<1> DEFINE t == [i \in 1..n |-> [cid |-> s[i], name |-> index[s[i]].name,
                                at |-> index[s[i]].at]]
<1>5. t \in Seq(Candidate)
  <2>1. t \in [1..n -> Candidate]
    BY <1>4
  <2> QED
    BY <2>1, <1>2
<1>6. \A i \in 1..n : t[i].cid # own
  BY <1>3
<1>7. s # <<>> => t # <<>>
  <2>1. ASSUME n = 0 PROVE s = <<>>
    BY <2>1, <1>1
  <2>2. ASSUME n # 0 PROVE t # <<>>
    <3>1. 1 \in DOMAIN t
      BY <2>2, <1>2
    <3> QED
      BY <3>1
  <2> QED
    BY <2>1, <2>2
<1>8. DOMAIN t = 1..n /\ t = CacheEntries(s)
  BY <1>2 DEF CacheEntries
<1> HIDE DEF t
<1>9. QED
  BY <1>5, <1>6, <1>7, <1>8

\* The two halves of every way out of a call.
LEMMA EndCallType ==
    ASSUME TypeOK, NEW p \in Procs, NEW o \in {"none", "ok", "error"}, EndCall(p, o)
    PROVE  /\ pc' \in [Procs -> Location]
           /\ req' \in [Procs -> Paths \union {None}]
           /\ body' \in [Procs -> Bytes \union {Absent}]
           /\ fresh' \in [Procs -> BOOLEAN]
           /\ stat' \in [Procs -> Nat]
           /\ cands' \in [Procs -> Seq(Candidate)]
           /\ result' \in [Procs -> {"none", "ok", "error"}]
<1>1. <<>> \in Seq(Candidate)
  OBVIOUS
<1>2. QED
  BY <1>1 DEF TypeOK, EndCall, Goto, Location

\* Leaving the lock keeps its type.
LEMMA LeaveLockType ==
    ASSUME LockTypeOK, NEW p \in Procs, NEW c,
           LeaveLock(p, c) \/ LockExit(p, c) \/ LockTimeOut(p, c)
    PROVE  LockTypeOK'
<1>1. CASE UNCHANGED lockVars
  BY <1>1 DEF LockTypeOK, lockVars
<1>2. CASE LockExit(p, c)
  BY <1>2 DEF LockTypeOK, LockExit
<1>3. QED
  BY <1>1, <1>2 DEF LeaveLock, LockTimeOut

\* The victim of an eviction is not the caller's own file.
LEMMA VictimIsOther ==
    ASSUME Calls, NEW p \in Procs, pc[p] \in {"unlink", "forget"}
    PROVE  Victim(p) \in Paths /\ Victim(p) # req[p] /\ Victim(p).cid = Head(cands[p]).cid
<1>1. cands[p] # <<>> /\ cands[p] \in Seq(Candidate)
  BY DEF Calls, TypeOK, CandidatesInv
<1>2. Head(cands[p]) \in Candidate /\ Head(cands[p]).cid # req[p].cid
  BY <1>1, TailCandidates DEF Calls, CandidatesInv
<1>3. QED
  BY <1>2 DEF Victim, Candidate, Paths

\* Every step keeps the types.
LEMMA StepTypeOK == ASSUME Calls, [Next]_vars PROVE TypeOK'
<1> USE DEF Calls, TypeOK, LockTypeOK, RequestInv, At, Goto
<1>1. ASSUME NEW p \in Procs, NEW x \in Paths, Call(p, x) PROVE TypeOK'
  BY <1>1 DEF Call, Location, lockVars, storeVars, callVars
<1>2. ASSUME NEW p \in Procs, Lookup(p) \/ HeadStream(p) \/ Recheck(p) \/ VerifyGood(p) PROVE TypeOK'
  <2>1. PICK to \in Location : Goto(p, to)
    BY <1>2 DEF Lookup, HeadStream, Recheck, VerifyGood, Location
  <2>2. UNCHANGED <<lockVars, storeVars, clock, req, callVars, result>>
    BY <1>2 DEF Lookup, HeadStream, Recheck, VerifyGood
  <2>3. QED
    BY <2>1, <2>2 DEF lockVars, storeVars, callVars
<1>3. ASSUME NEW p \in Procs, HeadSmall(p) PROVE TypeOK'
  BY <1>3 DEF HeadSmall, Location, lockVars, storeVars, callVars
<1>4. ASSUME NEW p \in Procs, Acquire(p) PROVE TypeOK'
  BY <1>4, PosixAssumption DEF Acquire, LockAcquire, Location, storeVars, callVars, Paths
<1>5. ASSUME NEW p \in Procs, TimeOut(p) PROVE TypeOK'
  <2>1. LockTypeOK'
    BY <1>5, LeaveLockType DEF TimeOut
  <2>2. EndCall(p, "error") /\ UNCHANGED <<storeVars, clock>>
    BY <1>5 DEF TimeOut
  <2>3. QED
    BY <2>1, <2>2, EndCallType DEF storeVars
<1>6. ASSUME NEW p \in Procs, LockedCheck(p) \/ Download(p) PROVE TypeOK'
  <2>1. CASE LockedCheck(p)
    <3>1. PICK to \in Location : Goto(p, to)
      BY <2>1 DEF LockedCheck, Location
    <3>2. tmp' = tmp \/ tmp' = [tmp EXCEPT ![req[p]] = Absent]
      BY <2>1 DEF LockedCheck
    <3>3. QED
      BY <2>1, <3>1, <3>2 DEF LockedCheck, lockVars, callVars
  <2>2. CASE Download(p)
    <3>1. req[p] \in Paths
      BY <2>2 DEF Download, WriteBody, BeginStream, EndStream
    <3>2. CASE WriteBody(p)
      BY <3>1, <3>2 DEF WriteBody, Location, lockVars, callVars
    <3>3. CASE BeginStream(p)
      BY <3>1, <3>3 DEF BeginStream, Location, lockVars, callVars
    <3>4. CASE EndStream(p)
      BY <3>1, <3>4 DEF EndStream, Location, lockVars, callVars
    <3>5. QED
      BY <2>2, <3>2, <3>3, <3>4 DEF Download
  <2>3. QED
    BY <1>6, <2>1, <2>2
<1>7. ASSUME NEW p \in Procs, DownloadFails(p) \/ SizeGone(p) PROVE TypeOK'
  <2>1. EndCall(p, "error") /\ UNCHANGED <<storeVars, clock>>
    BY <1>7 DEF DownloadFails, SizeGone, Raise
  <2>2. LockTypeOK'
    BY <1>7, LeaveLockType DEF DownloadFails, SizeGone, Raise
  <2>3. QED
    BY <2>1, <2>2, EndCallType DEF storeVars
<1>8. ASSUME NEW p \in Procs, VerifyBad(p) PROVE TypeOK'
  <2>1. EndCall(p, "error") /\ UNCHANGED <<disk, part, index, spared, clock>>
    BY <1>8 DEF VerifyBad, Raise
  <2>2. LockTypeOK'
    BY <1>8, LeaveLockType DEF VerifyBad, Raise
  <2>3. tmp' \in [Paths -> Bytes \union {Absent}]
    BY <1>8 DEF VerifyBad
  <2>4. QED
    BY <2>1, <2>2, <2>3, EndCallType
<1>9. ASSUME NEW p \in Procs, Publish(p) PROVE TypeOK'
  BY <1>9 DEF Publish, Location, lockVars
<1>10. ASSUME NEW p \in Procs, TestExists(p) \/ ReadSize(p) PROVE TypeOK'
  <2>1. PICK to \in Location : Goto(p, to)
    BY <1>10 DEF TestExists, ReadSize, Location
  <2>2. PICK n \in Nat : stat' = [stat EXCEPT ![p] = n]
    <3>1. CASE TestExists(p)
      BY <3>1 DEF TestExists
    <3>2. CASE ReadSize(p)
      <4>1. req[p].cid \in Contents
        BY <3>2 DEF ReadSize, Paths
      <4>2. QED
        BY <3>2, <4>1, CacheAssumption DEF ReadSize
    <3>3. QED
      BY <1>10, <3>1, <3>2
  <2>3. UNCHANGED <<lockVars, storeVars, clock, req, body, fresh, cands, result>>
    BY <1>10 DEF TestExists, ReadSize
  <2>4. QED
    BY <2>1, <2>2, <2>3 DEF lockVars, storeVars
<1>11. ASSUME NEW p \in Procs, UpsertRow(p) PROVE TypeOK'
  BY <1>11, CacheAssumption DEF UpsertRow, Location, lockVars, callVars, Paths, Row
<1>12. ASSUME NEW p \in Procs, ReadTotal(p) PROVE TypeOK'
  <2>1. PICK to \in Location : Goto(p, to)
    BY <1>12 DEF ReadTotal, Location
  <2>2. cands' = cands \/ cands' = [cands EXCEPT ![p] = <<>>]
    BY <1>12 DEF ReadTotal
  <2>3. <<>> \in Seq(Candidate)
    OBVIOUS
  <2>4. cands' \in [Procs -> Seq(Candidate)]
    BY <2>2, <2>3
  <2>5. QED
    BY <1>12, <2>1, <2>4 DEF ReadTotal, lockVars, storeVars
<1>13. ASSUME NEW p \in Procs, SelectCandidates(p) PROVE TypeOK'
  <2>1. PICK to \in Location : Goto(p, to)
    BY <1>13 DEF SelectCandidates, Location
  <2>2. PICK t \in Seq(Candidate) : cands' = [cands EXCEPT ![p] = t]
    BY <1>13, QueriedCandidates DEF SelectCandidates
  <2>3. QED
    BY <1>13, <2>1, <2>2 DEF SelectCandidates, lockVars, storeVars
<1>14. ASSUME NEW p \in Procs, UnlinkVictim(p) PROVE TypeOK'
  <2>1. Victim(p) \in Paths
    BY <1>14, VictimIsOther DEF UnlinkVictim
  <2>2. QED
    BY <1>14, <2>1 DEF UnlinkVictim, Location, lockVars, callVars
<1>15. ASSUME NEW p \in Procs, DeleteRow(p) PROVE TypeOK'
  BY <1>15, TailCandidates DEF DeleteRow, CandidatesInv, Location, lockVars
<1>16. ASSUME NEW p \in Procs, Return(p) PROVE TypeOK'
  <2>1. EndCall(p, "ok") /\ UNCHANGED <<storeVars, clock>>
    BY <1>16 DEF Return
  <2>2. LockTypeOK'
    BY <1>16, LeaveLockType DEF Return
  <2>3. QED
    BY <2>1, <2>2, EndCallType DEF storeVars
<1>17. ASSUME NEW p \in Procs, Crash(p) PROVE TypeOK'
  BY <1>17 DEF Crash, LockDie, EndCall, Location, storeVars
<1>18. ASSUME NEW p \in Procs, NEW c \in Contents, Touch(p, c) PROVE TypeOK'
  <2>1. index[c] \in Row /\ clock \in Nat
    BY <1>18, CacheAssumption DEF Touch, Indexed
  <2>2. [index[c] EXCEPT !.at = clock] \in Row
    BY <2>1 DEF Row
  <2>3. index' \in [Contents -> Row \union {None}]
    BY <1>18, <2>2 DEF Touch
  <2>4. QED
    BY <1>18, <2>3 DEF Touch, lockVars, callVars
<1>19. ASSUME Tick PROVE TypeOK'
  BY <1>19, CacheAssumption DEF Tick, lockVars, storeVars, callVars
<1>20. ASSUME UNCHANGED vars PROVE TypeOK'
  BY <1>20 DEF vars, lockVars, storeVars, callVars
<1>21. QED
  BY <1>1, <1>2, <1>3, <1>4, <1>5, <1>6, <1>7, <1>8, <1>9, <1>10, <1>11, <1>12,
     <1>13, <1>14, <1>15, <1>16, <1>17, <1>18, <1>19, <1>20 DEF Next, Step
-----------------------------------------------------------------------------
\* A step inside a call moves its process and keeps its request.
Advance(p) == /\ pc[p] # "idle"
              /\ \E to \in Location \ {"idle"} : Goto(p, to)
              /\ UNCHANGED <<req, result>>

\* A step is one process's step, a new call, a touch or a tick.
LEMMA StepKinds ==
    ASSUME Calls, NEW p \in Procs, Step(p) \/ Crash(p)
    PROVE  Advance(p) \/ \E o \in {"none", "ok", "error"} : EndCall(p, o) /\ pc[p] # "idle"
<1> USE DEF At, Location, Advance
<1>1. CASE Lookup(p) \/ HeadStream(p) \/ HeadSmall(p) \/ Recheck(p) \/ Acquire(p)
  BY <1>1 DEF Lookup, HeadStream, HeadSmall, Recheck, Acquire
<1>2. CASE LockedCheck(p) \/ Download(p) \/ VerifyGood(p) \/ Publish(p)
  BY <1>2 DEF LockedCheck, Download, WriteBody, BeginStream, EndStream, VerifyGood, Publish
<1>3. CASE TestExists(p) \/ ReadSize(p) \/ UpsertRow(p) \/ ReadTotal(p)
  BY <1>3 DEF TestExists, ReadSize, UpsertRow, ReadTotal
<1>4. CASE SelectCandidates(p) \/ UnlinkVictim(p) \/ DeleteRow(p)
  BY <1>4 DEF SelectCandidates, UnlinkVictim, DeleteRow
<1>5. CASE TimeOut(p) \/ DownloadFails(p) \/ VerifyBad(p) \/ SizeGone(p) \/ Return(p) \/ Crash(p)
  BY <1>5 DEF TimeOut, DownloadFails, VerifyBad, SizeGone, Return, Crash, Raise
<1>6. QED
  BY <1>1, <1>2, <1>3, <1>4, <1>5 DEF Step

\* No step changes where another process is or what it was asked.
LEMMA StepFrame ==
    ASSUME Calls, NEW p \in Procs,
           \/ Step(p) \/ Crash(p)
           \/ \E x \in Paths : Call(p, x)
    PROVE  \A q \in Procs \ {p} : /\ pc'[q] = pc[q]
                                  /\ req'[q] = req[q]
                                  /\ cands'[q] = cands[q]
<1> USE DEF Calls, TypeOK, Goto
<1>1. CASE \E x \in Paths : Call(p, x)
  BY <1>1 DEF Call, callVars
<1>2. CASE Step(p) \/ Crash(p)
  <2>1. \A q \in Procs \ {p} : pc'[q] = pc[q] /\ req'[q] = req[q]
    <3>1. Advance(p) \/ \E o \in {"none", "ok", "error"} : EndCall(p, o) /\ pc[p] # "idle"
      BY <1>2, StepKinds
    <3>2. QED
      BY <3>1 DEF Advance, EndCall
  <2>2. \/ UNCHANGED cands
        \/ \E t : cands' = [cands EXCEPT ![p] = t]
    <3>1. CASE \E o \in {"none", "ok", "error"} : EndCall(p, o)
      BY <3>1 DEF EndCall
    <3>2. CASE Step(p) /\ ~(\E o \in {"none", "ok", "error"} : EndCall(p, o))
      BY <3>2 DEF Step, Lookup, HeadStream, HeadSmall, Recheck, Acquire, TimeOut,
         LockedCheck, Download, WriteBody, BeginStream, EndStream, DownloadFails, VerifyGood, VerifyBad, Publish,
         TestExists, ReadSize, SizeGone, UpsertRow, ReadTotal, SelectCandidates,
         UnlinkVictim, DeleteRow, Return, Raise, callVars
    <3>3. CASE Crash(p)
      BY <3>3 DEF Crash, EndCall
    <3>4. QED
      BY <1>2, <3>1, <3>2, <3>3
  <2>3. QED
    BY <2>1, <2>2
<1>3. QED
  BY <1>1, <1>2

\* Every step keeps a path for each call in progress.
LEMMA StepRequestInv == ASSUME Calls, [Next]_vars PROVE RequestInv'
<1> USE DEF Calls, TypeOK, RequestInv
<1>1. ASSUME NEW p \in Procs, NEW x \in Paths, Call(p, x) PROVE RequestInv'
  BY <1>1, StepFrame DEF Call, Goto
<1>2. ASSUME NEW p \in Procs, Step(p) \/ Crash(p) PROVE RequestInv'
  <2>1. CASE Advance(p)
    BY <2>1 DEF Advance, Goto
  <2>2. CASE \E o \in {"none", "ok", "error"} : EndCall(p, o)
    BY <2>2 DEF EndCall, Goto
  <2>3. QED
    BY <1>2, <2>1, <2>2, StepKinds
<1>3. ASSUME NEW p \in Procs, NEW c \in Contents, Touch(p, c) PROVE RequestInv'
  BY <1>3 DEF Touch
<1>4. CASE Tick \/ UNCHANGED vars
  BY <1>4 DEF Tick, vars
<1>5. QED
  BY <1>1, <1>2, <1>3, <1>4 DEF Next

\* Every step keeps the lists of eviction candidates free of the caller's own row.
LEMMA StepCandidatesInv == ASSUME Calls, [Next]_vars PROVE CandidatesInv'
<1> USE DEF Calls, TypeOK, CandidatesInv, At, Goto
<1>1. ASSUME NEW p \in Procs, NEW x \in Paths, Call(p, x) PROVE CandidatesInv'
  BY <1>1 DEF Call, callVars
<1>2. ASSUME NEW p \in Procs, Step(p) \/ Crash(p) PROVE CandidatesInv'
  <2> DEFINE Good(q) ==
               /\ pc'[q] \in {"unlink", "forget"} => cands'[q] # <<>>
               /\ pc'[q] = "idle" => cands'[q] = <<>>
               /\ \A i \in DOMAIN cands'[q] : cands'[q][i].cid # req'[q].cid
  <2>1. ASSUME NEW q \in Procs \ {p} PROVE Good(q)
    BY <1>2, <2>1, StepFrame
  <2>2. CASE \E o \in {"none", "ok", "error"} : EndCall(p, o)
    BY <2>2, <2>1 DEF EndCall
  <2>3. CASE \/ Lookup(p) \/ HeadStream(p) \/ HeadSmall(p) \/ Recheck(p) \/ Acquire(p)
             \/ LockedCheck(p) \/ Download(p) \/ VerifyGood(p) \/ Publish(p)
             \/ TestExists(p) \/ ReadSize(p) \/ UpsertRow(p)
    BY <2>3, <2>1 DEF Lookup, HeadStream, HeadSmall, Recheck, Acquire, LockedCheck,
       Download, WriteBody, BeginStream, EndStream, VerifyGood, Publish, TestExists, ReadSize, UpsertRow, callVars
  <2>4. CASE ReadTotal(p)
    BY <2>4, <2>1 DEF ReadTotal
  <2>5. CASE SelectCandidates(p)
    <3>1. PICK s \in EvictionCandidates(req[p].cid) :
             /\ cands' = [cands EXCEPT ![p] = CacheEntries(s)]
             /\ Goto(p, IF s = <<>> THEN "leave" ELSE "unlink")
      BY <2>5 DEF SelectCandidates
    <3>2. /\ \A i \in DOMAIN CacheEntries(s) : CacheEntries(s)[i].cid # req[p].cid
          /\ s # <<>> => CacheEntries(s) # <<>>
      BY QueriedCandidates
    <3>3. cands'[p] = CacheEntries(s) /\ req' = req
      BY <2>5, <3>1 DEF SelectCandidates
    <3>4. pc'[p] = IF s = <<>> THEN "leave" ELSE "unlink"
      BY <3>1
    <3>5. Good(p)
      BY <3>2, <3>3, <3>4
    <3>6. QED
      BY <2>1, <3>5
  <2>6. CASE UnlinkVictim(p)
    BY <2>6, <2>1 DEF UnlinkVictim, callVars
  <2>7. CASE DeleteRow(p)
    <3>1. pc'[p] = "total" /\ cands'[p] = Tail(cands[p]) /\ req' = req /\ cands[p] # <<>>
      BY <2>7 DEF DeleteRow
    <3>2. \A i \in DOMAIN Tail(cands[p]) : Tail(cands[p])[i].cid # req[p].cid
      BY <3>1, TailCandidates
    <3>3. Good(p)
      BY <3>1, <3>2
    <3>4. QED
      BY <2>1, <3>3
  <2>8. QED
    BY <1>2, <2>2, <2>3, <2>4, <2>5, <2>6, <2>7
       DEF Step, TimeOut, DownloadFails, VerifyBad, SizeGone, Return, Crash, Raise
<1>3. ASSUME NEW p \in Procs, NEW c \in Contents, Touch(p, c) PROVE CandidatesInv'
  BY <1>3 DEF Touch, callVars
<1>4. CASE Tick \/ UNCHANGED vars
  BY <1>4 DEF Tick, vars, callVars
<1>5. QED
  BY <1>1, <1>2, <1>3, <1>4 DEF Next

-----------------------------------------------------------------------------
\* The lock

\* Taking the lock, on POSIX, keeps the holders in order.
LEMMA AcquireHoldersInv ==
    ASSUME Posix, IInv, NEW p \in Procs, Acquire(p) PROVE HoldersInv'
<1> USE DEF IInv, Calls, TypeOK, LockTypeOK, HoldersInv, MutualExclusion, Acquire, At, Goto
<1>1. /\ holders' = [holders EXCEPT ![req[p].cid] = {p}]
      /\ holders[req[p].cid] = {}
  <2>1. holders[req[p].cid] = {}
    BY DEF LockAcquire, LockFree
  <2>2. holders' = [holders EXCEPT ![req[p].cid] = @ \union {p}]
    BY DEF LockAcquire
  <2>3. QED
    BY <2>1, <2>2
<1>2. req[p] \in Paths /\ req[p].cid \in Contents
  BY DEF RequestInv, Paths
<1>3. pc' = [pc EXCEPT ![p] = "locked"] /\ req' = req
  OBVIOUS
<1>4. MutualExclusion'
  BY <1>1, <1>2
<1>5. ASSUME NEW c \in Contents, NEW q \in holders'[c]
      PROVE  pc'[q] \notin {"idle", "lookup", "head", "recheck", "lock"} /\ req'[q].cid = c
  <2>1. CASE c = req[p].cid
    BY <1>1, <1>2, <1>3, <1>5, <2>1
  <2>2. CASE c # req[p].cid
    <3>1. q \in holders[c] /\ q # p
      BY <1>1, <1>2, <1>5, <2>2
    <3>2. QED
      BY <3>1, <1>3
  <2>3. QED
    BY <2>1, <2>2
<1>6. ASSUME NEW q \in Procs, pc'[q] \in Critical PROVE q \in holders'[req'[q].cid]
  <2>1. CASE q = p
    BY <1>1, <1>2, <1>3, <2>1
  <2>2. CASE q # p
    <3>1. pc[q] \in Critical /\ q \in holders[req[q].cid]
      BY <1>3, <1>6, <2>2
    <3>2. req[q].cid # req[p].cid
      BY <3>1, <1>1
    <3>3. QED
      BY <1>1, <1>2, <1>3, <3>1, <3>2
  <2>3. QED
    BY <2>1, <2>2
<1>7. QED
  BY <1>4, <1>5, <1>6

\* A step inside a call that leaves the locks alone keeps the holders in order.
LEMMA AdvanceHoldersInv ==
    ASSUME IInv, NEW p \in Procs, Step(p), Advance(p), ~Acquire(p) PROVE HoldersInv'
<1> USE DEF IInv, Calls, TypeOK, LockTypeOK, HoldersInv, At, Goto, Location
<1> DEFINE Early == {"idle", "lookup", "head", "recheck", "lock"}
<1>1. /\ UNCHANGED <<holders, req>>
      /\ pc[p] \notin Early => pc'[p] \notin Early
      /\ pc'[p] \in Critical => pc[p] \in Critical
  <2>1. CASE Lookup(p) \/ HeadStream(p) \/ HeadSmall(p) \/ Recheck(p)
    BY <2>1 DEF Lookup, HeadStream, HeadSmall, Recheck, Critical, lockVars
  <2>2. CASE LockedCheck(p) \/ Download(p) \/ VerifyGood(p) \/ Publish(p)
    BY <2>2 DEF LockedCheck, Download, WriteBody, BeginStream, EndStream, VerifyGood, Publish, Critical, lockVars
  <2>3. CASE TestExists(p) \/ ReadSize(p) \/ UpsertRow(p) \/ ReadTotal(p)
    BY <2>3 DEF TestExists, ReadSize, UpsertRow, ReadTotal, Critical, lockVars
  <2>4. CASE SelectCandidates(p) \/ UnlinkVictim(p) \/ DeleteRow(p)
    BY <2>4 DEF SelectCandidates, UnlinkVictim, DeleteRow, Critical, lockVars
  <2>5. CASE TimeOut(p) \/ DownloadFails(p) \/ VerifyBad(p) \/ SizeGone(p) \/ Return(p)
    BY <2>5 DEF TimeOut, DownloadFails, VerifyBad, SizeGone, Return, Raise, EndCall, Advance
  <2>6. QED
    BY <2>1, <2>2, <2>3, <2>4, <2>5 DEF Step
<1>2. \A q \in Procs \ {p} : pc'[q] = pc[q]
  BY DEF Advance
<1>3. MutualExclusion'
  BY <1>1 DEF MutualExclusion
<1>4. QED
  BY <1>1, <1>2, <1>3

\* Leaving a call, the process leaves the only lock it can hold.
LEMMA EndCallHoldersInv ==
    ASSUME IInv, NEW p \in Procs, Step(p) \/ Crash(p), pc[p] # "idle",
           NEW o \in {"none", "ok", "error"}, EndCall(p, o)
    PROVE  HoldersInv'
<1> USE DEF IInv, Calls, TypeOK, LockTypeOK, HoldersInv, EndCall, Goto
<1>1. \A c \in Contents : holders'[c] = holders[c] \ {p}
  <2>1. req[p].cid \in Contents
    BY DEF RequestInv, Paths
  <2>2. CASE Crash(p)
    BY <2>2 DEF Crash, LockDie
  <2>3. CASE LeaveLock(p, req[p].cid) \/ LockExit(p, req[p].cid)
    <3>1. \A c \in Contents : p \in holders[c] => c = req[p].cid
      OBVIOUS
    <3>2. CASE LockExit(p, req[p].cid)
      <4>1. holders' = [holders EXCEPT ![req[p].cid] = @ \ {p}]
        BY <3>2 DEF LockExit
      <4>2. \A c \in Contents \ {req[p].cid} : holders[c] = holders[c] \ {p}
        BY <3>1
      <4>3. QED
        BY <4>1, <4>2, <2>1
    <3>3. CASE UNCHANGED lockVars /\ p \notin holders[req[p].cid]
      BY <3>1, <3>3 DEF lockVars
    <3>4. QED
      BY <2>3, <3>2, <3>3 DEF LeaveLock
  <2>4. CASE Advance(p)
    BY <2>4 DEF Advance, Location
  <2>5. TimeOut(p) \/ DownloadFails(p) \/ VerifyBad(p) \/ SizeGone(p) \/ Return(p)
          => LeaveLock(p, req[p].cid) \/ LockExit(p, req[p].cid)
    BY DEF TimeOut, LockTimeOut, DownloadFails, VerifyBad, SizeGone, Return, Raise
  <2>6. Step(p) => \/ Advance(p)
                   \/ TimeOut(p) \/ DownloadFails(p) \/ VerifyBad(p) \/ SizeGone(p) \/ Return(p)
    BY DEF Step, Lookup, HeadStream, HeadSmall, Recheck, Acquire, LockedCheck, Download, WriteBody, BeginStream, EndStream,
       VerifyGood, Publish, TestExists, ReadSize, UpsertRow, ReadTotal,
       SelectCandidates, UnlinkVictim, DeleteRow, Advance, At, Location
  <2>7. QED
    BY <2>2, <2>3, <2>4, <2>5, <2>6
<1>2. /\ pc'[p] = "idle"
      /\ \A q \in Procs \ {p} : pc'[q] = pc[q] /\ req'[q] = req[q]
  OBVIOUS
<1>3. MutualExclusion'
  BY <1>1 DEF MutualExclusion
<1>4. ASSUME NEW c \in Contents, NEW q \in holders'[c]
      PROVE  pc'[q] \notin {"idle", "lookup", "head", "recheck", "lock"} /\ req'[q].cid = c
  <2>1. q \in holders[c] /\ q # p /\ q \in Procs
    BY <1>1, <1>4
  <2>2. QED
    BY <2>1, <1>2
<1>5. ASSUME NEW q \in Procs, pc'[q] \in Critical PROVE q \in holders'[req'[q].cid]
  <2>1. q # p /\ pc[q] \in Critical /\ req'[q] = req[q]
    BY <1>2, <1>5 DEF Critical
  <2>2. q \in holders[req[q].cid] /\ req[q].cid \in Contents
    BY <2>1 DEF RequestInv, Critical, Paths
  <2>3. QED
    BY <2>1, <2>2, <1>1
<1>6. QED
  BY <1>3, <1>4, <1>5

\* On POSIX every step keeps the holders in order.
LEMMA StepHoldersInv == ASSUME Posix, IInv, [Next]_vars PROVE HoldersInv'
<1>1. ASSUME NEW p \in Procs, NEW x \in Paths, Call(p, x) PROVE HoldersInv'
  BY <1>1 DEF IInv, Calls, TypeOK, LockTypeOK, HoldersInv, MutualExclusion, Critical,
     Call, At, Goto, lockVars
<1>2. ASSUME NEW p \in Procs, Step(p) \/ Crash(p) PROVE HoldersInv'
  <2>1. CASE \E o \in {"none", "ok", "error"} : EndCall(p, o) /\ pc[p] # "idle"
    BY <1>2, <2>1, EndCallHoldersInv
  <2>2. CASE Advance(p) /\ Step(p)
    BY <2>2, AcquireHoldersInv, AdvanceHoldersInv
  <2>3. CASE Advance(p) /\ Crash(p)
    BY <2>3, EndCallHoldersInv DEF Advance, Crash, EndCall
  <2>4. QED
    BY <1>2, <2>1, <2>2, <2>3, StepKinds DEF IInv
<1>3. ASSUME NEW p \in Procs, NEW c \in Contents, Touch(p, c) PROVE HoldersInv'
  BY <1>3 DEF IInv, Calls, HoldersInv, MutualExclusion, Touch, lockVars
<1>4. CASE Tick \/ UNCHANGED vars
  BY <1>4 DEF IInv, Calls, HoldersInv, MutualExclusion, Tick, vars, lockVars
<1>5. QED
  BY <1>1, <1>2, <1>3, <1>4 DEF Next

-----------------------------------------------------------------------------
\* The verified bytes

\* Two processes past the lock of one path are one process.
LEMMA OneWriter ==
    ASSUME IInv, NEW p \in Procs, NEW q \in Procs,
           pc[p] \in Critical, pc[q] \in Critical, req[p] = req[q]
    PROVE  p = q
<1>1. req[p].cid \in Contents
  BY DEF IInv, Calls, RequestInv, Critical, Paths
<1>2. QED
  BY <1>1 DEF IInv, Calls, HoldersInv, MutualExclusion

\* Every step keeps final files verified.
LEMMA StepVerifiedInv == ASSUME IInv, [Next]_vars PROVE VerifiedInv'
<1> USE DEF IInv, Calls, TypeOK, VerifiedInv, FinalFilesVerified, At, Goto
<1>1. ASSUME NEW p \in Procs, NEW x \in Paths, Call(p, x) PROVE VerifiedInv'
  BY <1>1 DEF Call, storeVars
<1>2. ASSUME NEW p \in Procs, Step(p) \/ Crash(p) PROVE VerifiedInv'
  <2> SUFFICES /\ FinalFilesVerified'
               /\ \A q \in Procs : pc'[q] = "publish" => tmp'[req'[q]] = "good"
    OBVIOUS
  <2>1. \A q \in Procs \ {p} : pc'[q] = pc[q] /\ req'[q] = req[q]
    BY <1>2, StepFrame
  <2>2. CASE LockedCheck(p) \/ Download(p) \/ VerifyBad(p) \/ Publish(p)
    <3>1. pc[p] \in Critical /\ req[p] \in Paths
      BY <2>2 DEF LockedCheck, Download, WriteBody, BeginStream, EndStream, VerifyBad, Publish, Critical, RequestInv
    <3>2. \E b : tmp' = tmp \/ tmp' = [tmp EXCEPT ![req[p]] = b]
      BY <2>2 DEF LockedCheck, Download, WriteBody, BeginStream, EndStream, VerifyBad, Publish
    <3>3. pc'[p] # "publish"
      BY <2>2 DEF LockedCheck, Download, WriteBody, BeginStream, EndStream, VerifyBad, Publish, Raise, EndCall
    <3>4. FinalFilesVerified'
      BY <2>2, <3>1 DEF LockedCheck, Download, WriteBody, BeginStream, EndStream, VerifyBad, Publish
    <3>5. ASSUME NEW q \in Procs, pc'[q] = "publish" PROVE tmp'[req'[q]] = "good"
      <4>1. q # p /\ pc[q] = "publish" /\ req'[q] = req[q] /\ tmp[req[q]] = "good"
        BY <3>3, <3>5, <2>1
      <4>2. req[q] # req[p] /\ req[q] \in Paths
        BY <4>1, <3>1, OneWriter DEF Critical, RequestInv
      <4>3. QED
        BY <4>1, <4>2, <3>2
    <3>6. QED
      BY <3>4, <3>5
  <2>3. CASE VerifyGood(p)
    BY <2>3 DEF VerifyGood, storeVars
  <2>4. CASE UnlinkVictim(p)
    BY <2>4 DEF UnlinkVictim
  <2>5. CASE \/ Lookup(p) \/ HeadStream(p) \/ HeadSmall(p) \/ Recheck(p) \/ Acquire(p)
             \/ TestExists(p) \/ ReadSize(p) \/ UpsertRow(p) \/ ReadTotal(p)
             \/ SelectCandidates(p) \/ DeleteRow(p)
    BY <2>5 DEF Lookup, HeadStream, HeadSmall, Recheck, Acquire, TestExists, ReadSize,
       UpsertRow, ReadTotal, SelectCandidates, DeleteRow, storeVars
  <2>6. CASE TimeOut(p) \/ DownloadFails(p) \/ SizeGone(p) \/ Return(p) \/ Crash(p)
    <3>1. UNCHANGED storeVars /\ \E o : EndCall(p, o)
      BY <2>6 DEF TimeOut, DownloadFails, SizeGone, Return, Crash, Raise
    <3>2. pc'[p] = "idle"
      BY <3>1 DEF EndCall
    <3>3. QED
      BY <2>1, <3>1, <3>2 DEF storeVars
  <2>7. QED
    BY <1>2, <2>2, <2>3, <2>4, <2>5, <2>6 DEF Step
<1>3. ASSUME NEW p \in Procs, NEW c \in Contents, Touch(p, c) PROVE VerifiedInv'
  BY <1>3 DEF Touch
<1>4. CASE Tick \/ UNCHANGED vars
  BY <1>4 DEF Tick, vars, storeVars
<1>5. QED
  BY <1>1, <1>2, <1>3, <1>4 DEF Next

-----------------------------------------------------------------------------

\* What a call needs of itself holds with either kind of lock.
LEMMA CallsInvariant == Spec => []Calls
<1>1. Init => Calls
  BY InitIInv DEF IInv
<1>2. Calls /\ [Next]_vars => Calls'
  BY StepTypeOK, StepRequestInv, StepCandidatesInv DEF Calls
<1>3. QED
  BY <1>1, <1>2, PTL DEF Spec

\* The inductive invariant: whatever the processes do, they hold the locks of
\* their own requests, and what a holder has verified nobody else has touched.
THEOREM CacheInvariant == ASSUME Posix PROVE Spec => []IInv
<1>1. Init => IInv
  BY InitIInv
<1>2. IInv /\ [Next]_vars => IInv'
  BY StepTypeOK, StepRequestInv, StepCandidatesInv, StepHoldersInv, StepVerifiedInv
     DEF IInv, Calls
<1>3. QED
  BY <1>1, <1>2, PTL DEF Spec

\* Every state of the cache is well typed, for any number of processes and
\* either kind of lock.
THEOREM CacheTypeCorrect == Spec => []TypeOK
<1>1. Calls => TypeOK
  BY DEF Calls
<1>2. QED
  BY <1>1, CallsInvariant, PTL

\* No file is visible under its final name with bytes that do not hash to its
\* content id (cache.py:97-151, 308-338).
THEOREM CacheFilesVerified == ASSUME Posix PROVE Spec => []FinalFilesVerified
<1>1. IInv => FinalFilesVerified
  BY DEF IInv, Calls, VerifiedInv
<1>2. QED
  BY <1>1, CacheInvariant, PTL

-----------------------------------------------------------------------------
\* The content store

Avail == {x \in Paths : disk[x] = "good"}
Seen == {q \in Procs : pc[q] \in Settled}

\* How Seen follows a move of one process.
LEMMA SeenMoves ==
    ASSUME TypeOK, NEW p \in Procs, NEW to \in Location, Goto(p, to)
    PROVE  /\ to \in Settled => Seen' = Seen \union {p}
           /\ to \notin Settled => Seen' = Seen \ {p}
           /\ (to \in Settled <=> pc[p] \in Settled) => Seen' = Seen
<1>1. pc'[p] = to /\ \A q \in Procs \ {p} : pc'[q] = pc[q]
  BY DEF TypeOK, Goto
<1>2. QED
  BY <1>1 DEF Seen

\* A call that ends is the store's End; it returns a path only if it has seen it.
LEMMA EndCallMaps ==
    ASSUME IInv, NEW p \in Procs, pc[p] # "idle", UNCHANGED disk,
           NEW o \in {"none", "ok", "error"}, EndCall(p, o),
           o = "ok" => pc[p] \in Settled
    PROVE  Store!End(p, o)
<1>1. req[p] # None
  BY NoneAssumption DEF IInv, Calls, RequestInv
<1>2. Seen' = Seen \ {p}
  BY SeenMoves DEF IInv, Calls, EndCall, Settled, Location
<1>3. o = "ok" => p \in Seen
  BY DEF Seen
<1>4. QED
  BY <1>1, <1>2, <1>3 DEF Store!End, EndCall, Seen

\* A hit test that succeeds is the store's See, one that fails is invisible.
LEMMA HitMaps ==
    ASSUME IInv, NEW p \in Procs, Lookup(p) \/ Recheck(p) \/ LockedCheck(p)
    PROVE  Store!See(p) \/ UNCHANGED Store!vars
<1> USE DEF IInv, Calls, Lookup, Recheck, LockedCheck, At
<1>1. UNCHANGED <<disk, req, result>> /\ pc[p] \notin Settled /\ req[p] \in Paths
  BY DEF storeVars, Settled, RequestInv
<1>2. CASE Hit(req[p])
  <2>1. Goto(p, "exists")
    BY <1>2
  <2>2. Seen' = Seen \union {p}
    BY <2>1, SeenMoves DEF Settled, Location
  <2>3. req[p] \in Avail
    BY <1>1, <1>2 DEF Avail, Hit, VerifiedInv, FinalFilesVerified
  <2>4. QED
    BY <1>1, <2>2, <2>3 DEF Store!See, Seen, Avail
<1>3. CASE ~Hit(req[p])
  <2>1. PICK to \in {"head", "lock", "download"} : Goto(p, to)
    BY <1>3
  <2>2. Seen' = Seen
    BY <1>1, <2>1, SeenMoves DEF Settled, Location
  <2>3. QED
    BY <1>1, <2>2 DEF Store!vars, Seen
<1>4. QED
  BY <1>2, <1>3

\* The rename is the store's Materialise.
LEMMA PublishMaps ==
    ASSUME IInv, NEW p \in Procs, Publish(p) PROVE Store!Materialise(p)
<1> USE DEF IInv, Calls, TypeOK, Publish, At
<1>1. req[p] \in Paths /\ tmp[req[p]] = "good" /\ UNCHANGED <<req, result>>
  BY DEF RequestInv, VerifiedInv
<1>2. Seen' = Seen \union {p}
  BY SeenMoves DEF Settled, Location
<1>3. disk'[req[p]] = "good" /\ \A x \in Paths \ {req[p]} : disk'[x] = disk[x]
  BY <1>1 DEF Hit, VerifiedInv, FinalFilesVerified
<1>4. Avail' = Avail \union {req[p]}
  BY <1>1, <1>3 DEF Avail
<1>5. QED
  BY <1>1, <1>2, <1>4 DEF Store!Materialise, Avail, Seen

\* A deletion is the store's Drop, or nothing when it fails.
LEMMA UnlinkMaps ==
    ASSUME IInv, NEW p \in Procs, UnlinkVictim(p)
    PROVE  (\E x \in Paths : Store!Drop(p, x)) \/ UNCHANGED Store!vars
<1> USE DEF IInv, Calls, TypeOK, UnlinkVictim, At
<1>1. p \in Seen /\ Seen' = Seen
  BY SeenMoves DEF Settled, Location, Seen
<1>2. req[p] \in Paths /\ UNCHANGED <<req, result>>
  BY DEF RequestInv
<1>3. CASE UNCHANGED disk
  BY <1>1, <1>2, <1>3 DEF Store!vars, Seen
<1>4. CASE disk' = [disk EXCEPT ![Victim(p)] = Absent]
  <2>1. cands[p] # <<>> /\ cands[p] \in Seq(Candidate)
    BY DEF CandidatesInv
  <2>2. Head(cands[p]) \in Candidate /\ Head(cands[p]).cid # req[p].cid
    BY <2>1, TailCandidates DEF CandidatesInv
  <2>3. Victim(p) \in Paths /\ Victim(p).cid # req[p].cid
    BY <2>2 DEF Victim, Candidate, Paths
  <2>4. Avail' = Avail \ {Victim(p)}
    BY <1>4, <2>3 DEF Avail, Absent
  <2>5. Store!Drop(p, Victim(p))
    BY <1>1, <1>2, <2>3, <2>4 DEF Store!Drop, Avail, Seen
  <2>6. \E x \in Paths : Store!Drop(p, x)
    <3> HIDE DEF IInv, Calls, TypeOK, UnlinkVictim, At
    <3>1. QED
      BY <2>3, <2>5 DEF Store!Drop
  <2>7. QED
    BY <2>6
<1> HIDE DEF IInv, Calls, TypeOK, UnlinkVictim, At
<1>5. QED
  BY <1>3, <1>4 DEF UnlinkVictim

\* The steps a caller cannot see.
LEMMA InvisibleSteps ==
    ASSUME IInv, NEW p \in Procs,
           \/ HeadStream(p) \/ HeadSmall(p) \/ Acquire(p) \/ Download(p) \/ VerifyGood(p)
           \/ TestExists(p) \/ ReadSize(p) \/ UpsertRow(p) \/ ReadTotal(p)
           \/ SelectCandidates(p) \/ DeleteRow(p)
    PROVE  UNCHANGED Store!vars
<1> USE DEF IInv, Calls, At
<1>1. UNCHANGED <<disk, req, result>>
  BY DEF HeadStream, HeadSmall, Acquire, Download, WriteBody, BeginStream, EndStream, VerifyGood, TestExists, ReadSize,
     UpsertRow, ReadTotal, SelectCandidates, DeleteRow, storeVars
<1>2. CASE HeadStream(p) \/ HeadSmall(p) \/ Acquire(p) \/ Download(p) \/ VerifyGood(p)
  <2>1. PICK to \in {"recheck", "locked", "stream", "verify", "publish"} : Goto(p, to)
    BY <1>2 DEF HeadStream, HeadSmall, Acquire, Download, WriteBody, BeginStream, EndStream, VerifyGood
  <2>2. pc[p] \notin Settled
    BY <1>2 DEF HeadStream, HeadSmall, Acquire, Download, WriteBody, BeginStream, EndStream, VerifyGood, Settled
  <2>3. Seen' = Seen
    BY <2>1, <2>2, SeenMoves DEF Settled, Location
  <2>4. QED
    BY <1>1, <2>3 DEF Store!vars, Seen
<1>3. CASE \/ TestExists(p) \/ ReadSize(p) \/ UpsertRow(p) \/ ReadTotal(p)
           \/ SelectCandidates(p) \/ DeleteRow(p)
  <2>1. PICK to \in Settled : Goto(p, to)
    BY <1>3 DEF TestExists, ReadSize, UpsertRow, ReadTotal, SelectCandidates, DeleteRow, Settled
  <2>2. pc[p] \in Settled
    BY <1>3 DEF TestExists, ReadSize, UpsertRow, ReadTotal, SelectCandidates, DeleteRow, Settled
  <2>3. Seen' = Seen
    BY <2>1, <2>2, SeenMoves DEF Settled, Location
  <2>4. QED
    BY <1>1, <2>3 DEF Store!vars, Seen
<1>4. QED
  BY <1>2, <1>3

\* The cache does what the content store promises: every step of a process is
\* a step of the store or invisible to callers (cache.py:59-154, 296-390).
THEOREM CacheImplementsStore == ASSUME Posix PROVE Spec => StoreSpec
<1>1. ASSUME Init PROVE Store!Init
  <2>1. Avail = {} /\ req = [q \in Procs |-> None] /\ result = [q \in Procs |-> "none"]
    BY <1>1 DEF Init, Avail, Absent
  <2>2. Seen = {}
    BY <1>1 DEF Init, Settled, Seen
  <2>3. QED
    BY <2>1, <2>2 DEF Store!Init, Avail, Seen
<1>2. ASSUME IInv, [Next]_vars PROVE [Store!Next]_(Store!vars)
  <2>1. ASSUME NEW p \in Procs, NEW x \in Paths, Call(p, x) PROVE Store!Ask(p, x)
    <3>1. Seen' = Seen /\ req[p] = None
      BY <1>2, <2>1, SeenMoves DEF Call, At, IInv, Calls, RequestInv, Settled, Location
    <3>2. QED
      BY <2>1, <3>1 DEF Store!Ask, Call, storeVars, Seen
  <2>2. ASSUME NEW p \in Procs, Step(p) \/ Crash(p) PROVE [Store!Next]_(Store!vars)
    <3>1. CASE Lookup(p) \/ Recheck(p) \/ LockedCheck(p)
      BY <1>2, <3>1, HitMaps DEF Store!Next
    <3>2. CASE Publish(p)
      BY <1>2, <3>2, PublishMaps DEF Store!Next
    <3>3. CASE UnlinkVictim(p)
      BY <1>2, <3>3, UnlinkMaps DEF Store!Next
    <3>4. CASE TimeOut(p) \/ DownloadFails(p) \/ SizeGone(p) \/ VerifyBad(p)
      BY <1>2, <3>4, EndCallMaps
         DEF Store!Next, TimeOut, DownloadFails, SizeGone, VerifyBad, Raise, At, storeVars
    <3>5. CASE Return(p)
      BY <1>2, <3>5, EndCallMaps DEF Store!Next, Return, At, storeVars, Settled
    <3>6. CASE Crash(p)
      BY <1>2, <3>6, EndCallMaps DEF Store!Next, Crash, At, storeVars
    <3>7. QED
      BY <1>2, <2>2, <3>1, <3>2, <3>3, <3>4, <3>5, <3>6, InvisibleSteps DEF Step
  <2>3. CASE (\E p \in Procs, c \in Contents : Touch(p, c)) \/ Tick \/ UNCHANGED vars
    BY <2>3 DEF Touch, Tick, vars, storeVars, Store!vars
  <2>4. QED
    BY <1>2, <2>1, <2>2, <2>3 DEF Next, Store!Next
<1>3. QED
  BY <1>1, <1>2, CacheInvariant, PTL DEF Spec, StoreSpec, Store!Spec

-----------------------------------------------------------------------------
\* One process: eviction is LRU

OneProcess == \A p, q \in Procs : p = q

\* The eviction loop after the first read of the total.
Evicting == {"total", "unlink", "forget"}

\* Rows are as old as the clock says, and the row of the call is the youngest
\* once it is written.
AgesInv ==
    /\ \A c \in Indexed : index[c].at <= clock
    /\ \A p \in Procs : pc[p] \in Evicting \union {"select", "leave"} =>
          /\ req[p].cid \in Indexed
          /\ \A c \in Indexed : index[c].at <= index[req[p].cid].at

\* s lists rows, oldest first, and every other row but own is no older.
Oldest(s, own) ==
    /\ \A i \in DOMAIN s : s[i].cid \in Indexed /\ index[s[i].cid].at = s[i].at
    /\ \A i, j \in DOMAIN s : i < j => s[i].cid # s[j].cid /\ s[i].at <= s[j].at
    /\ \A c \in Indexed \ {own} : \/ \E i \in DOMAIN s : s[i].cid = c
                                  \/ \A i \in DOMAIN s : s[i].at <= index[c].at

\* The candidates stay the oldest rows while the loop works them off.
QueueInv == \A p \in Procs :
    IF pc[p] \in Evicting THEN Oldest(cands[p], req[p].cid) ELSE cands[p] = <<>>

LruInv == Calls /\ AgesInv /\ QueueInv

\* Dropping the first candidate and its row leaves the oldest rows.
LEMMA OldestTail ==
    ASSUME TypeOK, NEW s \in Seq(Candidate), s # <<>>, NEW own, Oldest(s, own),
           index' = [index EXCEPT ![Head(s).cid] = None]
    PROVE  Oldest(Tail(s), own)'
<1>1. Head(s) = s[1] /\ 1 \in DOMAIN s /\ Head(s).cid \in Contents
  BY TailCandidates DEF Candidate
<1>2. \A i \in DOMAIN Tail(s) : i \in Nat /\ i + 1 \in DOMAIN s /\ Tail(s)[i] = s[i + 1] /\ 1 < i + 1
  BY TailCandidates
<1>3. \A c \in Contents : index'[c] = IF c = s[1].cid THEN None ELSE index[c]
  BY <1>1 DEF TypeOK
<1>4. Indexed' = Indexed \ {s[1].cid}
  BY <1>3 DEF Indexed
<1>5. \A i \in DOMAIN Tail(s) : s[i + 1].cid # s[1].cid /\ s[i + 1].cid \in Indexed
                               /\ index[s[i + 1].cid].at = s[i + 1].at
  BY <1>1, <1>2 DEF Oldest
<1>6. \A i \in DOMAIN Tail(s) : /\ Tail(s)[i].cid \in Indexed'
                                /\ index'[Tail(s)[i].cid].at = Tail(s)[i].at
  BY <1>2, <1>3, <1>4, <1>5 DEF Indexed
<1>7. ASSUME NEW i \in DOMAIN Tail(s), NEW j \in DOMAIN Tail(s), i < j
      PROVE  Tail(s)[i].cid # Tail(s)[j].cid /\ Tail(s)[i].at <= Tail(s)[j].at
  <2>1. i + 1 < j + 1
    BY <1>2, <1>7
  <2>2. QED
    BY <2>1, <1>2 DEF Oldest
<1>8. ASSUME NEW c \in Indexed' \ {own}
      PROVE  \/ \E i \in DOMAIN Tail(s) : Tail(s)[i].cid = c
             \/ \A i \in DOMAIN Tail(s) : Tail(s)[i].at <= index'[c].at
  <2>1. c \in Indexed \ {own} /\ c # s[1].cid /\ index'[c] = index[c]
    BY <1>3, <1>4, <1>8 DEF Indexed
  <2>2. CASE \E i \in DOMAIN s : s[i].cid = c
    <3>1. PICK i \in DOMAIN s : s[i].cid = c
      BY <2>2
    <3>2. i # 1 /\ i \in 1..Len(s)
      BY <2>1, <3>1
    <3>3. i - 1 \in DOMAIN Tail(s) /\ (i - 1) + 1 = i
      BY <3>2
    <3>4. QED
      BY <1>2, <3>1, <3>3
  <2>3. CASE \A i \in DOMAIN s : s[i].at <= index[c].at
    BY <1>2, <2>1, <2>3
  <2>4. QED
    BY <2>1, <2>2, <2>3 DEF Oldest
<1>9. QED
  BY <1>6, <1>7, <1>8 DEF Oldest

\* An eviction query answers with the oldest rows.
LEMMA OldestQueried ==
    ASSUME TypeOK, NEW own, NEW s \in EvictionCandidates(own)
    PROVE  Oldest(CacheEntries(s), own)
<1>1. PICK n \in 0..Batch : s \in [1..n -> Indexed \ {own}]
  BY DEF EvictionCandidates
<1>2. n \in Nat /\ Len(s) = n /\ DOMAIN s = 1..n
  BY <1>1, CacheAssumption
<1>3. /\ \A i, j \in 1..n : i < j => s[i] # s[j] /\ index[s[i]].at <= index[s[j]].at
      /\ \A c \in Indexed \ {own} : \/ \E i \in 1..n : s[i] = c
                                    \/ \A i \in 1..n : index[s[i]].at <= index[c].at
  BY <1>2 DEF EvictionCandidates
<1>4. CacheEntries(s) = [i \in 1..n |-> [cid |-> s[i], name |-> index[s[i]].name,
                                         at |-> index[s[i]].at]]
  BY <1>2 DEF CacheEntries
<1>5. /\ DOMAIN CacheEntries(s) = 1..n
      /\ \A i \in 1..n : /\ CacheEntries(s)[i].cid = s[i]
                         /\ CacheEntries(s)[i].at = index[s[i]].at
                         /\ s[i] \in Indexed
  BY <1>1, <1>4
<1>6. QED
  BY <1>3, <1>5 DEF Oldest

\* Steps of a call up to its row: no row changes, no candidate is listed.
Before(p) == \/ Lookup(p) \/ HeadStream(p) \/ HeadSmall(p) \/ Recheck(p) \/ Acquire(p)
             \/ LockedCheck(p) \/ Download(p) \/ VerifyGood(p) \/ Publish(p)
             \/ TestExists(p) \/ ReadSize(p)

\* Steps that leave a call.
Leaves(p) == TimeOut(p) \/ DownloadFails(p) \/ VerifyBad(p) \/ SizeGone(p) \/ Return(p) \/ Crash(p)

LEMMA BeforeFrame ==
    ASSUME TypeOK, NEW p \in Procs, Before(p)
    PROVE  /\ UNCHANGED <<index, clock, req, cands, result>>
           /\ pc[p] \notin Evicting \union {"idle", "select", "leave"}
           /\ pc'[p] \notin Evicting \union {"idle", "select", "leave"}
BY DEF Before, Lookup, HeadStream, HeadSmall, Recheck, Acquire, LockedCheck, Download, WriteBody, BeginStream, EndStream,
   VerifyGood, Publish, TestExists, ReadSize, storeVars, callVars, Evicting, At, Goto, TypeOK

LEMMA LeavesFrame ==
    ASSUME TypeOK, NEW p \in Procs, Leaves(p)
    PROVE  /\ UNCHANGED <<disk, part, index, spared, clock>> /\ pc[p] # "idle"
           /\ pc'[p] = "idle" /\ cands'[p] = <<>> /\ fresh'[p] = FALSE /\ body'[p] = Absent
           /\ tmp' = tmp \/ (VerifyBad(p) /\ tmp' = [tmp EXCEPT ![req[p]] = Absent])
           /\ Return(p) \/ result'[p] \in {"none", "error"}
BY DEF Leaves, TimeOut, DownloadFails, VerifyBad, SizeGone, Return, Crash, Raise, EndCall,
   storeVars, At, Goto, TypeOK

\* Every step keeps the rows' ages.
LEMMA StepAgesInv == ASSUME OneProcess, LruInv, [Next]_vars PROVE AgesInv'
<1> USE DEF LruInv, Calls
<1> DEFINE Late == Evicting \union {"select", "leave"}
<1>0. /\ TypeOK /\ \A c \in Indexed : index[c] \in Row /\ index[c].at \in Nat
      /\ clock \in Nat
  BY CacheAssumption DEF TypeOK, Indexed, Row
<1>1. ASSUME NEW p \in Procs, NEW x \in Paths, Call(p, x) PROVE AgesInv'
  BY <1>0, <1>1 DEF Call, Goto, AgesInv, Indexed, Evicting, OneProcess, storeVars, TypeOK
<1>2. ASSUME NEW p \in Procs, Before(p) \/ Leaves(p) PROVE AgesInv'
  <2>1. UNCHANGED <<index, clock>> /\ pc'[p] \notin Late
    BY <1>0, <1>2, BeforeFrame, LeavesFrame DEF Evicting
  <2>2. QED
    BY <2>1 DEF AgesInv, Indexed, OneProcess
<1>3. ASSUME NEW p \in Procs, UpsertRow(p) PROVE AgesInv'
  <2>1. req[p] \in Paths /\ req[p].cid \in Contents /\ req' = req /\ clock' = clock
    BY <1>3 DEF UpsertRow, At, RequestInv, Paths
  <2>2. /\ \A c \in Contents \ {req[p].cid} : index'[c] = index[c]
        /\ index'[req[p].cid] # None /\ index'[req[p].cid].at = clock
    <3>1. [name |-> req[p].name, size |-> stat[p], at |-> clock] \in Row
      BY <1>0, <2>1 DEF TypeOK, Row, Paths
    <3>2. QED
      BY <1>0, <1>3, <2>1, <3>1, NoneAssumption DEF UpsertRow, TypeOK
  <2>3. Indexed' = Indexed \union {req[p].cid}
    BY <2>1, <2>2 DEF Indexed
  <2>4. \A c \in Indexed' : index'[c].at <= clock
    BY <1>0, <2>1, <2>2, <2>3 DEF AgesInv, Indexed
  <2>5. QED
    BY <2>1, <2>2, <2>3, <2>4 DEF AgesInv, OneProcess
<1>4. ASSUME NEW p \in Procs, ReadTotal(p) \/ SelectCandidates(p) \/ UnlinkVictim(p) PROVE AgesInv'
  <2>1. UNCHANGED <<index, clock, req>> /\ pc[p] \in Late
    BY <1>4 DEF ReadTotal, SelectCandidates, UnlinkVictim, storeVars, At, Evicting
  <2>2. QED
    BY <2>1 DEF AgesInv, Indexed, OneProcess
<1>5. ASSUME NEW p \in Procs, DeleteRow(p) PROVE AgesInv'
  <2>1. UNCHANGED <<clock, req>> /\ pc[p] \in Late
    BY <1>5 DEF DeleteRow, At, Evicting
  <2>2. Head(cands[p]).cid # req[p].cid
    <3>1. cands[p] # <<>> /\ cands[p] \in Seq(Candidate)
      BY <1>0, <1>5 DEF DeleteRow, At, CandidatesInv, TypeOK
    <3>2. QED
      BY <3>1, TailCandidates DEF CandidatesInv
  <2>3. \A c \in Indexed' : c \in Indexed /\ index'[c] = index[c]
    BY <1>0, <1>5 DEF DeleteRow, Indexed, TypeOK
  <2>4. req[p].cid \in Indexed'
    BY <1>0, <1>5, <2>1, <2>2 DEF DeleteRow, Indexed, TypeOK, AgesInv
  <2>5. QED
    BY <2>1, <2>3, <2>4 DEF AgesInv, OneProcess
<1>6. ASSUME NEW p \in Procs, NEW c \in Contents, Touch(p, c) PROVE AgesInv'
  <2>1. pc[p] = "idle" /\ UNCHANGED <<pc, clock, req>> /\ Indexed' = Indexed
    <3>1. [index[c] EXCEPT !.at = clock] \in Row
      BY <1>0, <1>6 DEF Touch, Row
    <3>2. c \in Indexed /\ index' = [index EXCEPT ![c] = [index[c] EXCEPT !.at = clock]]
      BY <1>6 DEF Touch
    <3>3. QED
      BY <1>0, <1>6, <3>1, <3>2, NoneAssumption DEF Touch, At, Indexed, TypeOK
  <2>2. \A d \in Indexed : index'[d].at \in {index[d].at, clock}
    BY <1>0, <1>6 DEF Touch, Indexed, TypeOK, Row
  <2>3. \A d \in Indexed : index'[d].at <= clock
    BY <1>0, <2>2 DEF AgesInv
  <2>4. QED
    BY <2>1, <2>3 DEF AgesInv, OneProcess, Evicting
<1>7. CASE Tick
  <2>1. UNCHANGED <<index, pc, req>> /\ clock' = clock + 1
    BY <1>7 DEF Tick, storeVars
  <2>2. QED
    BY <1>0, <2>1 DEF AgesInv, Indexed
<1>8. CASE UNCHANGED vars
  BY <1>8 DEF vars, storeVars, AgesInv, Indexed
<1>9. QED
  BY <1>1, <1>2, <1>3, <1>4, <1>5, <1>6, <1>7, <1>8 DEF Next, Step, Before, Leaves

\* Every step keeps the queue of candidates in order.
LEMMA StepQueueInv == ASSUME OneProcess, LruInv, [Next]_vars PROVE QueueInv'
<1> USE DEF LruInv, Calls
<1>0. TypeOK
  OBVIOUS
<1>1. ASSUME NEW p \in Procs, NEW x \in Paths, Call(p, x) PROVE QueueInv'
  BY <1>0, <1>1 DEF Call, At, Goto, QueueInv, OneProcess, callVars, Evicting, TypeOK
<1>2. ASSUME NEW p \in Procs, Before(p) PROVE QueueInv'
  BY <1>0, <1>2, BeforeFrame DEF QueueInv, OneProcess
<1>3. ASSUME NEW p \in Procs, Leaves(p) PROVE QueueInv'
  BY <1>0, <1>3, LeavesFrame DEF QueueInv, OneProcess, Evicting
<1>4. ASSUME NEW p \in Procs, UpsertRow(p) PROVE QueueInv'
  <2>1. cands[p] = <<>> /\ cands' = cands
    BY <1>4 DEF UpsertRow, At, QueueInv, Evicting, callVars
  <2>2. Oldest(cands[p], req[p].cid)'
    BY <2>1 DEF Oldest
  <2>3. QED
    BY <2>1, <2>2 DEF QueueInv, OneProcess
<1>5. ASSUME NEW p \in Procs, ReadTotal(p) PROVE QueueInv'
  <2>1. UNCHANGED <<index, req>> /\ pc[p] = "total"
    BY <1>5 DEF ReadTotal, storeVars, At
  <2>2. CASE pc'[p] = "unlink" /\ cands' = cands
    BY <2>1, <2>2 DEF QueueInv, OneProcess, Oldest, Indexed, Evicting
  <2>3. CASE pc'[p] \in {"leave", "select"} /\ cands'[p] = <<>>
    BY <2>3 DEF QueueInv, OneProcess, Evicting
  <2>4. QED
    BY <1>0, <1>5, <2>2, <2>3 DEF ReadTotal, Goto, TypeOK
<1>6. ASSUME NEW p \in Procs, SelectCandidates(p) PROVE QueueInv'
  <2>1. PICK s \in EvictionCandidates(req[p].cid) :
           /\ cands' = [cands EXCEPT ![p] = CacheEntries(s)]
           /\ Goto(p, IF s = <<>> THEN "leave" ELSE "unlink")
    BY <1>6 DEF SelectCandidates
  <2>2. UNCHANGED <<index, req>> /\ cands'[p] = CacheEntries(s)
        /\ pc'[p] = IF s = <<>> THEN "leave" ELSE "unlink"
    BY <1>0, <1>6, <2>1 DEF SelectCandidates, storeVars, Goto, TypeOK
  <2>3. Oldest(CacheEntries(s), req[p].cid)
    BY <1>0, OldestQueried
  <2>4. Oldest(cands[p], req[p].cid)'
    BY <2>2, <2>3 DEF Oldest, Indexed
  <2>5. s = <<>> => CacheEntries(s) = <<>>
    BY DEF CacheEntries
  <2>6. QED
    BY <2>2, <2>4, <2>5 DEF QueueInv, OneProcess, Evicting
<1>7. ASSUME NEW p \in Procs, UnlinkVictim(p) PROVE QueueInv'
  <2>1. UNCHANGED <<index, req, cands>> /\ pc[p] = "unlink" /\ pc'[p] = "forget"
    BY <1>0, <1>7 DEF UnlinkVictim, At, Goto, callVars, TypeOK
  <2>2. QED
    BY <2>1 DEF QueueInv, OneProcess, Oldest, Indexed, Evicting
<1>8. ASSUME NEW p \in Procs, DeleteRow(p) PROVE QueueInv'
  <2>1. /\ pc[p] = "forget" /\ pc'[p] = "total" /\ cands'[p] = Tail(cands[p]) /\ req' = req
        /\ index' = [index EXCEPT ![Head(cands[p]).cid] = None]
    BY <1>0, <1>8 DEF DeleteRow, At, Goto, TypeOK
  <2>2. cands[p] \in Seq(Candidate) /\ cands[p] # <<>>
    BY <1>0, <2>1 DEF TypeOK, CandidatesInv
  <2>3. PICK s, own : s = cands[p] /\ own = req[p].cid
    OBVIOUS
  <2>4. Oldest(cands[p], req[p].cid)'
    <3>1. Oldest(s, own)
      BY <2>1, <2>3 DEF QueueInv, Evicting
    <3>2. Oldest(Tail(s), own)'
      BY <1>0, <2>1, <2>2, <2>3, <3>1, OldestTail
    <3>3. cands'[p] = Tail(s) /\ req'[p].cid = own
      BY <2>1, <2>3
    <3>4. QED
      BY <3>2, <3>3 DEF Oldest
  <2>5. QED
    BY <2>1, <2>4 DEF QueueInv, OneProcess, Evicting
<1>9. ASSUME NEW p \in Procs, NEW c \in Contents, Touch(p, c) PROVE QueueInv'
  BY <1>9 DEF Touch, At, callVars, QueueInv, OneProcess, Evicting
<1>10. CASE Tick \/ UNCHANGED vars
  BY <1>10 DEF Tick, vars, storeVars, callVars, QueueInv, Oldest, Indexed
<1>11. QED
  BY <1>1, <1>2, <1>3, <1>4, <1>5, <1>6, <1>7, <1>8, <1>9, <1>10
     DEF Next, Step, Before, Leaves

\* Every step that returns a path or deletes a file does it in LRU order.
LEMMA StepLru == ASSUME OneProcess, LruInv, [Next]_vars, NEW p \in Procs PROVE LruStep(p)
<1> USE DEF LruInv, Calls
<1>0. TypeOK
  OBVIOUS
<1>1. ASSUME result[p] # "ok", result'[p] = "ok"
      PROVE  \A c \in Indexed : index[c].at <= index[req[p].cid].at
  <2>1. Return(p)
    <3>1. CASE \E q \in Procs, x \in Paths : Call(q, x)
      BY <1>0, <1>1, <3>1 DEF Call, TypeOK
    <3>2. CASE \E q \in Procs : Before(q)
      BY <1>1, <3>2, <1>0, BeforeFrame
    <3>3. CASE \E q \in Procs : Leaves(q)
      BY <1>1, <3>3, <1>0, LeavesFrame DEF OneProcess
    <3>4. CASE \E q \in Procs : UpsertRow(q) \/ ReadTotal(q) \/ SelectCandidates(q)
                                \/ UnlinkVictim(q) \/ DeleteRow(q)
      BY <1>1, <3>4 DEF UpsertRow, ReadTotal, SelectCandidates, UnlinkVictim, DeleteRow
    <3>5. CASE (\E q \in Procs, c \in Contents : Touch(q, c)) \/ Tick \/ UNCHANGED vars
      BY <1>1, <3>5 DEF Touch, Tick, vars
    <3>6. QED
      BY <3>1, <3>2, <3>3, <3>4, <3>5 DEF Next, Step, Before, Leaves
  <2>2. QED
    BY <2>1 DEF Return, At, AgesInv
<1>2. ASSUME NEW x \in Files, disk'[x] = Absent, At(p, "unlink"),
             NEW c \in Indexed \ {req[p].cid}
      PROVE  index[x.cid].at <= index[c].at
  <2>1. disk[x] # Absent /\ x \in Paths
    BY DEF Files
  <2>2. UnlinkVictim(p)
    <3>1. ASSUME NEW q \in Procs, Step(q) PROVE UnlinkVictim(p)
      BY <1>2, <2>1, <3>1 DEF OneProcess, At, Step, Lookup, HeadStream, HeadSmall, Recheck,
         Acquire, TimeOut, LockedCheck, Download, WriteBody, BeginStream, EndStream, DownloadFails, VerifyGood, VerifyBad, Publish,
         TestExists, ReadSize, SizeGone, UpsertRow, ReadTotal, SelectCandidates, UnlinkVictim,
         DeleteRow, Return
    <3>2. ASSUME NEW q \in Procs, Crash(q) \/ (\E y \in Paths : Call(q, y))
                                  \/ (\E d \in Contents : Touch(q, d))
          PROVE  FALSE
      BY <1>2, <2>1, <3>2 DEF Crash, Call, Touch, storeVars
    <3>3. CASE Tick \/ UNCHANGED vars
      BY <1>2, <2>1, <3>3 DEF Tick, vars, storeVars
    <3>4. QED
      BY <3>1, <3>2, <3>3 DEF Next
  <2>3. cands[p] \in Seq(Candidate) /\ cands[p] # <<>>
    BY <1>0, <1>2 DEF At, TypeOK, CandidatesInv
  <2>4. PICK s \in Seq(Candidate) : s = cands[p] /\ s # <<>>
    BY <2>3
  <2>5. Head(s) = s[1] /\ 1 \in DOMAIN s /\ s[1] \in Candidate /\ \A i \in DOMAIN s : i \in Nat /\ 1 <= i
    BY <2>4, TailCandidates
  <2>6. x.cid = s[1].cid
    <3>1. disk' = [disk EXCEPT ![Victim(p)] = Absent]
      BY <1>2, <2>1, <2>2 DEF UnlinkVictim
    <3>2. x = Victim(p)
      BY <1>0, <1>2, <2>1, <3>1 DEF TypeOK
    <3>3. QED
      BY <2>4, <2>5, <3>2 DEF Victim
  <2>7. Oldest(s, req[p].cid)
    BY <1>2, <2>4 DEF At, QueueInv, Evicting
  <2>8. index[x.cid].at = s[1].at
    BY <2>5, <2>6, <2>7 DEF Oldest
  <2>9. \A i \in DOMAIN s : s[1].at <= s[i].at
    <3>1. s[1].at \in Nat
      BY <2>5 DEF Candidate
    <3>2. QED
      BY <2>5, <2>7, <3>1 DEF Oldest
  <2>10. CASE \E i \in DOMAIN s : s[i].cid = c
    BY <2>7, <2>8, <2>9, <2>10 DEF Oldest
  <2>11. CASE \A i \in DOMAIN s : s[i].at <= index[c].at
    BY <2>5, <2>8, <2>11
  <2>12. QED
    BY <2>7, <2>10, <2>11 DEF Oldest
<1>3. QED
  BY <1>1, <1>2 DEF LruStep

\* One process alone evicts in LRU order, whatever its batch and wherever it
\* dies: time stamps never run ahead of the clock, and the batch it works off
\* stays the oldest part of the index (cache.py:346-378, cache_index.py:44-143).
THEOREM CacheEvictsLru == ASSUME OneProcess PROVE Spec => EvictsLeastRecentlyUsed
<1>1. Init => LruInv
  <2>1. ASSUME Init PROVE AgesInv /\ QueueInv
    BY <2>1 DEF Init, AgesInv, QueueInv, Indexed, Evicting
  <2>2. QED
    BY <2>1, InitIInv DEF LruInv, IInv
<1>2. LruInv /\ [Next]_vars => LruInv'
  <2>1. ASSUME LruInv, [Next]_vars PROVE Calls'
    BY <2>1, StepTypeOK, StepRequestInv, StepCandidatesInv DEF LruInv, Calls
  <2>2. QED
    BY <2>1, StepAgesInv, StepQueueInv DEF LruInv
<1>3. LruInv /\ [Next]_vars => [\A p \in Procs : LruStep(p)]_vars
  BY StepLru
<1>4. QED
  BY <1>1, <1>2, <1>3, PTL DEF Spec, EvictsLeastRecentlyUsed

-----------------------------------------------------------------------------
\* One process and one name, and no death: the index describes the disk

OneName == \A m, n \in Names : m = n

\* The row describes the file; a file without one could not be deleted.
Matches(x) == /\ index[x.cid] # None => Hit(x) /\ index[x.cid].size = SizeOf[x.cid]
              /\ index[x.cid] = None => ~Hit(x) \/ x \in spared

\* The path whose row is behind its file: published and not yet recorded, or
\* deleted and not yet forgotten.
Open(p) == CASE pc[p] \in {"exists", "stat", "upsert"} /\ fresh[p] -> {req[p]}
             [] pc[p] = "forget" -> {Victim(p)}
             [] OTHER -> {}

\* What a call knows of the file it is about.
Known(p) ==
    /\ pc[p] = "publish" => tmp[req[p]] # Absent
    /\ pc[p] \in {"exists", "stat", "upsert"} => Hit(req[p])
    /\ pc[p] = "upsert" => stat[p] = SizeOf[req[p].cid]
    /\ pc[p] = "forget" => ~Hit(Victim(p)) \/ Victim(p) \in spared
    /\ fresh[p] => pc[p] \in Settled
    /\ pc[p] \in Evicting \union {"select"} => fresh[p]

KnownInv == \A p \in Procs : Known(p)

\* What a call knows of the bytes it fetches: the file is still missing, a body
\* in memory is a small one, and a stream that has ended has taken its half along.
Fetching(p) ==
    /\ pc[p] \in {"download", "stream", "verify", "publish"} => ~Hit(req[p])
    /\ IF pc[p] = "idle" THEN body[p] = Absent
                         ELSE body[p] # Absent => req[p].cid \in Small
    /\ pc[p] \in {"verify", "publish"} => req[p].cid \in Small \/ req[p] \notin part

HalvesInv == /\ \A p \in Procs : Fetching(p)
             /\ \A x \in part : x.cid \in Small \/ ~Hit(x)

\* A temporary file belongs to a download in progress.
TmpInv == \A x \in Paths : tmp[x] # Absent =>
             \E p \in Procs : pc[p] \in {"verify", "publish"} /\ req[p] = x

RowsInv == \A x \in Paths : Matches(x) \/ \E p \in Procs : x \in Open(p)

\* Only a call that has added a file and not yet evicted may exceed the cap.
Fits == \/ MaxBytes = 0 \/ ListedBytes <= MaxBytes \/ Cardinality(Listed) <= 1
        \/ Listed \cap spared # {}

CapInv == Fits \/ \E p \in Procs : fresh[p] /\ pc[p] # "leave"

RestInv == Calls /\ KnownInv /\ HalvesInv /\ TmpInv /\ RowsInv /\ CapInv

\* With one name a content id is a path.
LEMMA OnePath == ASSUME OneName, NEW x \in Paths, NEW y \in Paths, x.cid = y.cid PROVE x = y
BY DEF OneName, Paths

\* With one name a row tells of the only path of its content.
LEMMA ListedPaths ==
    ASSUME OneName, TypeOK
    PROVE  Listed = {x \in Paths : Hit(x) /\ index[x.cid] # None /\ index[x.cid].size = SizeOf[x.cid]}
<1>1. ASSUME NEW x \in Paths, index[x.cid] # None PROVE index[x.cid].name = x.name
  <2>1. index[x.cid] \in Row /\ x.name \in Names
    BY <1>1 DEF TypeOK, Paths
  <2>2. QED
    BY <2>1 DEF Row, OneName
<1>2. QED
  BY <1>1 DEF Listed, Files, Hit

\* The files that have rows depend on the files and their rows' names and sizes.
LEMMA ListedFrame ==
    ASSUME Listed' = Listed, UNCHANGED spared, Fits
    PROVE  Fits'
<1>1. ListedBytes' = ListedBytes
  BY DEF ListedBytes
<1>2. QED
  BY <1>1 DEF Fits

\* When every row describes its file, the index's total is the size on disk.
LEMMA TotalIsDisk ==
    ASSUME OneName, TypeOK, \A x \in Paths : Matches(x)
    PROVE  TotalBytes = ListedBytes
<1>1. ASSUME NEW c \in Contents
      PROVE  (IF c \in Indexed THEN index[c].size ELSE 0)
                = SizeOf[c] * Cardinality({x \in Listed : x.cid = c})
  <2>0. SizeOf[c] \in Nat
    BY CacheAssumption
  <2>1. CASE c \in Indexed
    <3>1. index[c] \in Row /\ index[c] # None
      BY <2>1 DEF TypeOK, Indexed
    <3>2. PICK x \in Paths : x.cid = c
      <4>1. [cid |-> c, name |-> index[c].name] \in Paths
        BY <3>1 DEF Row, Paths
      <4>2. QED
        BY <4>1
    <3>3. Hit(x) /\ index[c].size = SizeOf[c]
      BY <3>1, <3>2 DEF Matches
    <3>4. x \in Listed
      BY <3>1, <3>2, <3>3, ListedPaths
    <3>5. {y \in Listed : y.cid = c} = {x}
      BY <3>2, <3>4, OnePath DEF Listed, Files
    <3>6. Cardinality({y \in Listed : y.cid = c}) = 1
      BY <3>5, FS_Singleton
    <3>7. QED
      BY <2>0, <2>1, <3>3, <3>6
  <2>2. CASE c \notin Indexed
    <3>1. {y \in Listed : y.cid = c} = {}
      BY <2>2 DEF Listed, Indexed
    <3>2. Cardinality({y \in Listed : y.cid = c}) = 0
      BY <3>1, FS_EmptySet
    <3>3. QED
      BY <2>0, <2>2, <3>2
  <2>3. QED
    BY <2>1, <2>2
<1>2. [c \in Contents |-> IF c \in Indexed THEN index[c].size ELSE 0]
        = [c \in Contents |-> SizeOf[c] * Cardinality({x \in Listed : x.cid = c})]
  BY <1>1
<1>3. QED
  BY <1>2 DEF TotalBytes, ListedBytes

\* When eviction finds no candidate, the caller's file is the only one listed.
LEMMA NothingToEvict ==
    ASSUME OneName, NEW z \in Paths, <<>> \in EvictionCandidates(z.cid)
    PROVE  Cardinality(Listed) <= 1
<1>1. Indexed \subseteq {z.cid}
  <2>1. Len(<<>>) # Batch /\ DOMAIN <<>> = {}
    BY CacheAssumption
  <2>2. QED
    BY <2>1 DEF EvictionCandidates
<1>2. Listed \subseteq {z}
  <2>1. \A x \in Listed : x \in Paths /\ x.cid \in Indexed
    BY DEF Listed, Files, Indexed, Paths
  <2>2. QED
    BY <1>1, <2>1, OnePath
<1>3. CASE Listed = {}
  BY <1>3, FS_EmptySet
<1>4. CASE Listed = {z}
  <2>1. Cardinality(Listed) = 1
    BY <1>4, FS_Singleton
  <2>2. QED
    BY <2>1
<1>5. QED
  BY <1>2, <1>3, <1>4

\* The process of a call in progress has a path.
LEMMA CallHasPath ==
    ASSUME Calls, NEW p \in Procs, pc[p] # "idle" PROVE req[p] \in Paths /\ req[p].cid \in Contents
BY DEF Calls, RequestInv, Paths

\* A call leaves before it has its file, or when it has done with the index.
LEMMA RestLeaves ==
    ASSUME ~Crashes, RestInv, NEW p \in Procs, Leaves(p)
    PROVE  /\ pc[p] \in {"lock", "head", "download", "stream", "verify", "leave"}
           /\ pc[p] = "verify" => VerifyBad(p)
BY DEF RestInv, KnownInv, Known, Leaves, TimeOut, DownloadFails, VerifyBad, SizeGone, Return, Crash, At

\* Every step keeps what a call knows of its file.
LEMMA StepKnownInv ==
    ASSUME OneProcess, RestInv, [Next]_vars PROVE KnownInv'
<1> USE DEF RestInv, Known, Hit
<1>0. TypeOK
  BY DEF Calls
<1>1. ASSUME NEW p \in Procs, NEW x \in Paths, Call(p, x) PROVE Known(p)'
  BY <1>0, <1>1 DEF Call, At, Goto, callVars, KnownInv, Settled, Evicting, TypeOK
<1>2. ASSUME NEW p \in Procs, Lookup(p) \/ Recheck(p) \/ LockedCheck(p) PROVE Known(p)'
  BY <1>0, <1>2 DEF Lookup, Recheck, LockedCheck, At, Goto, storeVars, callVars,
     KnownInv, Settled, Evicting, TypeOK
<1>3. ASSUME NEW p \in Procs, HeadStream(p) \/ HeadSmall(p) \/ Acquire(p) \/ Download(p)
      PROVE  Known(p)'
  BY <1>0, <1>3 DEF HeadStream, HeadSmall, Acquire, Download, WriteBody, BeginStream, EndStream, At, Goto, callVars,
     KnownInv, Settled, Evicting, TypeOK
<1>4. ASSUME NEW p \in Procs, VerifyGood(p) PROVE Known(p)'
  BY <1>0, <1>4 DEF VerifyGood, At, Goto, storeVars, callVars, KnownInv, Settled, Evicting,
     TypeOK, Absent
<1>5. ASSUME NEW p \in Procs, Publish(p) PROVE Known(p)'
  <2>1. req[p] \in Paths /\ tmp[req[p]] # Absent
    BY <1>5, CallHasPath DEF Publish, At, KnownInv
  <2>2. disk'[req[p]] # Absent
    BY <1>0, <1>5, <2>1 DEF Publish, TypeOK
  <2>3. QED
    BY <1>0, <1>5, <2>2 DEF Publish, At, Goto, Settled, Evicting, TypeOK
<1>6. ASSUME NEW p \in Procs, TestExists(p) \/ ReadSize(p) PROVE Known(p)'
  BY <1>0, <1>6 DEF TestExists, ReadSize, At, Goto, storeVars, KnownInv, Settled, Evicting, TypeOK
<1>7. ASSUME NEW p \in Procs, UpsertRow(p) PROVE Known(p)'
  BY <1>0, <1>7 DEF UpsertRow, At, Goto, callVars, KnownInv, Settled, Evicting, TypeOK
<1>8. ASSUME NEW p \in Procs, ReadTotal(p) \/ SelectCandidates(p) \/ DeleteRow(p) PROVE Known(p)'
  BY <1>0, <1>8 DEF ReadTotal, SelectCandidates, DeleteRow, At, Goto, KnownInv, Settled, Evicting, TypeOK
<1>9. ASSUME NEW p \in Procs, UnlinkVictim(p) PROVE Known(p)'
  <2>1. Victim(p) \in Paths /\ Victim(p)' = Victim(p)
    BY <1>9, VictimIsOther DEF UnlinkVictim, At, Victim, callVars
  <2>2. disk'[Victim(p)] = Absent \/ Victim(p) \in spared'
    BY <1>0, <1>9, <2>1 DEF UnlinkVictim, TypeOK
  <2>3. QED
    BY <1>0, <1>9, <2>1, <2>2 DEF UnlinkVictim, At, Goto, callVars, KnownInv, Settled, Evicting, TypeOK
<1>10. ASSUME NEW p \in Procs, Leaves(p) PROVE Known(p)'
  BY <1>0, <1>10, LeavesFrame DEF Evicting
<1>11. ASSUME NEW p \in Procs, NEW c \in Contents, Touch(p, c) PROVE Known(p)'
  BY <1>11 DEF Touch, At, callVars, KnownInv, Evicting
<1>12. CASE Tick \/ UNCHANGED vars
  BY <1>12 DEF Tick, vars, storeVars, callVars, KnownInv, Victim
<1>13. ASSUME NEW p \in Procs, Known(p)' PROVE KnownInv'
  BY <1>13 DEF OneProcess, KnownInv
<1> HIDE DEF RestInv, Known, Hit
<1>14. QED
  BY <1>1, <1>2, <1>3, <1>4, <1>5, <1>6, <1>7, <1>8, <1>9, <1>10, <1>11, <1>12, <1>13
     DEF Next, Step, Leaves

\* Every step keeps the temporary files those of a download in progress.
LEMMA StepTmpInv == ASSUME OneProcess, ~Crashes, RestInv, [Next]_vars PROVE TmpInv'
<1>0. TypeOK
  BY DEF RestInv, Calls
<1>1. ASSUME NEW p \in Procs, UNCHANGED <<tmp, req>>,
             pc[p] \in {"verify", "publish"} => pc'[p] \in {"verify", "publish"}
      PROVE  TmpInv'
  BY <1>1 DEF OneProcess, RestInv, TmpInv
<1>2. ASSUME NEW p \in Procs, UNCHANGED tmp, pc[p] \notin {"verify", "publish"} PROVE TmpInv'
  BY <1>2 DEF OneProcess, RestInv, TmpInv
<1>3. ASSUME NEW p \in Procs, req[p] \in Paths, NEW b, tmp' = [tmp EXCEPT ![req[p]] = b],
             b = Absent \/ (pc'[p] = "verify" /\ req' = req)
      PROVE  TmpInv'
  BY <1>0, <1>3 DEF OneProcess, RestInv, TmpInv, TypeOK
<1>4. ASSUME NEW p \in Procs, NEW x \in Paths, Call(p, x) PROVE TmpInv'
  BY <1>2, <1>4 DEF Call, At, storeVars
<1>5. ASSUME NEW p \in Procs, LockedCheck(p) \/ Download(p) \/ Publish(p) PROVE TmpInv'
  <2>1. req[p] \in Paths
    BY <1>5, CallHasPath DEF RestInv, LockedCheck, Download, WriteBody, BeginStream, EndStream, Publish, At
  <2>2. CASE LockedCheck(p) /\ UNCHANGED tmp
    BY <2>2, <1>2 DEF LockedCheck, At
  <2>3. CASE tmp' = [tmp EXCEPT ![req[p]] = Absent]
    BY <2>1, <2>3, <1>3
  <2>4. CASE WriteBody(p) \/ EndStream(p)
    <3>1. PICK b : tmp' = [tmp EXCEPT ![req[p]] = b]
      BY <2>4 DEF WriteBody, EndStream
    <3>2. pc'[p] = "verify" /\ req' = req
      BY <1>0, <2>4 DEF WriteBody, EndStream, Goto, TypeOK
    <3>3. QED
      BY <2>1, <3>1, <3>2, <1>3
  <2>5. CASE BeginStream(p)
    BY <2>5, <1>2 DEF BeginStream, At
  <2>6. QED
    BY <1>5, <2>2, <2>3, <2>4, <2>5 DEF LockedCheck, Download, Publish
<1>6. ASSUME NEW p \in Procs, Before(p), ~(LockedCheck(p) \/ Download(p) \/ Publish(p)) PROVE TmpInv'
  <2>1. UNCHANGED <<tmp, req>>
    BY <1>6 DEF Before, Lookup, HeadStream, HeadSmall, Recheck, Acquire, VerifyGood,
       TestExists, ReadSize, storeVars
  <2>2. pc[p] \in {"verify", "publish"} => pc'[p] = "publish"
    BY <1>0, <1>6 DEF Before, Lookup, HeadStream, HeadSmall, Recheck, Acquire, VerifyGood,
       TestExists, ReadSize, At, Goto, TypeOK
  <2>3. QED
    BY <2>1, <2>2, <1>1
<1>7. ASSUME NEW p \in Procs, UpsertRow(p) \/ ReadTotal(p) \/ SelectCandidates(p)
                              \/ UnlinkVictim(p) \/ DeleteRow(p)
      PROVE  TmpInv'
  BY <1>2, <1>7 DEF UpsertRow, ReadTotal, SelectCandidates, UnlinkVictim, DeleteRow, At, storeVars
<1>8. ASSUME NEW p \in Procs, Leaves(p) PROVE TmpInv'
  <2>1. CASE VerifyBad(p)
    <3>1. req[p] \in Paths /\ tmp' = [tmp EXCEPT ![req[p]] = Absent]
      BY <2>1, CallHasPath DEF RestInv, VerifyBad, At
    <3>2. QED
      BY <3>1, <1>3
  <2>2. CASE ~VerifyBad(p)
    BY <1>0, <1>8, <2>2, <1>2, LeavesFrame, RestLeaves
  <2>3. QED
    BY <2>1, <2>2
<1>9. ASSUME NEW p \in Procs, NEW c \in Contents, Touch(p, c) PROVE TmpInv'
  BY <1>9, <1>1 DEF Touch
<1>10. CASE Tick \/ UNCHANGED vars
  BY <1>10 DEF Tick, vars, storeVars, RestInv, TmpInv
<1>11. QED
  BY <1>4, <1>5, <1>6, <1>7, <1>8, <1>9, <1>10 DEF Next, Step, Before, Leaves

\* A step that changes neither files nor rows and closes no path.
LEMMA RowsFrame ==
    ASSUME OneProcess, RowsInv, NEW p \in Procs, UNCHANGED <<disk, index, spared>>, Open(p) \subseteq Open(p)'
    PROVE  RowsInv'
BY DEF OneProcess, RowsInv, Matches, Hit

\* With the only process outside its short gaps every row matches.
LEMMA AllMatch ==
    ASSUME OneProcess, RowsInv, NEW p \in Procs, Open(p) = {}
    PROVE  \A x \in Paths : Matches(x)
BY DEF OneProcess, RowsInv

\* Every step keeps the rows those of the files.
LEMMA StepRowsInv ==
    ASSUME OneProcess, OneName, ~Crashes, RestInv, [Next]_vars PROVE RowsInv'
<1>0. TypeOK /\ Calls /\ RowsInv
  BY DEF RestInv, Calls
<1>1. ASSUME NEW p \in Procs, NEW x \in Paths, Call(p, x) PROVE RowsInv'
  <2>1. UNCHANGED <<disk, index, spared>> /\ Open(p) = {}
    BY <1>1 DEF Call, At, storeVars, Open
  <2>2. QED
    BY <1>0, <2>1, RowsFrame
<1>2. ASSUME NEW p \in Procs, Before(p), ~Publish(p) PROVE RowsInv'
  <2>1. UNCHANGED <<disk, index, spared, req, fresh>>
    BY <1>2 DEF Before, Lookup, HeadStream, HeadSmall, Recheck, Acquire, LockedCheck, Download, WriteBody, BeginStream, EndStream,
       VerifyGood, TestExists, ReadSize, storeVars, callVars
  <2>2. pc[p] \in {"exists", "stat", "upsert"} => pc'[p] \in {"stat", "upsert"}
    BY <1>0, <1>2 DEF Before, Lookup, HeadStream, HeadSmall, Recheck, Acquire, LockedCheck,
       Download, WriteBody, BeginStream, EndStream, VerifyGood, TestExists, ReadSize, At, Goto, TypeOK
  <2>3. pc[p] # "forget"
    BY <1>0, <1>2, BeforeFrame DEF Evicting
  <2>4. Open(p) \subseteq Open(p)'
    BY <2>1, <2>2, <2>3 DEF Open
  <2>5. QED
    BY <1>0, <2>1, <2>4, RowsFrame
<1>3. ASSUME NEW p \in Procs, Publish(p) PROVE RowsInv'
  <2>1. req[p] \in Paths /\ UNCHANGED <<index, spared, req>>
        /\ pc[p] = "publish" /\ pc'[p] = "exists" /\ fresh'[p]
    BY <1>0, <1>3, CallHasPath DEF Publish, At, Goto, TypeOK
  <2>2. Open(p) = {} /\ Open(p)' = {req[p]}
    BY <2>1 DEF Open
  <2>3. \A x \in Paths \ {req[p]} : disk'[x] = disk[x]
    BY <1>0, <1>3, <2>1 DEF Publish, TypeOK
  <2>4. \A x \in Paths \ {req[p]} : Matches(x)'
    BY <1>0, <2>1, <2>2, <2>3, AllMatch DEF Matches, Hit
  <2>5. QED
    BY <2>2, <2>4 DEF RowsInv
<1>4. ASSUME NEW p \in Procs, UpsertRow(p) PROVE RowsInv'
  <2>1. /\ req[p] \in Paths /\ req[p].cid \in Contents /\ UNCHANGED disk
        /\ Hit(req[p]) /\ stat[p] = SizeOf[req[p].cid] /\ Open(p) \subseteq {req[p]}
        /\ UNCHANGED spared
    BY <1>0, <1>4, CallHasPath DEF UpsertRow, At, RestInv, KnownInv, Known, Open
  <2>2. PICK row \in Row : row.size = stat[p] /\ index' = [index EXCEPT ![req[p].cid] = row]
    <3>1. [name |-> req[p].name, size |-> stat[p], at |-> clock] \in Row
      BY <1>0, <2>1, CacheAssumption DEF TypeOK, Row, Paths
    <3>2. QED
      BY <1>4, <3>1 DEF UpsertRow
  <2>3. Matches(req[p])'
    <3>1. index'[req[p].cid] = row
      BY <1>0, <2>1, <2>2 DEF TypeOK
    <3>2. PICK x : x = req[p]
      OBVIOUS
    <3>3. req'[p] = x /\ x.cid \in Contents /\ row # None
      BY <1>4, <2>1, <3>2, NoneAssumption DEF UpsertRow
    <3>4. QED
      BY <2>1, <2>2, <3>1, <3>2, <3>3 DEF Matches, Hit
  <2>4. ASSUME NEW x \in Paths, x # req[p] PROVE Matches(x)'
    <3>1. Matches(x)
      BY <1>0, <2>1, <2>4 DEF RowsInv, OneProcess
    <3>2. x.cid # req[p].cid /\ x.cid \in Contents
      BY <2>1, <2>4, OnePath DEF Paths
    <3>3. index'[x.cid] = index[x.cid]
      BY <1>0, <2>2, <3>2 DEF TypeOK
    <3>4. QED
      BY <2>1, <3>1, <3>3 DEF Matches, Hit
  <2>5. req' = req
    BY <1>4 DEF UpsertRow
  <2>6. \A x \in Paths : Matches(x)'
    <3>1. ASSUME NEW x \in Paths, x = req[p] PROVE Matches(x)'
      BY <2>3, <2>5, <3>1 DEF Matches, Hit
    <3>2. QED
      BY <2>4, <3>1
  <2>7. QED
    BY <2>6 DEF RowsInv
<1>5. ASSUME NEW p \in Procs, ReadTotal(p) \/ SelectCandidates(p) PROVE RowsInv'
  <2>1. UNCHANGED <<disk, index, spared>> /\ Open(p) = {}
    BY <1>5 DEF ReadTotal, SelectCandidates, At, storeVars, Open
  <2>2. QED
    BY <1>0, <2>1, RowsFrame
<1>6. ASSUME NEW p \in Procs, UnlinkVictim(p) PROVE RowsInv'
  <2>1. /\ Victim(p) \in Paths /\ UNCHANGED index /\ Open(p) = {}
        /\ \A x \in Paths \ {Victim(p)} : disk'[x] = disk[x] /\ (x \in spared' <=> x \in spared)
    BY <1>0, <1>6, VictimIsOther DEF UnlinkVictim, At, Open, TypeOK
  <2>2. Open(p)' = {Victim(p)}
    BY <1>0, <1>6 DEF UnlinkVictim, Goto, TypeOK, Open, Victim, callVars
  <2>3. \A x \in Paths \ {Victim(p)} : Matches(x)'
    BY <1>0, <2>1, AllMatch DEF Matches, Hit
  <2>4. QED
    BY <2>2, <2>3 DEF RowsInv
<1>7. ASSUME NEW p \in Procs, DeleteRow(p) PROVE RowsInv'
  <2>1. /\ Victim(p) \in Paths /\ UNCHANGED <<disk, spared>> /\ Open(p) = {Victim(p)}
        /\ ~Hit(Victim(p)) \/ Victim(p) \in spared
        /\ index' = [index EXCEPT ![Victim(p).cid] = None]
    BY <1>0, <1>7, VictimIsOther DEF DeleteRow, At, Open, RestInv, KnownInv, Known
  <2>2. ASSUME NEW x \in Paths PROVE Matches(x)'
    <3>1. CASE x = Victim(p)
      <4>1. x.cid \in Contents
        BY DEF Paths
      <4>2. index'[x.cid] = None
        BY <1>0, <2>1, <3>1, <4>1 DEF TypeOK
      <4>3. QED
        BY <2>1, <3>1, <4>2 DEF Matches, Hit
    <3>2. CASE x # Victim(p)
      <4>1. Matches(x) /\ x.cid # Victim(p).cid /\ x.cid \in Contents
        BY <1>0, <2>1, <3>2, OnePath DEF RowsInv, OneProcess, Paths
      <4>2. index'[x.cid] = index[x.cid]
        BY <1>0, <2>1, <4>1 DEF TypeOK
      <4>3. QED
        BY <2>1, <4>1, <4>2 DEF Matches, Hit
    <3>3. QED
      BY <3>1, <3>2
  <2>3. QED
    BY <2>2 DEF RowsInv
<1>8. ASSUME NEW p \in Procs, Leaves(p) PROVE RowsInv'
  <2>1. UNCHANGED <<disk, index, spared>>
    BY <1>0, <1>8, LeavesFrame
  <2>2. Open(p) = {}
    BY <1>8, RestLeaves DEF Open
  <2>3. QED
    BY <1>0, <2>1, <2>2, RowsFrame
<1>9. ASSUME NEW p \in Procs, NEW c \in Contents, Touch(p, c) PROVE RowsInv'
  <2>1. UNCHANGED <<disk, spared>> /\ Open(p) = {}
    BY <1>9 DEF Touch, At, Open
  <2>2. c \in Indexed /\ index[c] \in Row /\ index' = [index EXCEPT ![c] = [index[c] EXCEPT !.at = clock]]
    BY <1>0, <1>9 DEF Touch, Indexed, TypeOK
  <2>3. PICK row \in Row : row.size = index[c].size /\ index' = [index EXCEPT ![c] = row]
    <3>1. [index[c] EXCEPT !.at = clock] \in Row /\ [index[c] EXCEPT !.at = clock].size = index[c].size
      <4>1. clock \in Nat
        BY <1>0, CacheAssumption DEF TypeOK
      <4>2. QED
        BY <2>2, <4>1 DEF Row
    <3>2. QED
      BY <2>2, <3>1
  <2>4. ASSUME NEW x \in Paths PROVE Matches(x)'
    <3>1. Matches(x) /\ x.cid \in Contents
      BY <1>0, <2>1, AllMatch DEF Paths
    <3>2. index'[x.cid] = IF x.cid = c THEN row ELSE index[x.cid]
      BY <1>0, <2>3, <3>1 DEF TypeOK
    <3>3. row # None /\ index[c] # None
      BY <2>2, NoneAssumption DEF Indexed
    <3>4. QED
      BY <2>1, <2>3, <3>1, <3>2, <3>3 DEF Matches, Hit
  <2>5. QED
    BY <2>4 DEF RowsInv
<1>10. CASE Tick \/ UNCHANGED vars
  BY <1>0, <1>10 DEF Tick, vars, storeVars, callVars, RowsInv, Matches, Hit, Open, Victim
<1>11. QED
  BY <1>1, <1>2, <1>3, <1>4, <1>5, <1>6, <1>7, <1>8, <1>9, <1>10 DEF Next, Step, Before, Leaves

\* Every step keeps the cap, up to the call that is evicting.
LEMMA StepCapInv == ASSUME OneProcess, OneName, ~Crashes, RestInv, [Next]_vars PROVE CapInv'
<1>0. TypeOK /\ Calls /\ RowsInv /\ CapInv
  BY DEF RestInv, Calls
<1>1. ASSUME UNCHANGED <<disk, index, spared>>, Fits PROVE CapInv'
  <2>1. Listed' = Listed
    BY <1>1 DEF Listed, Files
  <2>2. QED
    BY <1>1, <2>1, ListedFrame DEF CapInv
<1>2. ASSUME NEW p \in Procs, fresh[p] => pc[p] = "leave" PROVE Fits
  BY <1>0, <1>2 DEF CapInv, OneProcess
<1>3. ASSUME NEW p \in Procs, UNCHANGED <<disk, index, spared, fresh>>, pc[p] # "leave", pc'[p] # "leave"
      PROVE  CapInv'
  <2>1. CASE fresh[p]
    BY <1>3, <2>1 DEF CapInv
  <2>2. CASE ~fresh[p]
    BY <1>1, <1>2, <1>3, <2>2
  <2>3. QED
    BY <2>1, <2>2
<1>4. ASSUME NEW p \in Procs, NEW x \in Paths, Call(p, x) PROVE CapInv'
  BY <1>0, <1>3, <1>4 DEF Call, At, Goto, storeVars, callVars, TypeOK
<1>5. ASSUME NEW p \in Procs, Before(p), ~Publish(p) PROVE CapInv'
  <2>1. UNCHANGED <<disk, index, spared, fresh>>
    BY <1>5 DEF Before, Lookup, HeadStream, HeadSmall, Recheck, Acquire, LockedCheck, Download, WriteBody, BeginStream, EndStream,
       VerifyGood, TestExists, ReadSize, storeVars, callVars
  <2>2. QED
    BY <1>0, <1>3, <1>5, <2>1, BeforeFrame
<1>6. ASSUME NEW p \in Procs, Publish(p) PROVE CapInv'
  BY <1>0, <1>6 DEF Publish, Goto, TypeOK, CapInv
<1>7. ASSUME NEW p \in Procs, UpsertRow(p) PROVE CapInv'
  <2>1. UNCHANGED <<disk, spared, fresh>> /\ pc[p] = "upsert"
        /\ pc'[p] = IF fresh[p] THEN "total" ELSE "leave"
    BY <1>0, <1>7 DEF UpsertRow, At, Goto, callVars, TypeOK
  <2>2. CASE fresh[p]
    BY <2>1, <2>2 DEF CapInv
  <2>3. CASE ~fresh[p]
    <3>1. req[p] \in Paths /\ Hit(req[p]) /\ stat[p] = SizeOf[req[p].cid] /\ Fits
      BY <1>0, <1>2, <2>1, <2>3, CallHasPath DEF RestInv, KnownInv, Known
    <3>2. /\ \A c \in Contents \ {req[p].cid} : index'[c] = index[c]
          /\ index'[req[p].cid] = [name |-> req[p].name, size |-> stat[p], at |-> clock]
      BY <1>0, <1>7, <3>1 DEF UpsertRow, TypeOK, Paths
    <3>3. ASSUME NEW x \in Paths, x # req[p] PROVE x \in Listed' <=> x \in Listed
      <4>1. x.cid # req[p].cid /\ x.cid \in Contents
        BY <3>1, <3>3, OnePath DEF Paths
      <4>2. index'[x.cid] = index[x.cid]
        BY <3>2, <4>1
      <4>3. QED
        BY <2>1, <4>2 DEF Listed, Files
    <3>4. req[p] \in Listed'
      <4>1. index'[req[p].cid] # None
        <5>1. index'[req[p].cid] \in Row
          BY <1>0, <3>1, <3>2, CacheAssumption DEF TypeOK, Row, Paths
        <5>2. QED
          BY <5>1, NoneAssumption
      <4>2. PICK x : x = req[p]
        OBVIOUS
      <4>3. index'[x.cid] # None /\ index'[x.cid].name = x.name /\ index'[x.cid].size = SizeOf[x.cid]
        BY <3>1, <3>2, <4>1, <4>2
      <4>4. x \in Listed'
        BY <2>1, <3>1, <4>2, <4>3 DEF Listed, Files, Hit
      <4>5. QED
        BY <4>2, <4>4
    <3>5. CASE req[p] \in Listed
      <4>1. Listed' = Listed
        BY <3>3, <3>4, <3>5 DEF Listed, Files
      <4>2. QED
        BY <2>1, <3>1, <4>1, ListedFrame DEF CapInv
    <3>6. CASE req[p] \notin Listed
      <4>1. Matches(req[p]) /\ index[req[p].cid] = None
        <5>1. Open(p) = {}
          BY <2>1, <2>3 DEF Open
        <5>2. Matches(req[p])
          BY <1>0, <3>1, <5>1, AllMatch
        <5>3. QED
          BY <1>0, <3>1, <3>6, <5>2, ListedPaths DEF Matches
      <4>2. req[p] \in spared
        BY <3>1, <4>1 DEF Matches
      <4>3. Listed' \cap spared' # {}
        BY <2>1, <3>4, <4>2
      <4>4. QED
        BY <4>3 DEF CapInv, Fits
    <3>7. QED
      BY <3>5, <3>6
  <2>4. QED
    BY <2>2, <2>3
<1>8. ASSUME NEW p \in Procs, ReadTotal(p) PROVE CapInv'
  <2>1. UNCHANGED <<disk, index, spared, fresh>> /\ pc[p] = "total"
    BY <1>8 DEF ReadTotal, At, storeVars
  <2>2. CASE TotalBytes <= MaxBytes \/ MaxBytes = 0
    <3>1. \A x \in Paths : Matches(x)
      BY <1>0, <2>1, AllMatch DEF Open
    <3>2. TotalBytes = ListedBytes
      BY <1>0, <3>1, TotalIsDisk
    <3>3. Fits
      BY <2>2, <3>2 DEF Fits
    <3>4. QED
      BY <1>1, <2>1, <3>3
  <2>3. CASE ~(TotalBytes <= MaxBytes \/ MaxBytes = 0)
    <3>1. pc'[p] # "leave"
      BY <1>0, <1>8, <2>3 DEF ReadTotal, Goto, TypeOK
    <3>2. QED
      BY <1>3, <2>1, <3>1
  <2>4. QED
    BY <2>2, <2>3
<1>9. ASSUME NEW p \in Procs, SelectCandidates(p) PROVE CapInv'
  <2>1. UNCHANGED <<disk, index, spared, fresh>> /\ pc[p] = "select"
    BY <1>9 DEF SelectCandidates, At, storeVars
  <2>2. PICK s \in EvictionCandidates(req[p].cid) : Goto(p, IF s = <<>> THEN "leave" ELSE "unlink")
    BY <1>9 DEF SelectCandidates
  <2>3. CASE s = <<>>
    <3>1. req[p] \in Paths
      BY <1>0, <2>1, CallHasPath
    <3>2. Cardinality(Listed) <= 1
      BY <2>2, <2>3, <3>1, NothingToEvict
    <3>3. QED
      BY <1>1, <2>1, <3>2 DEF Fits
  <2>4. CASE s # <<>>
    BY <1>0, <1>3, <2>1, <2>2, <2>4 DEF Goto, TypeOK
  <2>5. QED
    BY <2>3, <2>4
<1>10. ASSUME NEW p \in Procs, UnlinkVictim(p) \/ DeleteRow(p) PROVE CapInv'
  <2>1. UNCHANGED fresh /\ fresh[p] /\ pc'[p] # "leave"
    BY <1>0, <1>10 DEF UnlinkVictim, DeleteRow, At, Goto, callVars, TypeOK, RestInv,
       KnownInv, Known, Evicting
  <2>2. QED
    BY <2>1 DEF CapInv
<1>11. ASSUME NEW p \in Procs, Leaves(p) PROVE CapInv'
  <2>1. fresh[p] => pc[p] = "leave"
    BY <1>11, RestLeaves DEF RestInv, KnownInv, Known, Settled
  <2>2. UNCHANGED <<disk, index, spared>>
    BY <1>0, <1>11, LeavesFrame
  <2>3. QED
    BY <1>1, <1>2, <2>1, <2>2
<1>12. ASSUME NEW p \in Procs, NEW c \in Contents, Touch(p, c) PROVE CapInv'
  <2>1. UNCHANGED <<disk, spared, fresh>> /\ pc[p] = "idle" /\ pc'[p] = "idle" /\ index[c] \in Row
    BY <1>0, <1>12 DEF Touch, At, callVars, Indexed, TypeOK
  <2>2. PICK row \in Row : /\ index' = [index EXCEPT ![c] = row]
                           /\ row.size = index[c].size /\ row.name = index[c].name
    <3>0. clock \in Nat
      BY <1>0, CacheAssumption DEF TypeOK
    <3>1. [index[c] EXCEPT !.at = clock] \in Row
      BY <2>1, <3>0 DEF Row
    <3>2. index' = [index EXCEPT ![c] = [index[c] EXCEPT !.at = clock]]
      BY <1>12 DEF Touch
    <3>3. QED
      BY <2>1, <3>1, <3>2 DEF Row
  <2>3. \A x \in Paths : /\ index'[x.cid] = None <=> index[x.cid] = None
                         /\ index'[x.cid].size = index[x.cid].size
                         /\ index'[x.cid].name = index[x.cid].name
    BY <1>0, <2>1, <2>2, NoneAssumption DEF TypeOK, Paths
  <2>4. Listed' = Listed
    BY <2>1, <2>3 DEF Listed, Files
  <2>5. Fits
    BY <1>2, <2>1 DEF RestInv, KnownInv, Known, Settled
  <2>6. QED
    BY <2>1, <2>4, <2>5, ListedFrame DEF CapInv
<1>13. CASE Tick \/ UNCHANGED vars
  <2>1. UNCHANGED <<disk, index, spared, pc, fresh>>
    BY <1>13 DEF Tick, vars, storeVars, callVars
  <2>2. CASE Fits
    BY <1>1, <2>1, <2>2
  <2>3. CASE \E p \in Procs : fresh[p] /\ pc[p] # "leave"
    BY <2>1, <2>3 DEF CapInv
  <2>4. QED
    BY <1>0, <2>2, <2>3 DEF CapInv
<1>14. QED
  BY <1>4, <1>5, <1>6, <1>7, <1>8, <1>9, <1>10, <1>11, <1>12, <1>13 DEF Next, Step, Before, Leaves

\* A half is gone once its file has arrived.
LEMMA StepHalvesInv == ASSUME OneProcess, ~Crashes, RestInv, [Next]_vars PROVE HalvesInv'
<1>0. TypeOK /\ Calls /\ HalvesInv
  BY DEF RestInv, Calls
<1> USE DEF Fetching, Hit
<1>1. ASSUME NEW p \in Procs, Fetching(p)', \A x \in part' : x.cid \in Small \/ ~Hit(x)'
      PROVE  HalvesInv'
  BY <1>1 DEF OneProcess, HalvesInv
<1>2. ASSUME NEW p \in Procs, NEW x \in Paths, Call(p, x) PROVE HalvesInv'
  <2>1. Fetching(p)' /\ UNCHANGED <<part, disk>>
    BY <1>0, <1>2 DEF Call, At, Goto, storeVars, callVars, HalvesInv, TypeOK
  <2>2. QED
    BY <1>0, <1>1, <2>1 DEF HalvesInv
<1>3. ASSUME NEW p \in Procs, \/ Lookup(p) \/ HeadStream(p) \/ HeadSmall(p) \/ Recheck(p)
                               \/ Acquire(p) \/ LockedCheck(p) \/ VerifyGood(p)
                               \/ TestExists(p) \/ ReadSize(p) \/ UpsertRow(p) \/ ReadTotal(p)
                               \/ SelectCandidates(p) \/ DeleteRow(p)
      PROVE HalvesInv'
  <2>1. UNCHANGED <<part, disk, req>>
    BY <1>3 DEF Lookup, HeadStream, HeadSmall, Recheck, Acquire, LockedCheck, VerifyGood,
       TestExists, ReadSize, UpsertRow, ReadTotal, SelectCandidates, DeleteRow, storeVars
  <2>2. body' = body \/ HeadSmall(p)
    BY <1>3 DEF Lookup, HeadStream, Recheck, Acquire, LockedCheck, VerifyGood,
       TestExists, ReadSize, UpsertRow, ReadTotal, SelectCandidates, DeleteRow, callVars
  <2>3. /\ pc[p] # "idle" /\ pc'[p] # "idle" /\ pc'[p] \notin {"stream", "verify"}
        /\ pc'[p] = "download" => LockedCheck(p) /\ ~Hit(req[p])
        /\ pc'[p] = "publish" => pc[p] = "verify"
    BY <1>0, <1>3 DEF Lookup, HeadStream, HeadSmall, Recheck, Acquire, LockedCheck, VerifyGood,
       TestExists, ReadSize, UpsertRow, ReadTotal, SelectCandidates, DeleteRow, At, Goto, TypeOK
  <2>4. HeadSmall(p) => req[p].cid \in Small
    BY DEF HeadSmall
  <2>5. Fetching(p)'
    BY <1>0, <2>1, <2>2, <2>3, <2>4 DEF HalvesInv
  <2>6. QED
    BY <1>0, <1>1, <2>1, <2>5 DEF HalvesInv
<1>4. ASSUME NEW p \in Procs, Download(p) PROVE HalvesInv'
  <2>1. UNCHANGED <<disk, req, body>> /\ pc[p] \in {"download", "stream"} /\ pc'[p] \in {"stream", "verify"}
    BY <1>0, <1>4 DEF Download, WriteBody, BeginStream, EndStream, At, Goto, callVars, TypeOK
  <2>2. ~Hit(req[p])
    BY <1>0, <2>1 DEF HalvesInv
  <2>3. \A x \in part' : x \in part \/ x = req[p]
    BY <1>4 DEF Download, WriteBody, BeginStream, EndStream
  <2>4. pc'[p] = "verify" => req[p].cid \in Small \/ req[p] \notin part'
    BY <1>0, <1>4 DEF Download, WriteBody, BeginStream, EndStream, At, Goto, TypeOK, HalvesInv
  <2>5. Fetching(p)'
    BY <1>0, <2>1, <2>2, <2>4 DEF HalvesInv
  <2>6. QED
    BY <1>0, <1>1, <2>1, <2>2, <2>3, <2>5 DEF HalvesInv
<1>5. ASSUME NEW p \in Procs, Publish(p) PROVE HalvesInv'
  <2>1. UNCHANGED <<part, req, body>> /\ pc[p] = "publish" /\ pc'[p] = "exists"
    BY <1>0, <1>5 DEF Publish, At, Goto, TypeOK
  <2>2. req[p].cid \in Small \/ req[p] \notin part
    BY <1>0, <2>1 DEF HalvesInv
  <2>3. \A x \in Paths \ {req[p]} : disk'[x] = disk[x]
    BY <1>0, <1>5 DEF Publish, TypeOK
  <2>4. \A x \in part' : x.cid \in Small \/ ~Hit(x)'
    BY <1>0, <2>1, <2>2, <2>3 DEF HalvesInv, TypeOK
  <2>5. Fetching(p)'
    BY <1>0, <2>1 DEF HalvesInv
  <2>6. QED
    BY <1>1, <2>4, <2>5
<1>6. ASSUME NEW p \in Procs, UnlinkVictim(p) PROVE HalvesInv'
  <2>1. UNCHANGED <<part, req, body>> /\ pc[p] = "unlink" /\ pc'[p] = "forget"
    BY <1>0, <1>6 DEF UnlinkVictim, At, Goto, callVars, TypeOK
  <2>2. \A x \in Paths : disk'[x] \in {disk[x], Absent}
    BY <1>0, <1>6 DEF UnlinkVictim, TypeOK
  <2>3. \A x \in part' : x.cid \in Small \/ ~Hit(x)'
    BY <1>0, <2>1, <2>2 DEF HalvesInv, TypeOK
  <2>4. Fetching(p)'
    BY <1>0, <2>1 DEF HalvesInv
  <2>5. QED
    BY <1>1, <2>3, <2>4
<1>7. ASSUME NEW p \in Procs, Leaves(p) PROVE HalvesInv'
  <2>1. UNCHANGED <<part, disk>> /\ pc'[p] = "idle" /\ body'[p] = Absent
    BY <1>0, <1>7, LeavesFrame
  <2>2. QED
    BY <1>0, <1>1, <2>1 DEF HalvesInv
<1>8. ASSUME NEW p \in Procs, NEW c \in Contents, Touch(p, c) PROVE HalvesInv'
  BY <1>0, <1>8 DEF Touch, callVars, HalvesInv
<1>9. CASE Tick \/ UNCHANGED vars
  BY <1>0, <1>9 DEF Tick, vars, storeVars, callVars, HalvesInv
<1>10. QED
  BY <1>2, <1>3, <1>4, <1>5, <1>6, <1>7, <1>8, <1>9 DEF Next, Step, Leaves

\* Between calls of one process, the index describes the disk and the disk is
\* within the cap, for every size, cap and batch, with a faulty server and
\* deletions that fail: the eviction loop stops only when the rows, which are the
\* files that could be deleted, fit, or when only the caller's own is left
\* (cache.py:346-390); and what a broken stream leaves goes with the next one.
THEOREM CacheRests ==
    ASSUME OneProcess, OneName, ~Crashes PROVE Spec => []CacheAtRest
<1>1. Init => RestInv
  <2>1. ASSUME Init PROVE KnownInv /\ HalvesInv /\ TmpInv /\ RowsInv
    <3>1. KnownInv /\ HalvesInv
      BY <2>1 DEF Init, KnownInv, Known, HalvesInv, Fetching, Evicting
    <3>2. TmpInv
      BY <2>1 DEF Init, TmpInv
    <3>3. ASSUME NEW x \in Paths PROVE Matches(x)
      <4>1. x.cid \in Contents
        BY DEF Paths
      <4>2. QED
        BY <2>1, <4>1 DEF Init, Matches, Hit
    <3>4. QED
      BY <3>1, <3>2, <3>3 DEF RowsInv
  <2>2. ASSUME Init PROVE CapInv
    <3>1. Listed = {}
      BY <2>2 DEF Init, Listed, Files
    <3>2. Cardinality(Listed) <= 1
      BY <3>1, FS_EmptySet
    <3>3. QED
      BY <3>2 DEF CapInv, Fits
  <2>3. QED
    BY <2>1, <2>2, InitIInv DEF RestInv, IInv
<1>2. RestInv /\ [Next]_vars => RestInv'
  <2>1. ASSUME RestInv, [Next]_vars PROVE Calls'
    BY <2>1, StepTypeOK, StepRequestInv, StepCandidatesInv DEF RestInv, Calls
  <2>2. QED
    BY <2>1, StepKnownInv, StepHalvesInv, StepTmpInv, StepRowsInv, StepCapInv DEF RestInv
<1>3. RestInv => CacheAtRest
  <2>1. ASSUME RestInv, Quiet PROVE CacheAtRest
    <3>0. TypeOK
      BY <2>1 DEF RestInv, Calls
    <3>1. \A p \in Procs : Open(p) = {} /\ ~fresh[p] /\ pc[p] = "idle"
      BY <2>1 DEF Quiet, At, Open, RestInv, KnownInv, Known, Settled
    <3>2. \A x \in Paths : Matches(x) /\ tmp[x] = Absent
      BY <2>1, <3>1 DEF RestInv, RowsInv, TmpInv
    <3>3. Files \ spared \subseteq Listed
      BY <3>0, <3>2, ListedPaths DEF Matches, Files, Hit
    <3>4. ASSUME NEW c \in Indexed PROVE \E x \in Listed : x.cid = c
      <4>1. index[c] \in Row /\ index[c] # None /\ c \in Contents
        BY <3>0, <3>4 DEF TypeOK, Indexed
      <4>2. PICK x \in Paths : x.cid = c
        <5>1. [cid |-> c, name |-> index[c].name] \in Paths
          BY <4>1 DEF Row, Paths
        <5>2. QED
          BY <5>1
      <4>3. x \in Listed
        BY <3>0, <3>2, <4>1, <4>2, ListedPaths DEF Matches
      <4>4. QED
        BY <4>2, <4>3
    <3>5. IndexMatchesDisk
      BY <3>2, <3>3, <3>4 DEF IndexMatchesDisk
    <3>6. DiskWithinCap
      BY <2>1, <3>1 DEF RestInv, CapInv, Fits, DiskWithinCap
    <3>7. HalvesAreMissing
      BY <2>1, <3>0 DEF RestInv, HalvesInv, HalvesAreMissing, Hit, Files
    <3>8. QED
      BY <3>5, <3>6, <3>7 DEF CacheAtRest
  <2>2. QED
    BY <2>1 DEF CacheAtRest, IndexMatchesDisk, DiskWithinCap, HalvesAreMissing
<1>4. QED
  BY <1>1, <1>2, <1>3, PTL DEF Spec
=============================================================================
