---------------------------- MODULE LocalCache -----------------------------
(***************************************************************************)
(* zeno_client/cache.py and cache_index.py: processes that share one cache *)
(* directory materialise content-addressed blobs as <content_id>/<name>,   *)
(* record them in an SQLite index and evict the least recently used ones   *)
(* when the index says the cache is over its cap.                          *)
(*                                                                         *)
(* One process runs one ensure_cached call at a time.  Every access to     *)
(* shared state (a file test, a rename, one autocommit SQL statement) is   *)
(* an action, so that calls interleave exactly where the code lets them.   *)
(* Files are identified by their path; a file is "good" when its bytes     *)
(* hash to its content id.  Blobs reached through a manifest are the       *)
(* subject of another module.                                              *)
(***************************************************************************)
EXTENDS CacheLock, Integers, Sequences, FiniteSets, Functions

CONSTANTS Names,         \* file names under which a content may be requested
          SizeOf,        \* bytes of each content
          Small,         \* contents of at most 256 KiB, fetched into memory first
          MaxBytes,      \* CacheConfig.max_bytes
          Batch,         \* rows one eviction query returns (25 in the code)
          MaxClock,      \* bound on the time stamps of the index
          Faulty,        \* downloads may fail or deliver other bytes
          Crashes,       \* processes may die in the middle of a call
          UnlinkFails,   \* deleting a cached file may fail with OSError
          None

ASSUME CacheAssumption ==
    /\ SizeOf \in [Contents -> Nat]
    /\ Small \subseteq Contents
    /\ MaxBytes \in Nat
    /\ Batch \in Nat \ {0}
    /\ MaxClock \in Nat
    /\ {Faulty, Crashes, UnlinkFails} \subseteq BOOLEAN

Paths == [cid : Contents, name : Names]
Bytes == {"good", "bad"}
Absent == "absent"
Row == [name : Names, size : Nat, at : Nat]

ASSUME NoneAssumption == None \notin Paths /\ None \notin Row

VARIABLES disk,    \* final files, by path
          tmp,     \* the <name>.download.tmp beside each final file
          part,    \* paths beside which a stream's <name>.download.tmp.tmp lies
          index,   \* content id -> row of the SQLite table, or None
          clock,   \* time.time() in whole seconds
          pc,      \* where each process is in ensure_cached
          req,     \* the path it was asked for, None between calls
          body,    \* bytes already in memory (small blobs), or Absent
          fresh,   \* this call published the file itself
          stat,    \* size _touch_index has just read
          cands,   \* rows the eviction loop has yet to delete
          result,  \* outcome of the last call
          spared   \* history: files that eviction has failed to delete

storeVars == <<disk, tmp, part, index, spared>>
callVars == <<body, fresh, stat, cands>>
vars == <<lockVars, storeVars, clock, pc, req, callVars, result>>

Candidate == [cid : Contents, name : Names, at : Nat]
Location == {"idle", "lookup", "head", "recheck", "lock", "locked", "download",
             "stream", "verify", "publish", "exists", "stat", "upsert", "total", "select",
             "unlink", "forget", "leave"}

\* Every variable has its type; the size of a missing file is never negative.
TypeOK ==
    /\ LockTypeOK
    /\ disk \in [Paths -> Bytes \union {Absent}]
    /\ tmp \in [Paths -> Bytes \union {Absent}]
    /\ part \subseteq Paths /\ spared \subseteq Paths
    /\ index \in [Contents -> Row \union {None}]
    /\ clock \in 0..MaxClock
    /\ pc \in [Procs -> Location]
    /\ req \in [Procs -> Paths \union {None}]
    /\ body \in [Procs -> Bytes \union {Absent}]
    /\ fresh \in [Procs -> BOOLEAN]
    /\ stat \in [Procs -> Nat]
    /\ cands \in [Procs -> Seq(Candidate)]
    /\ result \in [Procs -> {"none", "ok", "error"}]

Init ==
    /\ LockInit
    /\ disk = [x \in Paths |-> Absent]
    /\ tmp = [x \in Paths |-> Absent]
    /\ part = {} /\ spared = {}
    /\ index = [c \in Contents |-> None]
    /\ clock = 0
    /\ pc = [p \in Procs |-> "idle"]
    /\ req = [p \in Procs |-> None]
    /\ body = [p \in Procs |-> Absent]
    /\ fresh = [p \in Procs |-> FALSE]
    /\ stat = [p \in Procs |-> 0]
    /\ cands = [p \in Procs |-> <<>>]
    /\ result = [p \in Procs |-> "none"]

-----------------------------------------------------------------------------
\* Helpers

At(p, from) == pc[p] = from
Goto(p, to) == pc' = [pc EXCEPT ![p] = to]

\* _is_valid_hit: the file exists and has the size the caller expects.  A file
\* that passed the hash check has it, so existence decides.
Hit(x) == disk[x] # Absent

Indexed == {c \in Contents : index[c] # None}

\* SELECT SUM(size_bytes)
TotalBytes == SumFunction([c \in Contents |-> IF c \in Indexed THEN index[c].size ELSE 0])

\* The frame of a call goes away: it returned, raised or died.
EndCall(p, outcome) ==
    /\ Goto(p, "idle")
    /\ req' = [req EXCEPT ![p] = None]
    /\ body' = [body EXCEPT ![p] = Absent]
    /\ fresh' = [fresh EXCEPT ![p] = FALSE]
    /\ stat' = [stat EXCEPT ![p] = 0]
    /\ cands' = [cands EXCEPT ![p] = <<>>]
    /\ result' = [result EXCEPT ![p] = outcome]

\* `with file_lock` is left if it was entered.
LeaveLock(p, c) ==
    IF p \in holders[c] THEN LockExit(p, c) ELSE UNCHANGED lockVars

\* An exception leaves the call from wherever it is.
Raise(p) == EndCall(p, "error") /\ LeaveLock(p, req[p].cid)

-----------------------------------------------------------------------------
\* ensure_cached up to the lock

Call(p, x) ==
    /\ At(p, "idle")
    /\ Goto(p, "lookup")
    /\ req' = [req EXCEPT ![p] = x]
    /\ result' = [result EXCEPT ![p] = "none"]
    /\ UNCHANGED <<lockVars, storeVars, clock, callVars>>

\* The hit test before any network access, without the lock.
Lookup(p) ==
    /\ At(p, "lookup")
    /\ Goto(p, IF Hit(req[p]) THEN "exists" ELSE "head")
    /\ UNCHANGED <<lockVars, storeVars, clock, req, callVars, result>>

\* HEAD says the blob is large, or HEAD fails: it will be streamed to disk.
HeadStream(p) ==
    /\ At(p, "head")
    /\ req[p].cid \notin Small \/ Faulty
    /\ Goto(p, "recheck")
    /\ UNCHANGED <<lockVars, storeVars, clock, req, callVars, result>>

\* A small blob is read into memory; it is not a manifest.
HeadSmall(p) ==
    /\ At(p, "head")
    /\ req[p].cid \in Small
    /\ \E b \in Bytes : /\ b = "bad" => Faulty
                        /\ body' = [body EXCEPT ![p] = b]
    /\ Goto(p, "recheck")
    /\ UNCHANGED <<lockVars, storeVars, clock, req, fresh, stat, cands, result>>

\* The second hit test without the lock.
Recheck(p) ==
    /\ At(p, "recheck")
    /\ Goto(p, IF Hit(req[p]) THEN "exists" ELSE "lock")
    /\ UNCHANGED <<lockVars, storeVars, clock, req, callVars, result>>

Acquire(p) ==
    /\ At(p, "lock")
    /\ LockAcquire(p, req[p].cid)
    /\ Goto(p, "locked")
    /\ UNCHANGED <<storeVars, clock, req, callVars, result>>

\* CacheLockTimeoutError
TimeOut(p) ==
    /\ At(p, "lock")
    /\ LockTimeOut(p, req[p].cid)
    /\ EndCall(p, "error")
    /\ UNCHANGED <<storeVars, clock>>

-----------------------------------------------------------------------------
\* ensure_cached under the lock

\* The third hit test; on a miss a stale temporary file is removed.
LockedCheck(p) ==
    /\ At(p, "locked")
    /\ IF Hit(req[p])
       THEN Goto(p, "exists") /\ UNCHANGED tmp
       ELSE Goto(p, "download") /\ tmp' = [tmp EXCEPT ![req[p]] = Absent]
    /\ UNCHANGED <<lockVars, disk, part, index, spared, clock, req, callVars, result>>

\* The temporary file receives the bytes in memory.
WriteBody(p) ==
    /\ At(p, "download")
    /\ body[p] # Absent
    /\ tmp' = [tmp EXCEPT ![req[p]] = body[p]]
    /\ Goto(p, "verify")
    /\ UNCHANGED <<lockVars, disk, part, index, spared, clock, req, callVars, result>>

\* get_blob opens a temporary file of its own for the answer, over whatever an
\* earlier stream has left there.
BeginStream(p) ==
    /\ At(p, "download")
    /\ body[p] = Absent
    /\ part' = part \union {req[p]}
    /\ Goto(p, "stream")
    /\ UNCHANGED <<lockVars, disk, tmp, index, spared, clock, req, callVars, result>>

\* The stream has ended; its file is renamed to <name>.download.tmp.
EndStream(p) ==
    /\ At(p, "stream")
    /\ \E b \in Bytes : /\ b = "bad" => Faulty
                        /\ tmp' = [tmp EXCEPT ![req[p]] = b]
    /\ part' = part \ {req[p]}
    /\ Goto(p, "verify")
    /\ UNCHANGED <<lockVars, disk, index, spared, clock, req, callVars, result>>

\* How the bytes get to the temporary file.
Download(p) == WriteBody(p) \/ BeginStream(p) \/ EndStream(p)

\* A request to the server raises: get_blob_bytes before the lock, get_blob
\* under it, before the answer or in the middle of its stream.  Nobody removes
\* the half that a broken stream has written.
DownloadFails(p) ==
    /\ Faulty
    /\ \/ At(p, "head") /\ req[p].cid \in Small
       \/ At(p, "download") /\ body[p] = Absent
       \/ At(p, "stream")
    /\ Raise(p)
    /\ UNCHANGED <<storeVars, clock>>

\* Mutated form of VerifyGood: no hash check.
VerifyAnything(p) ==
    /\ At(p, "verify")
    /\ Goto(p, "publish")
    /\ UNCHANGED <<lockVars, storeVars, clock, req, callVars, result>>

\* The size and hash checks on the temporary file.
VerifyGood(p) ==
    /\ At(p, "verify")
    /\ tmp[req[p]] = "good"
    /\ Goto(p, "publish")
    /\ UNCHANGED <<lockVars, storeVars, clock, req, callVars, result>>

\* CacheCorruptError: the temporary file is deleted.
VerifyBad(p) ==
    /\ At(p, "verify")
    /\ tmp[req[p]] # "good"
    /\ tmp' = [tmp EXCEPT ![req[p]] = Absent]
    /\ Raise(p)
    /\ UNCHANGED <<disk, part, index, spared, clock>>

\* The rename; a streamed blob yields to a file that is already there.
Publish(p) ==
    /\ At(p, "publish")
    /\ disk' = IF Hit(req[p]) /\ body[p] = Absent
               THEN disk
               ELSE [disk EXCEPT ![req[p]] = tmp[req[p]]]
    /\ tmp' = [tmp EXCEPT ![req[p]] = Absent]
    /\ fresh' = [fresh EXCEPT ![p] = TRUE]
    /\ Goto(p, "exists")
    /\ UNCHANGED <<lockVars, part, index, spared, clock, req, body, stat, cands, result>>

-----------------------------------------------------------------------------
\* _touch_index: the size is read first, the row written later.

\* Mutated form of TestExists: -1 for the size of a missing file.
TestExistsUnsized(p) ==
    /\ At(p, "exists")
    /\ stat' = [stat EXCEPT ![p] = IF Hit(req[p]) THEN 0 ELSE -1]
    /\ Goto(p, IF Hit(req[p]) THEN "stat" ELSE "upsert")
    /\ UNCHANGED <<lockVars, storeVars, clock, req, body, fresh, cands, result>>

TestExists(p) ==
    /\ At(p, "exists")
    /\ stat' = [stat EXCEPT ![p] = 0]
    /\ Goto(p, IF Hit(req[p]) THEN "stat" ELSE "upsert")
    /\ UNCHANGED <<lockVars, storeVars, clock, req, body, fresh, cands, result>>

ReadSize(p) ==
    /\ At(p, "stat")
    /\ Hit(req[p])
    /\ stat' = [stat EXCEPT ![p] = SizeOf[req[p].cid]]
    /\ Goto(p, "upsert")
    /\ UNCHANGED <<lockVars, storeVars, clock, req, body, fresh, cands, result>>

\* The file went away after exists() said it was there: stat() raises.
SizeGone(p) ==
    /\ At(p, "stat")
    /\ ~Hit(req[p])
    /\ Raise(p)
    /\ UNCHANGED <<storeVars, clock>>

\* Mutated form of UpsertRow: ON CONFLICT leaves last_accessed_at alone.
UpsertRowKeepsTime(p) ==
    /\ At(p, "upsert")
    /\ index' = [index EXCEPT ![req[p].cid] =
                    [name |-> req[p].name, size |-> stat[p],
                     at |-> IF @ = None THEN clock ELSE @.at]]
    /\ Goto(p, IF fresh[p] THEN "total" ELSE "leave")
    /\ UNCHANGED <<lockVars, disk, tmp, part, spared, clock, req, callVars, result>>

UpsertRow(p) ==
    /\ At(p, "upsert")
    /\ index' = [index EXCEPT ![req[p].cid] =
                    [name |-> req[p].name, size |-> stat[p], at |-> clock]]
    /\ Goto(p, IF fresh[p] THEN "total" ELSE "leave")
    /\ UNCHANGED <<lockVars, disk, tmp, part, spared, clock, req, callVars, result>>

-----------------------------------------------------------------------------
\* evict_if_needed(exclude_content_ids={cid})

\* The total is read before the loop and after every deletion.
ReadTotal(p) ==
    /\ At(p, "total")
    /\ IF TotalBytes <= MaxBytes \/ MaxBytes = 0
       THEN Goto(p, "leave") /\ cands' = [cands EXCEPT ![p] = <<>>]
       ELSE Goto(p, IF cands[p] = <<>> THEN "select" ELSE "unlink") /\ UNCHANGED cands
    /\ UNCHANGED <<lockVars, storeVars, clock, req, body, fresh, stat, result>>

\* Mutated form of EvictionCandidates: exclude_content_ids is ignored.
EvictionCandidatesAll(own) ==
    {<<c>> : c \in {c \in Indexed : \A d \in Indexed : index[c].at <= index[d].at}}

\* SELECT ... WHERE content_id <> own ORDER BY last_accessed_at LIMIT Batch;
\* rows with equal time stamps come in any order.
EvictionCandidates(own) ==
    LET rows == Indexed \ {own}
        oldest(s) == /\ \A i, j \in DOMAIN s :
                           i < j => s[i] # s[j] /\ index[s[i]].at <= index[s[j]].at
                     /\ \A c \in rows : \/ \E i \in DOMAIN s : s[i] = c
                                        \/ /\ Len(s) = Batch
                                           /\ \A i \in DOMAIN s :
                                                 index[s[i]].at <= index[c].at
    IN  {s \in UNION {[1..n -> rows] : n \in 0..Batch} : oldest(s)}

\* The CacheEntry list made of the selected rows.
CacheEntries(s) == [i \in 1..Len(s) |-> [cid |-> s[i], name |-> index[s[i]].name,
                                         at |-> index[s[i]].at]]

\* Mutated form of SelectCandidates: an empty list does not break the loop.
SelectCandidatesAgain(p) ==
    /\ At(p, "select")
    /\ \E s \in EvictionCandidates(req[p].cid) :
          /\ cands' = [cands EXCEPT ![p] = CacheEntries(s)]
          /\ Goto(p, IF s = <<>> THEN "total" ELSE "unlink")
    /\ UNCHANGED <<lockVars, storeVars, clock, req, body, fresh, stat, result>>

SelectCandidates(p) ==
    /\ At(p, "select")
    /\ \E s \in EvictionCandidates(req[p].cid) :
          /\ cands' = [cands EXCEPT ![p] = CacheEntries(s)]
          /\ Goto(p, IF s = <<>> THEN "leave" ELSE "unlink")
    /\ UNCHANGED <<lockVars, storeVars, clock, req, body, fresh, stat, result>>

Victim(p) == [cid |-> Head(cands[p]).cid, name |-> Head(cands[p]).name]

\* Best-effort deletion, without the lock of the content that is deleted.  Its
\* directory keeps the lock file, so rmdir never succeeds.
UnlinkVictim(p) ==
    /\ At(p, "unlink")
    /\ \/ /\ disk' = [disk EXCEPT ![Victim(p)] = Absent]
          /\ spared' = spared \ {Victim(p)}
       \/ /\ UnlinkFails /\ Hit(Victim(p))
          /\ spared' = spared \union {Victim(p)}
          /\ UNCHANGED disk
    /\ Goto(p, "forget")
    /\ UNCHANGED <<lockVars, tmp, part, index, clock, req, callVars, result>>

\* Mutated form of DeleteRow: one eviction a call.
DeleteRowOnce(p) ==
    /\ At(p, "forget")
    /\ index' = [index EXCEPT ![Head(cands[p]).cid] = None]
    /\ cands' = [cands EXCEPT ![p] = <<>>]
    /\ Goto(p, "leave")
    /\ UNCHANGED <<lockVars, disk, tmp, part, spared, clock, req, body, fresh, stat, result>>

\* The row goes whether or not the file did.
DeleteRow(p) ==
    /\ At(p, "forget")
    /\ index' = [index EXCEPT ![Head(cands[p]).cid] = None]
    /\ cands' = [cands EXCEPT ![p] = Tail(@)]
    /\ Goto(p, "total")
    /\ UNCHANGED <<lockVars, disk, tmp, part, spared, clock, req, body, fresh, stat, result>>

-----------------------------------------------------------------------------

\* The path is returned to the caller.
Return(p) ==
    /\ At(p, "leave")
    /\ EndCall(p, "ok")
    /\ LeaveLock(p, req[p].cid)
    /\ UNCHANGED <<storeVars, clock>>

\* The process dies; files and rows stay as they are.
Crash(p) ==
    /\ Crashes
    /\ ~At(p, "idle")
    /\ EndCall(p, "none")
    /\ LockDie(p)
    /\ UNCHANGED <<storeVars, clock>>

\* LocalCache.touch(content_id): UPDATE of an existing row.
Touch(p, c) ==
    /\ At(p, "idle")
    /\ c \in Indexed
    /\ index' = [index EXCEPT ![c].at = clock]
    /\ UNCHANGED <<lockVars, disk, tmp, part, spared, clock, pc, req, callVars, result>>

Tick ==
    /\ clock < MaxClock
    /\ clock' = clock + 1
    /\ UNCHANGED <<lockVars, storeVars, pc, req, callVars, result>>

Step(p) ==
    \/ Lookup(p) \/ HeadStream(p) \/ HeadSmall(p) \/ Recheck(p)
    \/ Acquire(p) \/ TimeOut(p)
    \/ LockedCheck(p) \/ Download(p) \/ DownloadFails(p)
    \/ VerifyGood(p) \/ VerifyBad(p) \/ Publish(p)
    \/ TestExists(p) \/ ReadSize(p) \/ SizeGone(p) \/ UpsertRow(p)
    \/ ReadTotal(p) \/ SelectCandidates(p) \/ UnlinkVictim(p) \/ DeleteRow(p)
    \/ Return(p)

Next ==
    \/ \E p \in Procs : \/ Step(p) \/ Crash(p)
                        \/ \E x \in Paths : Call(p, x)
                        \/ \E c \in Contents : Touch(p, c)
    \/ Tick

\* A process that runs keeps running; time passing and new calls are free.
Fairness == \A p \in Procs : WF_vars(Step(p))

Spec == Init /\ [][Next]_vars
FairSpec == Spec /\ Fairness

-----------------------------------------------------------------------------
\* Safety with any number of processes, crashes and a faulty server

(***************************************************************************)
(* Whatever is downloaded, by how many processes, and wherever they die, a *)
(* file under its final name has the bytes its content id names: the hash  *)
(* check and the rename look at the same temporary file, which no other    *)
(* process has touched in between.  Hits are never hashed again, so every  *)
(* later caller relies on it.                                              *)
(***************************************************************************)
FinalFilesVerified == \A x \in Paths : disk[x] \in {"good", Absent}

\* Where a call has seen its file on disk.
Settled == {"exists", "stat", "upsert", "total", "select", "unlink", "forget", "leave"}

(***************************************************************************)
(* The cache implements the content store: a path is returned only if its  *)
(* verified file was there during the call, only the call that asked for a *)
(* file creates it, and eviction never drops the content its own call has  *)
(* just materialised.                                                      *)
(***************************************************************************)
Store == INSTANCE ContentStore WITH
            avail <- {x \in Paths : disk[x] = "good"},
            asked <- req,
            seen <- {p \in Procs : pc[p] \in Settled},
            outcome <- result

StoreSpec == Store!Spec

-----------------------------------------------------------------------------
\* One process, no crash: what the index and the cap are for

Quiet == \A p \in Procs : At(p, "idle")
Files == {x \in Paths : disk[x] # Absent}

\* Files whose content has a row with their name and size.
Listed == {x \in Files : /\ index[x.cid] # None
                         /\ index[x.cid].name = x.name
                         /\ index[x.cid].size = SizeOf[x.cid]}

\* The bytes on disk, not only those the index adds up, that count.
ListedBytes ==
    SumFunction([c \in Contents |-> SizeOf[c] * Cardinality({x \in Listed : x.cid = c})])

\* The listed files stay under max_bytes, unless one of them alone is larger; a
\* cap of 0 is no cap (cache.py:353-355).  A file that could not be deleted and
\* is asked for again gets its row back without an eviction.
DiskWithinCap ==
    Quiet => \/ MaxBytes = 0
             \/ ListedBytes <= MaxBytes \/ Cardinality(Listed) <= 1
             \/ Listed \cap spared # {}

\* A row for every file but those that could not be deleted, with its name and
\* size, no row without its file, and no <name>.download.tmp.
IndexMatchesDisk ==
    Quiet => /\ \A x \in Paths : tmp[x] = Absent
             /\ Files \ spared \subseteq Listed
             /\ \A c \in Indexed : \E x \in Listed : x.cid = c

\* The half of a broken stream stays only until its content has been streamed
\* in full.  (A small one may come by another way the next time.)
HalvesAreMissing == Quiet => \A x \in part : x.cid \in Small \/ x \notin Files

(***************************************************************************)
(* Between calls of one process, those that failed included, the index     *)
(* describes the disk, and the disk is within the cap: what README.md:87   *)
(* calls a size-capped cache.  Two kinds of file escape it, and only they: *)
(* a file whose deletion failed loses its row all the same (cache.py:379), *)
(* and the temporary file of a stream that broke is removed by nobody.     *)
(***************************************************************************)
CacheAtRest == IndexMatchesDisk /\ DiskWithinCap /\ HalvesAreMissing

\* A call of p that returns, or a deletion by it, goes by the age of the rows.
LruStep(p) ==
    /\ result[p] # "ok" /\ result'[p] = "ok" =>
          \A c \in Indexed : index[c].at <= index[req[p].cid].at
    /\ \A x \in Files : disk'[x] = Absent /\ At(p, "unlink") =>
          \A c \in Indexed \ {req[p].cid} : index[x.cid].at <= index[c].at

(***************************************************************************)
(* Eviction is LRU in terms of calls: a path is returned with the youngest *)
(* row of the index, and the file that eviction deletes belongs to a row   *)
(* no younger than any other but the caller's own, although the candidates *)
(* were read a batch at a time and rows were deleted since.                *)
(***************************************************************************)
EvictsLeastRecentlyUsed == [][\A p \in Procs : LruStep(p)]_vars

(***************************************************************************)
(* Every call of a process that has the cache to itself ends: a lock that  *)
(* a dead process left behind times out, the eviction loop runs out of     *)
(* candidates when deletions fail and when its own content is over the cap.*)
(***************************************************************************)
CallsEnd == \A p \in Procs : ~At(p, "idle") ~> At(p, "idle")
=============================================================================
