----------------------------- MODULE CacheLock -----------------------------
(***************************************************************************)
(* The per-content lock of the local cache: the context manager file_lock  *)
(* of zeno_client/cache_lock.py, one lock file per content directory.      *)
(*                                                                         *)
(* On POSIX the lock is a non-blocking flock polled until it is free or    *)
(* the timeout expires; the kernel drops it when its holder dies.  On      *)
(* other systems the lock is a sentinel file created exclusively; nobody   *)
(* removes the sentinel of a holder that died.  Both share one `finally`   *)
(* block, which runs on a normal exit and on a timeout alike.              *)
(*                                                                         *)
(* The module holds the lock's state and steps and is extended by the      *)
(* modules whose processes take the lock.                                  *)
(***************************************************************************)
CONSTANTS Procs,      \* processes and threads sharing one cache directory
          Contents,   \* content ids, one lock file each
          Posix       \* TRUE: flock; FALSE: the exclusive-create fallback

ASSUME PosixAssumption == Posix \in BOOLEAN

VARIABLES holders,    \* per content id, the processes inside `with file_lock`
          sentinel    \* per content id, the sentinel file exists (fallback only)

lockVars == <<holders, sentinel>>

\* Type of the lock's state.
LockTypeOK == /\ holders \in [Contents -> SUBSET Procs]
              /\ sentinel \in [Contents -> BOOLEAN]

\* A process that died long ago may have left its sentinel.
LockInit == /\ holders = [c \in Contents |-> {}]
            /\ sentinel \in [Contents -> IF Posix THEN {FALSE} ELSE BOOLEAN]

\* What one polling attempt sees: flock has no other holder, or os.open with
\* O_CREAT | O_EXCL finds no sentinel.
LockFree(c) == IF Posix THEN holders[c] = {} ELSE ~sentinel[c]

\* The polling attempt that succeeds.
LockAcquire(p, c) ==
    /\ LockFree(c)
    /\ holders' = [holders EXCEPT ![c] = @ \union {p}]
    /\ sentinel' = [sentinel EXCEPT ![c] = ~Posix]

\* The `finally` block: unlock the caller's own descriptor, or delete the
\* sentinel whoever created it.
LockExit(p, c) ==
    /\ holders' = [holders EXCEPT ![c] = @ \ {p}]
    /\ sentinel' = [sentinel EXCEPT ![c] = FALSE]

\* CacheLockTimeoutError is raised inside the same `try`, so the process that
\* never got the lock runs the `finally` block too.
LockTimeOut(p, c) ==
    /\ ~LockFree(c)
    /\ LockExit(p, c)

\* The process dies in or outside the critical section: a flock goes with its
\* descriptor, a sentinel stays behind.
LockDie(p) ==
    /\ holders' = [c \in Contents |-> holders[c] \ {p}]
    /\ UNCHANGED sentinel

(***************************************************************************)
(* At most one process is inside the critical section of a content id, so  *)
(* that the temporary files under a content directory have one writer.     *)
(* cache_lock.py:14 promises it on both kinds of system; it is false of    *)
(* the fallback, where a waiter that times out deletes the sentinel of the *)
(* process inside.                                                         *)
(***************************************************************************)
MutualExclusion ==
    \A c \in Contents : \A p, q \in holders[c] : p = q
=============================================================================
