------------------------------ MODULE OpsQueue ------------------------------
(***************************************************************************)
(* The main-thread queue of the Blender add-on, blender/chimera_zeno/      *)
(* qt_host.py: any thread queues a closure and makes sure that a drain     *)
(* timer is registered; Blender's main thread runs that timer, which runs  *)
(* closures and unregisters itself when the queue is empty.                *)
(*                                                                         *)
(* The drain timer does not take _LOCK, so its test of the queue, its      *)
(* write of _OPS_DRAIN_HANDLE and its removal by Blender interleave with   *)
(* the steps of worker threads.  A closure is a member of Jobs, used again *)
(* only when nothing refers to it.  Timers never fail to register.         *)
(***************************************************************************)
EXTENDS Naturals, Sequences, FiniteSets

CONSTANTS Jobs,      \* closures
          Workers,   \* worker threads of Qt's thread pool
          Main,      \* Blender's main thread
          Batch,     \* how many closures one drain runs
          None

ASSUME QueueAssumption ==
    /\ Main \notin Workers
    /\ Batch \in Nat \ {0}
    /\ None \notin Jobs

VARIABLES queue,     \* _OPS_QUEUE
          handle,    \* _OPS_DRAIN_HANDLE is set
          timers,    \* drain timers Blender knows, the one it is running included
          at,        \* where each thread is in queue_main_thread
          drain,     \* where the main thread is in _drain_ops_queue
          drained,   \* closures the current drain has run
          running,   \* the closure the drain is running, or None
          loaded     \* the add-on has not been unregistered

queueVars == <<queue, handle, timers, at, drain, drained, running, loaded>>

Threads == Workers \union {Main}
Draining == {"pop", "run", "test", "clear"}

QueueInit ==
    /\ queue = <<>>
    /\ handle = FALSE
    /\ timers = 0
    /\ at = [t \in Threads |-> "idle"]
    /\ drain = "off" /\ drained = 0 /\ running = None
    /\ loaded = TRUE

Queued(j) == \E i \in DOMAIN queue : queue[i] = j

\* _LOCK is held from the test of the handle until it is set.
LockFree == \A t \in Threads : at[t] # "set"

-----------------------------------------------------------------------------
\* queue_main_thread

\* The main thread queues from its GUI or from a closure it runs.
Put(t, j) ==
    /\ at[t] = "idle"
    /\ t = Main => loaded /\ drain \in {"off", "run"}
    /\ queue' = Append(queue, j)
    /\ at' = [at EXCEPT ![t] = "ensure"]
    /\ UNCHANGED <<handle, timers, drain, drained, running, loaded>>

\* _ensure_drain_timer finds the handle set: somebody will drain.
FindTimer(t) ==
    /\ at[t] = "ensure" /\ LockFree
    /\ handle
    /\ at' = [at EXCEPT ![t] = "idle"]
    /\ UNCHANGED <<queue, handle, timers, drain, drained, running, loaded>>

\* Mutated form of RegisterTimer: the lock is not taken.
RegisterTimerUnlocked(t) ==
    /\ at[t] = "ensure"
    /\ ~handle
    /\ timers' = timers + 1
    /\ at' = [at EXCEPT ![t] = "set"]
    /\ UNCHANGED <<queue, handle, drain, drained, running, loaded>>

RegisterTimer(t) ==
    /\ at[t] = "ensure" /\ LockFree
    /\ ~handle
    /\ timers' = timers + 1
    /\ at' = [at EXCEPT ![t] = "set"]
    /\ UNCHANGED <<queue, handle, drain, drained, running, loaded>>

SetHandle(t) ==
    /\ at[t] = "set"
    /\ handle' = TRUE
    /\ at' = [at EXCEPT ![t] = "idle"]
    /\ UNCHANGED <<queue, timers, drain, drained, running, loaded>>

-----------------------------------------------------------------------------
\* _drain_ops_queue, called by Blender

BeginDrain ==
    /\ timers > 0
    /\ drain = "off" /\ at[Main] = "idle"
    /\ drain' = "pop" /\ drained' = 0
    /\ UNCHANGED <<queue, handle, timers, at, running, loaded>>

Pop ==
    /\ drain = "pop"
    /\ drained < Batch /\ queue # <<>>
    /\ running' = Head(queue)
    /\ queue' = Tail(queue)
    /\ drain' = "run"
    /\ UNCHANGED <<handle, timers, at, drained, loaded>>

\* The closure has returned or raised.
FinishJob ==
    /\ drain = "run" /\ at[Main] = "idle"
    /\ running' = None
    /\ drained' = drained + 1
    /\ drain' = "pop"
    /\ UNCHANGED <<queue, handle, timers, at, loaded>>

EndBatch ==
    /\ drain = "pop"
    /\ drained = Batch \/ queue = <<>>
    /\ drain' = "test"
    /\ UNCHANGED <<queue, handle, timers, at, drained, running, loaded>>

\* Mutated form of TestEmpty: the timer stops after one batch.
TestEmptySkipped ==
    /\ drain = "test"
    /\ drain' = "clear"
    /\ UNCHANGED <<queue, handle, timers, at, drained, running, loaded>>

\* More work keeps the timer; an empty queue ends it, in two further steps.
TestEmpty ==
    /\ drain = "test"
    /\ drain' = IF queue = <<>> THEN "clear" ELSE "off"
    /\ UNCHANGED <<queue, handle, timers, at, drained, running, loaded>>

ClearHandle ==
    /\ drain = "clear"
    /\ handle' = FALSE
    /\ drain' = "unregister"
    /\ UNCHANGED <<queue, timers, at, drained, running, loaded>>

\* The timer returned None: Blender removes it.
Unregister ==
    /\ drain = "unregister"
    /\ timers' = timers - 1
    /\ drain' = "off"
    /\ UNCHANGED <<queue, handle, at, drained, running, loaded>>

-----------------------------------------------------------------------------

\* shutdown_qt_runtime: the queue keeps its closures.
Shutdown ==
    /\ loaded /\ drain = "off" /\ at[Main] = "idle" /\ LockFree
    /\ timers' = IF handle /\ timers > 0 THEN timers - 1 ELSE timers
    /\ handle' = FALSE
    /\ loaded' = FALSE
    /\ UNCHANGED <<queue, at, drain, drained, running>>

Ensure(t) == FindTimer(t) \/ RegisterTimer(t) \/ SetHandle(t)

DrainStep ==
    BeginDrain \/ Pop \/ EndBatch \/ TestEmpty \/ ClearHandle \/ Unregister

QueueNext ==
    \/ \E t \in Threads : \/ Ensure(t)
                          \/ \E j \in Jobs : ~Queued(j) /\ j # running /\ Put(t, j)
    \/ DrainStep
    \/ FinishJob
    \/ Shutdown

\* Threads run and get the lock; Blender calls its timers whenever the main thread is free.
QueueFairness ==
    /\ \A t \in Threads : SF_queueVars(Ensure(t))
    /\ WF_queueVars(DrainStep) /\ WF_queueVars(FinishJob)

QueueSpec == QueueInit /\ [][QueueNext]_queueVars
FairQueueSpec == QueueSpec /\ QueueFairness

-----------------------------------------------------------------------------

\* Every variable has its type, and a drain in progress has a timer.
QueueTypeOK ==
    /\ queue \in Seq(Jobs)
    /\ handle \in BOOLEAN /\ loaded \in BOOLEAN
    /\ timers \in Nat
    /\ at \in [Threads -> {"idle", "ensure", "set"}]
    /\ drain \in {"off", "unregister"} \union Draining
    /\ drained \in 0 .. Batch
    /\ running \in Jobs \union {None}
    /\ drain # "off" => timers > 0
    /\ drain = "run" => drained < Batch
    /\ drain = "run" <=> running # None

\* Timers that Blender will call again.
LiveTimers == IF drain = "unregister" THEN timers - 1 ELSE timers

(***************************************************************************)
(* However threads and drains interleave, there is at most one drain timer *)
(* that Blender will call again: the handle, tested under the lock but     *)
(* cleared without it, never lets a second one be registered.              *)
(***************************************************************************)
OneTimer == LiveTimers <= 1

(***************************************************************************)
(* A queued closure runs, even if the UI that queued it has closed:        *)
(* qt_host.py:189-191.  False: the drain timer may have found the queue    *)
(* empty and be about to end when a worker queues a closure and still sees *)
(* the handle; or the worker sets the handle after the timer it registered *)
(* has run and ended, and from then on nobody registers one.               *)
(***************************************************************************)
EveryClosureRuns == \A j \in Jobs : Queued(j) ~> (~Queued(j) \/ ~loaded)

\* As long as only the main thread queues (load, link, markers, renders),
\* every closure runs, in the batches of one drain and across them.
GuiClosuresRun ==
    [](\A w \in Workers : at[w] = "idle") =>
        \A j \in Jobs : Queued(j) ~> (~Queued(j) \/ ~loaded)

\* The timer stops when there is nothing left to do.
TimersStop == <>[](queue = <<>>) => <>[](timers = 0)

(***************************************************************************)
(* A drain that the main thread has asked for is never given up too early  *)
(* nor kept too long: what is queued by then or by the closures themselves *)
(* is run, in whatever batches, and then the timer stops (qt_host.py:16).  *)
(***************************************************************************)
DrainsThenStops == GuiClosuresRun /\ TimersStop
=============================================================================
