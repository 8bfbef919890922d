----------------------------- MODULE QueueProofs -----------------------------
(***************************************************************************)
(* Proofs about Blender's main-thread queue and the publishes that go      *)
(* through it.                                                             *)
(*                                                                         *)
(* OpsQueue, for any closures, any number of worker threads and any batch  *)
(* size: type correctness and the uniqueness of the drain timer, and, when *)
(* only the main thread queues, that closures never wait without a timer.  *)
(*                                                                         *)
(* PublishQueue, for any number of dialogs: types, with the bound on       *)
(* versions, and the asset's lock; and for one dialog, that a timely       *)
(* report is about its own publish.                                        *)
(***************************************************************************)
EXTENDS PublishQueue, TLAPS

-----------------------------------------------------------------------------
\* The drain timer

(***************************************************************************)
(* _LOCK is held by one thread, which found no handle: qt_host.py:117-122. *)
(***************************************************************************)
LockInv ==
    /\ \A t, u \in Threads : at[t] = "set" /\ at[u] = "set" => t = u
    /\ \A t \in Threads : at[t] = "set" => ~handle

(***************************************************************************)
(* A timer that Blender will call again is known to everybody who could    *)
(* register another: through the handle, or because the thread that        *)
(* registered it still holds the lock.                                     *)
(***************************************************************************)
TimerInv == OneTimer /\ (LiveTimers = 1 => handle \/ ~LockFree)

IInv == QueueTypeOK /\ LockInv /\ TimerInv

-----------------------------------------------------------------------------

\* The initial states are typed.
LEMMA InitInv == QueueInit => IInv
<1> SUFFICES ASSUME QueueInit PROVE IInv OBVIOUS
<1>1. QueueTypeOK
  <2>1. queue \in Seq(Jobs) /\ 0 \in 0 .. Batch /\ None \notin Jobs
    BY QueueAssumption DEF QueueInit
  <2> QED BY <2>1 DEF QueueInit, QueueTypeOK, Draining
<1>2. LockInv
  BY DEF QueueInit, LockInv
<1>3. TimerInv
  BY DEF QueueInit, TimerInv, OneTimer, LiveTimers
<1> QED BY <1>1, <1>2, <1>3 DEF IInv

\* Every step keeps the types.
LEMMA TypeStep == QueueTypeOK /\ [QueueNext]_queueVars => QueueTypeOK'
<1> SUFFICES ASSUME QueueTypeOK, [QueueNext]_queueVars PROVE QueueTypeOK' OBVIOUS
<1> USE QueueAssumption DEF QueueTypeOK, Threads, Draining
<1>1. ASSUME NEW t \in Threads, FindTimer(t) PROVE QueueTypeOK'
  BY <1>1 DEF FindTimer
<1>2. ASSUME NEW t \in Threads, RegisterTimer(t) PROVE QueueTypeOK'
  BY <1>2 DEF RegisterTimer
<1>3. ASSUME NEW t \in Threads, SetHandle(t) PROVE QueueTypeOK'
  BY <1>3 DEF SetHandle
<1>4. ASSUME NEW t \in Threads, NEW j \in Jobs, Put(t, j) PROVE QueueTypeOK'
  BY <1>4 DEF Put
<1>5. CASE BeginDrain BY <1>5 DEF BeginDrain
<1>6. CASE Pop
  <2>1. Head(queue) \in Jobs /\ Tail(queue) \in Seq(Jobs)
    BY <1>6 DEF Pop
  <2> QED BY <2>1, <1>6 DEF Pop
<1>7. CASE FinishJob
  <2>1. drained + 1 \in 0 .. Batch
    BY <1>7 DEF FinishJob
  <2> QED BY <2>1, <1>7 DEF FinishJob
<1>8. CASE EndBatch BY <1>8 DEF EndBatch
<1>9. CASE TestEmpty BY <1>9 DEF TestEmpty
<1>10. CASE ClearHandle BY <1>10 DEF ClearHandle
<1>11. CASE Unregister BY <1>11 DEF Unregister
<1>12. CASE Shutdown
  <2>1. timers' \in Nat
    BY <1>12 DEF Shutdown
  <2> QED BY <2>1, <1>12 DEF Shutdown
<1>13. CASE UNCHANGED queueVars BY <1>13 DEF queueVars
<1> QED
  BY <1>1, <1>2, <1>3, <1>4, <1>5, <1>6, <1>7, <1>8, <1>9, <1>10, <1>11, <1>12, <1>13
  DEF QueueNext, Ensure, DrainStep

\* Every step keeps the lock exclusive, and the handle unset while it is held.
LEMMA LockStep == QueueTypeOK /\ LockInv /\ [QueueNext]_queueVars => LockInv'
<1> SUFFICES ASSUME QueueTypeOK, LockInv, [QueueNext]_queueVars PROVE LockInv' OBVIOUS
<1> USE DEF LockInv
<1>0. at \in [Threads -> {"idle", "ensure", "set"}] BY DEF QueueTypeOK
<1>1. ASSUME NEW t \in Threads, FindTimer(t) PROVE LockInv'
  BY <1>0, <1>1 DEF FindTimer
<1>2. ASSUME NEW t \in Threads, RegisterTimer(t) PROVE LockInv'
  BY <1>0, <1>2 DEF RegisterTimer, LockFree
<1>3. ASSUME NEW t \in Threads, SetHandle(t) PROVE LockInv'
  BY <1>0, <1>3 DEF SetHandle
<1>4. ASSUME NEW t \in Threads, NEW j \in Jobs, Put(t, j) PROVE LockInv'
  BY <1>0, <1>4 DEF Put
<1>5. CASE ClearHandle BY <1>5 DEF ClearHandle
<1>6. CASE Shutdown BY <1>6 DEF Shutdown
<1>7. CASE BeginDrain \/ Pop \/ FinishJob \/ EndBatch \/ TestEmpty \/ Unregister
  BY <1>7 DEF BeginDrain, Pop, FinishJob, EndBatch, TestEmpty, Unregister
<1>8. CASE UNCHANGED queueVars BY <1>8 DEF queueVars
<1> QED
  BY <1>1, <1>2, <1>3, <1>4, <1>5, <1>6, <1>7, <1>8 DEF QueueNext, Ensure, DrainStep

\* Every step keeps the timer unique and known.
LEMMA TimerStep == IInv /\ [QueueNext]_queueVars => TimerInv'
<1> SUFFICES ASSUME IInv, [QueueNext]_queueVars PROVE TimerInv' OBVIOUS
<1> USE DEF TimerInv, OneTimer, LiveTimers
<1>0. /\ timers \in Nat
      /\ at \in [Threads -> {"idle", "ensure", "set"}]
      /\ drain # "off" => timers > 0
      /\ LockInv /\ TimerInv
  BY DEF IInv, QueueTypeOK
<1>1. ASSUME NEW t \in Threads, FindTimer(t) PROVE TimerInv'
  BY <1>0, <1>1 DEF FindTimer, LockFree
<1>2. ASSUME NEW t \in Threads, RegisterTimer(t) PROVE TimerInv'
  <2>1. LiveTimers = 0
    BY <1>0, <1>2 DEF RegisterTimer
  <2>2. LiveTimers' = 1
    BY <1>0, <1>2, <2>1 DEF RegisterTimer
  <2>3. ~LockFree'
    BY <1>0, <1>2 DEF RegisterTimer, LockFree
  <2> QED BY <2>2, <2>3
<1>3. ASSUME NEW t \in Threads, SetHandle(t) PROVE TimerInv'
  BY <1>0, <1>3 DEF SetHandle
<1>4. ASSUME NEW t \in Threads, NEW j \in Jobs, Put(t, j) PROVE TimerInv'
  <2>1. LockFree' = LockFree
    BY <1>0, <1>4 DEF Put, LockFree
  <2> QED BY <1>0, <1>4, <2>1 DEF Put
<1>5. CASE ClearHandle
  <2>1. LiveTimers' = LiveTimers - 1
    BY <1>0, <1>5 DEF ClearHandle
  <2> QED BY <1>0, <1>5, <2>1 DEF ClearHandle
<1>6. CASE Unregister
  BY <1>0, <1>6 DEF Unregister, LockFree
<1>7. CASE Shutdown
  BY <1>0, <1>7 DEF Shutdown, LockFree
<1>8. CASE BeginDrain \/ Pop \/ FinishJob \/ EndBatch \/ TestEmpty
  BY <1>0, <1>8 DEF BeginDrain, Pop, FinishJob, EndBatch, TestEmpty, LockFree
<1>9. CASE UNCHANGED queueVars BY <1>0, <1>9 DEF queueVars, LockFree
<1> QED
  BY <1>1, <1>2, <1>3, <1>4, <1>5, <1>6, <1>7, <1>8, <1>9 DEF QueueNext, Ensure, DrainStep

\* Together they are inductive.
LEMMA Invariance == QueueSpec => []IInv
<1>1. IInv /\ [QueueNext]_queueVars => IInv'
  BY TypeStep, LockStep, TimerStep DEF IInv
<1> QED BY InitInv, <1>1, PTL DEF QueueSpec

-----------------------------------------------------------------------------

(***************************************************************************)
(* The state of qt_host.py keeps its types, and a drain in progress is     *)
(* always run by a timer.                                                  *)
(***************************************************************************)
THEOREM QueueTypeCorrect == QueueSpec => []QueueTypeOK
<1>1. IInv => QueueTypeOK BY DEF IInv
<1> QED BY Invariance, <1>1, PTL

(***************************************************************************)
(* At most one drain timer that Blender will call again, however many      *)
(* threads queue: the double-checked handle of _ensure_drain_timer.        *)
(***************************************************************************)
THEOREM QueueOneTimer == QueueSpec => []OneTimer
<1>1. IInv => OneTimer BY DEF IInv, TimerInv
<1> QED BY Invariance, <1>1, PTL

-----------------------------------------------------------------------------
\* Without worker threads

(***************************************************************************)
(* What the two lost wake-ups of EveryClosureRuns break: a closure that    *)
(* has been queued has a timer that will be called.                        *)
(***************************************************************************)
WorkHasTimer == loaded /\ queue # <<>> /\ at[Main] = "idle" => LiveTimers = 1

\* The main thread neither drains while it queues nor queues while it ends a
\* drain, so that the handle means a timer.
GuiInv ==
    /\ at[Main] # "idle" => drain \in {"off", "run"}
    /\ drain \in {"clear", "unregister"} => queue = <<>>
    /\ handle \/ at[Main] = "set" => LiveTimers = 1
    /\ WorkHasTimer

\* GuiInv is inductive when the main thread is the only one.
LEMMA GuiStep ==
    ASSUME Workers = {}, IInv, GuiInv, [QueueNext]_queueVars
    PROVE  GuiInv'
<1> USE DEF GuiInv, WorkHasTimer, LiveTimers
<1>0. /\ Threads = {Main}
      /\ timers \in Nat
      /\ at \in [Threads -> {"idle", "ensure", "set"}]
      /\ drain # "off" => timers > 0
      /\ TimerInv
  BY DEF IInv, QueueTypeOK, Threads
<1>1. ASSUME NEW t \in Threads, FindTimer(t) PROVE GuiInv'
  BY <1>0, <1>1 DEF FindTimer
<1>2. ASSUME NEW t \in Threads, RegisterTimer(t) PROVE GuiInv'
  <2>1. t = Main /\ LockFree /\ ~handle /\ LiveTimers = 0
    BY <1>0, <1>2 DEF RegisterTimer, TimerInv, OneTimer
  <2>2. LiveTimers' = 1
    BY <1>0, <1>2, <2>1 DEF RegisterTimer
  <2> QED BY <1>0, <1>2, <2>1, <2>2 DEF RegisterTimer
<1>3. ASSUME NEW t \in Threads, SetHandle(t) PROVE GuiInv'
  BY <1>0, <1>3 DEF SetHandle
<1>4. ASSUME NEW t \in Threads, NEW j \in Jobs, Put(t, j) PROVE GuiInv'
  BY <1>0, <1>4 DEF Put
<1>5. CASE BeginDrain BY <1>0, <1>5 DEF BeginDrain
<1>6. CASE Pop BY <1>0, <1>6 DEF Pop
<1>7. CASE FinishJob BY <1>0, <1>7 DEF FinishJob
<1>8. CASE EndBatch BY <1>0, <1>8 DEF EndBatch
<1>9. CASE TestEmpty BY <1>0, <1>9 DEF TestEmpty
<1>10. CASE ClearHandle BY <1>0, <1>10 DEF ClearHandle
<1>11. CASE Unregister BY <1>0, <1>11 DEF Unregister
<1>12. CASE Shutdown BY <1>0, <1>12 DEF Shutdown
<1>13. CASE UNCHANGED queueVars BY <1>13 DEF queueVars
<1> QED
  BY <1>1, <1>2, <1>3, <1>4, <1>5, <1>6, <1>7, <1>8, <1>9, <1>10, <1>11, <1>12, <1>13
  DEF QueueNext, Ensure, DrainStep

(***************************************************************************)
(* As long as only the main thread queues, no closure is left without a    *)
(* timer, whatever the batch, and whichever closures queue others: the     *)
(* safety half of GuiClosuresRun.                                          *)
(***************************************************************************)
THEOREM GuiWorkHasTimer == Workers = {} => (QueueSpec => []WorkHasTimer)
<1> SUFFICES ASSUME Workers = {} PROVE QueueSpec => []WorkHasTimer OBVIOUS
<1>1. QueueInit => GuiInv
  BY DEF QueueInit, GuiInv, WorkHasTimer, LiveTimers, Threads
<1>2. IInv /\ GuiInv /\ [QueueNext]_queueVars => GuiInv'
  BY GuiStep
<1>3. GuiInv => WorkHasTimer
  BY DEF GuiInv
<1> QED BY Invariance, <1>1, <1>2, <1>3, PTL DEF QueueSpec

-----------------------------------------------------------------------------
\* The queue

\* A closure is at most once in the queue or running.
Once ==
    /\ \A i, k \in DOMAIN queue : queue[i] = queue[k] => i = k
    /\ ~Queued(running)

LEMMA Appended ==
    ASSUME queue \in Seq(Jobs), NEW j \in Jobs, queue' = Append(queue, j)
    PROVE  /\ Len(queue') = Len(queue) + 1 /\ DOMAIN queue' = 1 .. Len(queue) + 1
           /\ \A i \in DOMAIN queue : queue'[i] = queue[i]
           /\ queue'[Len(queue) + 1] = j
           /\ \A k : Queued(k)' <=> Queued(k) \/ k = j
<1>1. /\ Len(queue') = Len(queue) + 1 /\ DOMAIN queue' = 1 .. Len(queue) + 1
      /\ \A i \in DOMAIN queue : queue'[i] = queue[i]
      /\ queue'[Len(queue) + 1] = j
    OBVIOUS
<1>2. DOMAIN queue = 1 .. Len(queue) /\ Len(queue) \in Nat
    OBVIOUS
<1> QED  BY <1>1, <1>2 DEF Queued

LEMMA Popped ==
    ASSUME queue \in Seq(Jobs), queue # <<>>, queue' = Tail(queue)
    PROVE  /\ DOMAIN queue' = 1 .. Len(queue) - 1
           /\ \A i \in DOMAIN queue' : i + 1 \in DOMAIN queue /\ queue'[i] = queue[i + 1]
           /\ Head(queue) = queue[1] /\ 1 \in DOMAIN queue
           /\ \A k : Queued(k)' => Queued(k)
<1>1. /\ DOMAIN queue' = 1 .. Len(queue) - 1
      /\ \A i \in DOMAIN queue' : i + 1 \in DOMAIN queue /\ queue'[i] = queue[i + 1]
      /\ Head(queue) = queue[1] /\ 1 \in DOMAIN queue
    OBVIOUS
<1> QED  BY <1>1 DEF Queued

\* What a step does to the queue.
LEMMA StepsQueue ==
    ASSUME Next
    PROVE  [QueueNext]_queueVars
<1> USE DEF Threads
<1>1. CASE QueueStep
    BY <1>1 DEF QueueStep, QueueNext
<1>2. CASE OpStep
    <2>1. CASE Return
        BY <2>1 DEF Return, QueueNext
    <2>2. CASE ~Return
        BY <1>2, <2>2 DEF OpStep, Execute, Reject, ChooseWay, HubRaises, HubPublishes, HubRefuses, HubSilent,
            NoClient, ReadSession, Heartbeat, Acquire, AcquireFails, Upload, UploadFails, Release, queueVars
    <2> QED  BY <2>1, <2>2
<1>3. ASSUME NEW w \in Threads, Click(w) PROVE QueueNext
    BY <1>3, PublishAssumption DEF Click, Unused, QueueNext
<1>4. ASSUME NEW w \in Threads, Wait(w) \/ Dismiss(w) PROVE UNCHANGED queueVars
    BY <1>4 DEF Wait, Answered, TimedOut, ReadOutcome, Dismiss
<1>5. ASSUME NEW j \in Publishes, HubFinishes(j) PROVE UNCHANGED queueVars
    BY <1>5 DEF HubFinishes
<1>6. ASSUME NEW t \in Threads, NEW j \in Jobs \ Publishes, QueueOther(t, j) PROVE QueueNext
    BY <1>6 DEF QueueOther, QueueNext
<1>7. CASE FinishOther
    BY <1>7 DEF FinishOther, QueueNext
<1> QED  BY <1>1, <1>2, <1>3, <1>4, <1>5, <1>6, <1>7 DEF Next

\* The queue of a publish: as OpsQueue's, each closure once.
LEMMA OnceStep == QueueTypeOK /\ Once /\ [QueueNext]_queueVars => Once'
<1> SUFFICES ASSUME QueueTypeOK, Once, [QueueNext]_queueVars PROVE Once' OBVIOUS
<1>0. queue \in Seq(Jobs) /\ running \in Jobs \union {None}
    BY DEF QueueTypeOK
<1>1. ASSUME NEW t \in Threads, NEW j \in Jobs, ~Queued(j), j # running, Put(t, j) PROVE Once'
    <2>1. queue' = Append(queue, j) /\ running' = running
        BY <1>1 DEF Put
    <2>2. DOMAIN queue = 1 .. Len(queue) /\ Len(queue) \in Nat
        BY <1>0
    <2>3. \A i, k \in DOMAIN queue' : queue'[i] = queue'[k] => i = k
        BY <1>0, <1>1, <2>1, <2>2, Appended DEF Once, Queued
    <2> QED  BY <1>0, <1>1, <2>1, <2>3, Appended DEF Once
<1>2. CASE Pop
    <2>1. queue # <<>> /\ queue' = Tail(queue) /\ running' = Head(queue)
        BY <1>2 DEF Pop
    <2>2. \A i, k \in DOMAIN queue' : queue'[i] = queue'[k] => i = k
        BY <1>0, <2>1, Popped DEF Once
    <2>3. ~Queued(running)'
        BY <1>0, <2>1, Popped DEF Once, Queued
    <2> QED  BY <2>2, <2>3 DEF Once
<1>3. CASE FinishJob
    <2>1. ~Queued(None)
        BY <1>0, QueueAssumption DEF Queued
    <2> QED  BY <1>3, <2>1 DEF FinishJob, Once, Queued
<1>4. CASE UNCHANGED <<queue, running>>
    BY <1>4 DEF Once, Queued
<1>5. \/ \E t \in Threads, j \in Jobs : ~Queued(j) /\ j # running /\ Put(t, j)
      \/ Pop \/ FinishJob \/ UNCHANGED <<queue, running>>
    BY DEF QueueNext, Ensure, FindTimer, RegisterTimer, SetHandle, DrainStep, BeginDrain, EndBatch,
        TestEmpty, ClearHandle, Unregister, Shutdown, queueVars
<1> QED  BY <1>1, <1>2, <1>3, <1>4, <1>5

-----------------------------------------------------------------------------
\* Types and the asset's lock

Ops == {"off", "checked", "hub", "local", "beat", "acquire", "upload", "release", "returned"}

\* The operator runs in a closure that publishes.
OpInv ==
    /\ op \in Ops
    /\ op # "off" => running \in Publishes
    /\ last \in Outcome \union {None}
    /\ {session, assetLock, lockFault} \subseteq BOOLEAN
    /\ hold \in [sid : BOOLEAN, acquired : BOOLEAN]
    /\ result \in [Publishes -> {"none", "ok", "bad"}]
    /\ op = "checked" => last = None
    /\ op = "release" => last # None /\ last.from = running
    /\ op = "returned" => last = None \/ last.from = running

DialogInv ==
    /\ dialog \in [Threads -> {"idle", "wait", "read", "shown"}]
    /\ job \in [Threads -> Publishes \union {None}]
    /\ late \in [Threads -> BOOLEAN]
    /\ report \in [Threads -> Outcome \union {None}]
    /\ \A w \in Threads : dialog[w] # "idle" => job[w] \in Publishes

(***************************************************************************)
(* execute knows whether it holds the lock, and holds it from the grant to *)
(* the finally block.                                                      *)
(***************************************************************************)
LockRules ==
    /\ assetLock => lockFault \/ hold.acquired
    /\ hold.acquired => assetLock /\ op \in {"upload", "release"}
    /\ op = "upload" /\ hold.sid => hold.acquired

(***************************************************************************)
(* A closure registers one version through the hub, at once or later, and  *)
(* one in process: before each it has that much less.                      *)
(***************************************************************************)
Owed(j) == IF j \in hubWork THEN 1 ELSE 0

Untried(j) == Queued(j) \/ (running = j /\ op \in {"off", "checked", "hub"})

InProcess(j) == running = j /\ op \in {"local", "beat", "acquire", "upload"}

Allowance(j) ==
    /\ Untried(j) => versions[j] = 0 /\ j \notin hubWork
    /\ InProcess(j) => versions[j] + Owed(j) <= 1
    /\ versions[j] + Owed(j) <= 2

VersionInv ==
    /\ hubWork \subseteq Publishes
    /\ versions \in [Publishes -> Nat]
    /\ \A j \in Publishes : Allowance(j)

PInv == QueueTypeOK /\ Once /\ OpInv /\ DialogInv /\ LockRules /\ VersionInv

LEMMA PInitInv == Init => PInv
<1> SUFFICES ASSUME Init PROVE PInv OBVIOUS
<1>1. QueueTypeOK
    BY InitInv DEF Init, IInv
<1>2. Once
    BY DEF Init, QueueInit, Once, Queued
<1>3. OpInv /\ DialogInv /\ LockRules
    BY DEF Init, OpInv, DialogInv, LockRules, NoHold, Ops
<1>4. VersionInv
    BY QueueAssumption, PublishAssumption DEF Init, QueueInit, VersionInv, Allowance, Untried, InProcess, Owed, Queued
<1> QED  BY <1>1, <1>2, <1>3, <1>4 DEF PInv

\* An outcome is one, and not None.
LEMMA OutTyped ==
    ASSUME NEW ok \in BOOLEAN, NEW j \in Publishes
    PROVE  Out(ok, j) \in Outcome /\ Out(ok, j) # None /\ Out(ok, j).from = j /\ Out(ok, j).ok = ok
BY PublishAssumption DEF Out, Outcome

\* The operator's steps that change neither its closure nor its queue.
Within == /\ UNCHANGED queueVars
          /\ OpStep /\ ~Return

LEMMA OpStepWithin ==
    ASSUME OpStep, ~Return
    PROVE  Within /\ UNCHANGED <<dialogVars, result>> /\ drain = "run" /\ running \in Publishes
BY DEF OpStep, Within, Execute, Reject, ChooseWay, HubRaises, HubPublishes, HubRefuses, HubSilent, NoClient, OpAt,
    ReadSession, Heartbeat, Acquire, AcquireFails, Upload, UploadFails, Release, queueVars

\* Steps that leave the operator alone.
Elsewhere == UNCHANGED opVars

LEMMA OpInvStep == PInv /\ [Next]_vars => OpInv'
<1> SUFFICES ASSUME PInv, [Next]_vars PROVE OpInv' OBVIOUS
<1> USE DEF OpInv, Ops
<1>0. QueueTypeOK /\ OpInv /\ PublishAssumption
    BY PublishAssumption DEF PInv
<1>1. CASE OpStep /\ ~Return
    <2>1. running \in Publishes /\ running' = running /\ result' = result
        BY <1>1, OpStepWithin DEF Within, queueVars
    <2>2. \A ok \in BOOLEAN : /\ Out(ok, running) \in Outcome /\ Out(ok, running) # None
                              /\ Out(ok, running).from = running
        BY <2>1, OutTyped
    <2>3. CASE Execute
        BY <1>0, <2>1, <2>3 DEF Execute
    <2>4. CASE Reject \/ HubPublishes \/ HubRefuses \/ NoClient \/ Upload \/ UploadFails
        BY <1>0, <2>1, <2>2, <2>4 DEF Reject, HubPublishes, HubRefuses, NoClient, Upload, UploadFails, Fails, Succeeds
    <2>5. CASE ChooseWay \/ HubRaises \/ HubSilent
        BY <1>0, <2>1, <2>5 DEF ChooseWay, HubRaises, HubSilent, OpAt
    <2>6. CASE ReadSession
        <3>1. hold' \in [sid : BOOLEAN, acquired : BOOLEAN]
            BY <1>0, <2>6 DEF ReadSession
        <3> QED  BY <1>0, <2>1, <2>6, <3>1 DEF ReadSession
    <2>9. CASE Heartbeat
        BY <1>0, <2>1, <2>2, <2>9 DEF Heartbeat, Fails
    <2>7. CASE Acquire \/ AcquireFails
        BY <1>0, <2>1, <2>2, <2>7 DEF Acquire, AcquireFails, Fails
    <2>8. CASE Release
        BY <1>0, <2>1, <2>8 DEF Release, NoHold, OpAt
    <2> QED  BY <1>1, <2>3, <2>4, <2>5, <2>6, <2>7, <2>8, <2>9 DEF OpStep
<1>2. CASE Return
    <2>1. result' \in [Publishes -> {"none", "ok", "bad"}]
        BY <1>0, <1>2 DEF Return
    <2> QED  BY <1>0, <1>2, <2>1 DEF Return
<1>3. ASSUME NEW w \in Threads, Click(w) PROVE OpInv'
    <2>1. result' \in [Publishes -> {"none", "ok", "bad"}]
        BY <1>0, <1>3 DEF Click
    <2>2. UNCHANGED <<opVars, running>>
        BY <1>3 DEF Click, Put
    <2> QED  BY <1>0, <2>1, <2>2 DEF opVars
<1>4. CASE UNCHANGED <<opVars, result, running>>
    BY <1>0, <1>4 DEF opVars
<1>5. CASE Pop /\ UNCHANGED <<opVars, result>>
    <2>1. op = "off"
        BY <1>0, <1>5, QueueAssumption DEF Pop, QueueTypeOK
    <2> QED  BY <1>0, <1>5, <2>1 DEF opVars
<1>6. CASE FinishOther
    BY <1>0, <1>6 DEF FinishOther, opVars
<1>7. \/ OpStep /\ ~Return
      \/ Return
      \/ \E w \in Threads : Click(w)
      \/ UNCHANGED <<opVars, result, running>>
      \/ Pop /\ UNCHANGED <<opVars, result>>
      \/ FinishOther
    BY DEF Next, vars, QueueStep, Ensure, FindTimer, RegisterTimer, SetHandle, DrainStep, BeginDrain, EndBatch,
        TestEmpty, ClearHandle, Unregister, Shutdown, queueVars, Wait, Answered, TimedOut, ReadOutcome,
        Dismiss, HubFinishes, QueueOther, Put, OpStep
<1> QED  BY <1>1, <1>2, <1>3, <1>4, <1>5, <1>6, <1>7

LEMMA DialogInvStep == PInv /\ [Next]_vars => DialogInv'
<1> SUFFICES ASSUME PInv, [Next]_vars PROVE DialogInv' OBVIOUS
<1> USE DEF DialogInv
<1>0. DialogInv /\ OpInv
    BY DEF PInv
<1>1. ASSUME NEW w \in Threads, Click(w) PROVE DialogInv'
    BY <1>0, <1>1 DEF Click
<1>2. ASSUME NEW w \in Threads, Answered(w) \/ TimedOut(w) PROVE DialogInv'
    BY <1>0, <1>2 DEF Answered, TimedOut, Waits
<1>3. ASSUME NEW w \in Threads, ReadOutcome(w) PROVE DialogInv'
    <2>1. job[w] \in Publishes
        BY <1>0, <1>3 DEF ReadOutcome
    <2>2. \A ok \in BOOLEAN : Out(ok, job[w]) \in Outcome
        BY <2>1, OutTyped
    <2>3. (~late[w] /\ result[job[w]] = "ok") \in BOOLEAN
        OBVIOUS
    <2>4. report'[w] \in Outcome \union {None}
        BY <1>0, <1>3, <2>2, <2>3 DEF ReadOutcome, OpInv
    <2> QED  BY <1>0, <1>3, <2>4 DEF ReadOutcome
<1>4. ASSUME NEW w \in Threads, Dismiss(w) PROVE DialogInv'
    BY <1>0, <1>4 DEF Dismiss
<1>5. CASE UNCHANGED dialogVars
    BY <1>0, <1>5 DEF dialogVars
<1>6. \/ \E w \in Threads : Click(w) \/ Wait(w) \/ Dismiss(w)
      \/ UNCHANGED dialogVars
    BY OpStepWithin DEF Next, vars, QueueStep, HubFinishes, QueueOther, FinishOther, Return
<1> QED  BY <1>1, <1>2, <1>3, <1>4, <1>5, <1>6 DEF Wait

LEMMA LockRulesStep == PInv /\ [Next]_vars => LockRules'
<1> SUFFICES ASSUME PInv, [Next]_vars PROVE LockRules' OBVIOUS
<1> USE DEF LockRules
<1>0. LockRules /\ OpInv
    BY DEF PInv
<1>1. CASE Execute \/ Reject \/ ChooseWay \/ HubRaises \/ NoClient \/ HubPublishes \/ HubRefuses \/ HubSilent \/ Return
    <2>1. UNCHANGED <<hold, assetLock, lockFault>> /\ op \notin {"upload", "release"} /\ op' # "upload"
        BY <1>1 DEF OpAt, Execute, Reject, ChooseWay, HubRaises, HubPublishes, HubRefuses, HubSilent, NoClient,
            Fails, Succeeds, Return
    <2> QED  BY <1>0, <2>1
<1>2. CASE ReadSession
    BY <1>0, <1>2 DEF ReadSession, OpAt
<1>3. CASE Heartbeat
    BY <1>0, <1>3 DEF Heartbeat, OpAt, Fails
<1>4. CASE Acquire
    BY <1>0, <1>4 DEF Acquire, OpAt, OpInv
<1>5. CASE AcquireFails
    BY <1>0, <1>5 DEF AcquireFails, OpAt, Fails
<1>6. CASE Upload \/ UploadFails
    <2>1. UNCHANGED <<hold, assetLock, lockFault>> /\ op' = "release"
        BY <1>6 DEF Upload, UploadFails, Fails, Succeeds
    <2> QED  BY <1>0, <2>1
<1>7. CASE Release
    BY <1>0, <1>7 DEF Release, OpAt, NoHold
<1>8. CASE UNCHANGED opVars
    BY <1>0, <1>8 DEF opVars
<1>9. OpStep \/ UNCHANGED opVars
    BY DEF Next, vars, QueueStep, Click, Wait, Answered, TimedOut, ReadOutcome, Dismiss, HubFinishes,
        QueueOther, FinishOther
<1> QED  BY <1>1, <1>2, <1>3, <1>4, <1>5, <1>6, <1>7, <1>8, <1>9 DEF OpStep

-----------------------------------------------------------------------------
\* Versions

LEMMA OwedBit == \A j : Owed(j) \in {0, 1}
BY DEF Owed

\* A closure that registers nothing and comes no closer to it.
LEMMA Undisturbed ==
    ASSUME PInv, NEW k \in Publishes, versions'[k] = versions[k], k \in hubWork' <=> k \in hubWork,
           Untried(k)' => Untried(k), InProcess(k)' => Untried(k) \/ InProcess(k)
    PROVE  Allowance(k)'
<1>1. Allowance(k) /\ versions[k] \in Nat
    BY DEF PInv, VersionInv
<1> QED  BY <1>1 DEF Allowance, Owed

LEMMA AllUndisturbed ==
    ASSUME PInv, UNCHANGED <<versions, hubWork>>,
           \A k \in Publishes : Untried(k)' => Untried(k),
           \A k \in Publishes : InProcess(k)' => Untried(k) \/ InProcess(k)
    PROVE  VersionInv'
<1>1. VersionInv
    BY DEF PInv
<1>2. \A k \in Publishes : versions'[k] = versions[k] /\ (k \in hubWork' <=> k \in hubWork)
    OBVIOUS
<1>3. \A k \in Publishes : Allowance(k)'
    BY <1>2, Undisturbed
<1> QED  BY <1>1, <1>3 DEF VersionInv

\* The running operator registers a version, or may have.
LEMMA RegistersInv ==
    ASSUME PInv, NEW r \in Publishes, running = r, UNCHANGED <<queueVars, hubWork>>, ~Queued(r),
           Untried(r) \/ InProcess(r),
           Registers(r) \/ UNCHANGED versions, op' \in {"release", "returned"}
    PROVE  VersionInv'
<1>1. VersionInv /\ Allowance(r) /\ versions[r] \in Nat
    BY DEF PInv, VersionInv
<1>2. versions[r] + Owed(r) <= 1
    BY <1>1 DEF Allowance, Owed
<1>3. /\ versions' \in [Publishes -> Nat]
      /\ versions'[r] \in {versions[r], versions[r] + 1}
      /\ \A k \in Publishes \ {r} : versions'[k] = versions[k]
    BY <1>1 DEF VersionInv, Registers
<1>4. ~Untried(r)' /\ ~InProcess(r)' /\ Owed(r)' = Owed(r)
    BY DEF Untried, InProcess, Owed, queueVars, Queued
<1>5. Allowance(r)'
    BY <1>1, <1>2, <1>3, <1>4 DEF Allowance, Owed
<1>6. ASSUME NEW k \in Publishes \ {r} PROVE Allowance(k)'
    <2>1. (Untried(k)' => Untried(k)) /\ ~InProcess(k)'
        BY DEF Untried, InProcess, queueVars, Queued
    <2> QED  BY <1>3, <2>1, Undisturbed
<1> QED  BY <1>1, <1>3, <1>5, <1>6 DEF VersionInv

LEMMA VersionInvStep == PInv /\ [Next]_vars => VersionInv'
<1> SUFFICES ASSUME PInv, [Next]_vars PROVE VersionInv' OBVIOUS
<1>0. /\ QueueTypeOK /\ OpInv /\ Once /\ VersionInv
      /\ queue \in Seq(Jobs)
      /\ None \notin Publishes
    BY QueueAssumption, PublishAssumption DEF PInv, QueueTypeOK
<1>1. CASE OpStep /\ ~Return
    <2>1. running \in Publishes /\ UNCHANGED queueVars /\ ~Queued(running)
        BY <1>0, <1>1, OpStepWithin DEF Within, Once
    <2>2. \A k : (Queued(k)' <=> Queued(k)) /\ running' = running
        BY <2>1 DEF queueVars, Queued
    <2>0. PICK r \in Publishes : running = r /\ running' = r
        BY <2>1 DEF queueVars
    <2>3. CASE HubPublishes \/ HubRefuses \/ Upload \/ UploadFails
        <3>1. Untried(r) \/ InProcess(r)
            BY <2>0, <2>3 DEF HubPublishes, HubRefuses, Upload, UploadFails, OpAt, Untried, InProcess
        <3>2. /\ UNCHANGED hubWork
              /\ Registers(r) \/ UNCHANGED versions
              /\ op' \in {"release", "returned"}
            BY <2>0, <2>3 DEF HubPublishes, HubRefuses, Upload, UploadFails, MayRegister, Fails, Succeeds
        <3> QED  BY <2>0, <2>1, <3>1, <3>2, RegistersInv
    <2>4. CASE HubSilent
        <3>1. Untried(r) /\ op' = "local" /\ UNCHANGED versions
              /\ hubWork' \in {hubWork, hubWork \union {r}}
            BY <2>0, <2>4 DEF HubSilent, OpAt, Untried
        <3>2. versions[r] = 0 /\ ~Untried(r)'
            BY <1>0, <2>0, <2>1, <2>2, <3>1 DEF VersionInv, Allowance, Untried
        <3>3. Allowance(r)'
            BY <2>0, <3>1, <3>2 DEF Allowance, Owed
        <3>4. ASSUME NEW k \in Publishes \ {r} PROVE Allowance(k)'
            <4>1. Untried(k)' => Untried(k)
                BY <2>0, <2>2 DEF Untried
            <4>2. ~InProcess(k)'
                BY <2>0, <2>2 DEF InProcess
            <4> QED  BY <3>1, <4>1, <4>2, Undisturbed
        <3> QED  BY <1>0, <2>0, <2>1, <3>1, <3>3, <3>4 DEF VersionInv
    <2>5. CASE Execute \/ Reject \/ ChooseWay \/ HubRaises \/ NoClient \/ ReadSession \/ Heartbeat \/ Acquire
               \/ AcquireFails \/ Release
        <3>1. /\ UNCHANGED <<versions, hubWork>>
              /\ op' \in {"off", "checked", "hub"} => op \in {"off", "checked"}
              /\ op' \in {"local", "beat", "acquire", "upload"} =>
                     op \in {"checked", "local", "beat", "acquire"}
            BY <2>5 DEF Execute, Reject, ChooseWay, HubRaises, NoClient, ReadSession, Heartbeat, Acquire, AcquireFails,
                Release, OpAt, Fails
        <3>2. ASSUME NEW k \in Publishes
              PROVE  (Untried(k)' => Untried(k)) /\ (InProcess(k)' => Untried(k) \/ InProcess(k))
            BY <2>2, <3>1 DEF Untried, InProcess
        <3> QED  BY <3>1, <3>2, AllUndisturbed
    <2> QED  BY <1>1, <2>3, <2>4, <2>5 DEF OpStep
<1>2. CASE Return \/ FinishOther
    <2>1. UNCHANGED <<versions, hubWork, queue>> /\ running' = None
        BY <1>2 DEF Return, FinishOther, FinishJob
    <2>2. \A k \in Publishes : (Untried(k)' => Untried(k)) /\ ~InProcess(k)'
        BY <1>0, <2>1 DEF Untried, InProcess, Queued
    <2> QED  BY <2>1, <2>2, AllUndisturbed
<1>3. ASSUME NEW w \in Threads, NEW j \in Publishes, Unused(j), Put(w, j),
             versions' = [versions EXCEPT ![j] = 0], UNCHANGED <<opVars, hubWork>>
      PROVE  VersionInv'
    <2>1. queue' = Append(queue, j) /\ running' = running /\ op' = op /\ j \in Jobs
        BY <1>3, PublishAssumption DEF Put, opVars
    <2>2. j \notin hubWork /\ running # j /\ versions' \in [Publishes -> Nat] /\ versions'[j] = 0
        BY <1>0, <1>3 DEF Unused, VersionInv
    <2>3. Allowance(j)'
        BY <1>3, <2>2 DEF Allowance, Owed
    <2>4. ASSUME NEW k \in Publishes \ {j} PROVE Allowance(k)'
        <3>1. (Untried(k)' => Untried(k)) /\ (InProcess(k)' => InProcess(k))
            BY <1>0, <2>1, Appended DEF Untried, InProcess
        <3>2. versions'[k] = versions[k] /\ hubWork' = hubWork
            BY <1>0, <1>3 DEF VersionInv
        <3> QED  BY <3>1, <3>2, Undisturbed
    <2> QED  BY <1>0, <1>3, <2>2, <2>3, <2>4 DEF VersionInv
<1>4. ASSUME NEW j \in Publishes, HubFinishes(j) PROVE VersionInv'
    <2>1. UNCHANGED <<queueVars, op>> /\ j \in hubWork /\ hubWork' = hubWork \ {j}
          /\ (Registers(j) \/ UNCHANGED versions)
        BY <1>4 DEF HubFinishes, opVars, MayRegister
    <2>2. \A k \in Publishes : (Untried(k)' <=> Untried(k)) /\ (InProcess(k)' <=> InProcess(k))
        BY <2>1 DEF Untried, InProcess, queueVars, Queued
    <2>3. /\ versions' \in [Publishes -> Nat]
          /\ versions'[j] \in {versions[j], versions[j] + 1}
          /\ \A k \in Publishes \ {j} : versions'[k] = versions[k]
        BY <1>0, <2>1 DEF VersionInv, Registers
    <2>4. Allowance(j)'
        <3>1. Allowance(j) /\ Owed(j) = 1 /\ Owed(j)' = 0 /\ versions[j] \in Nat
            BY <1>0, <2>1 DEF VersionInv, Owed
        <3> QED  BY <2>1, <2>2, <2>3, <3>1 DEF Allowance
    <2>5. ASSUME NEW k \in Publishes \ {j} PROVE Allowance(k)'
        BY <2>1, <2>2, <2>3, Undisturbed
    <2> QED  BY <1>0, <2>1, <2>3, <2>4, <2>5 DEF VersionInv
<1>5. CASE Pop /\ UNCHANGED <<versions, hubWork, op>>
    <2>1. queue # <<>> /\ queue' = Tail(queue) /\ running' = Head(queue) /\ op = "off"
        BY <1>0, <1>5, QueueAssumption DEF Pop, QueueTypeOK, OpInv
    <2>2. \A k \in Publishes : (Untried(k)' => Untried(k)) /\ ~InProcess(k)'
        BY <1>0, <1>5, <2>1, Popped DEF Untried, InProcess, Queued
    <2> QED  BY <1>5, <2>2, AllUndisturbed
<1>6. ASSUME NEW t \in Threads, NEW j \in Jobs \ Publishes, QueueOther(t, j) PROVE VersionInv'
    <2>1. queue' = Append(queue, j) /\ running' = running /\ op' = op /\ UNCHANGED <<versions, hubWork>>
        BY <1>6 DEF QueueOther, Put, opVars
    <2>2. \A k \in Publishes : (Untried(k)' => Untried(k)) /\ (InProcess(k)' => InProcess(k))
        BY <1>0, <2>1, Appended DEF Untried, InProcess
    <2> QED  BY <2>1, <2>2, AllUndisturbed
<1>7. CASE UNCHANGED <<queue, running, op, versions, hubWork>>
    <2>1. \A k \in Publishes : (Untried(k)' => Untried(k)) /\ (InProcess(k)' => InProcess(k))
        BY <1>7 DEF Untried, InProcess, Queued
    <2> QED  BY <1>7, <2>1, AllUndisturbed
<1>8. \/ OpStep /\ ~Return
      \/ Return
      \/ FinishOther
      \/ \E w \in Threads : Click(w)
      \/ \E j \in Publishes : HubFinishes(j)
      \/ Pop /\ UNCHANGED <<versions, hubWork, op>>
      \/ \E t \in Threads, j \in Jobs \ Publishes : QueueOther(t, j)
      \/ UNCHANGED <<queue, running, op, versions, hubWork>>
    BY DEF Next, vars, QueueStep, Ensure, FindTimer, RegisterTimer, SetHandle, DrainStep, BeginDrain, EndBatch,
        TestEmpty, ClearHandle, Unregister, Shutdown, queueVars, opVars, Wait, Answered, TimedOut, ReadOutcome,
        Dismiss, OpStep
<1> QED  BY <1>1, <1>2, <1>3, <1>4, <1>5, <1>6, <1>7, <1>8 DEF Click

LEMMA PStep == PInv /\ [Next]_vars => PInv'
<1> SUFFICES ASSUME PInv, [Next]_vars PROVE PInv' OBVIOUS
<1>1. [QueueNext]_queueVars
    BY StepsQueue DEF vars, queueVars
<1>2. QueueTypeOK' /\ Once'
    BY <1>1, TypeStep, OnceStep DEF PInv
<1> QED  BY <1>2, OpInvStep, DialogInvStep, LockRulesStep, VersionInvStep DEF PInv

LEMMA PAlways == Spec => []PInv
BY PInitInv, PStep, PTL DEF Spec

(***************************************************************************)
(* The state of a publish keeps its types, and one click registers two     *)
(* versions at most, however many dialogs publish and the hub answers.     *)
(***************************************************************************)
THEOREM PublishTypeCorrect == Spec => []TypeOK
<1>1. PInv => TypeOK
    <2> SUFFICES ASSUME PInv PROVE TypeOK OBVIOUS
    <2>1. \A j \in Publishes : versions[j] \in 0 .. 2
        BY OwedBit DEF PInv, VersionInv, Allowance
    <2>2. versions \in [Publishes -> 0 .. 2]
        BY <2>1 DEF PInv, VersionInv
    <2> QED  BY <2>2 DEF PInv, OpInv, Ops, DialogInv, VersionInv, TypeOK
<1> QED  BY <1>1, PAlways, PTL

(***************************************************************************)
(* Whichever call of execute fails, the asset's lock is given back, and    *)
(* nothing is uploaded without it that could have asked for it: for any    *)
(* number of dialogs.                                                      *)
(***************************************************************************)
THEOREM PublishKeepsLock == Spec => []LockDiscipline
<1>1. PInv => LockDiscipline
    BY DEF PInv, OpInv, LockRules, LockDiscipline, ReleasesLock, UploadsUnderLock
<1> QED  BY <1>1, PAlways, PTL

-----------------------------------------------------------------------------
\* One dialog

\* The dialog of thread u is the only one.
OnlyDialog(u) == \A t \in Threads : dialog'[t] # "idle" => t = u

OneDialogSpec(u) == Init /\ [][Next /\ OnlyDialog(u)]_vars

NoPublishQueued == \A i \in DOMAIN queue : queue[i] \notin Publishes

LastPublishQueued(j) ==
    \E i \in DOMAIN queue : queue[i] = j /\ \A k \in DOMAIN queue : queue[k] \in Publishes => k <= i

(***************************************************************************)
(* Closures run in the order of the clicks, so that a click's closure is   *)
(* the last publish in the queue, then the running one with no other       *)
(* behind it, then the one the global is about, until the next click.      *)
(***************************************************************************)
Ahead(j) == result[j] = "none" /\ running # j /\ LastPublishQueued(j)
Under(j) == result[j] = "none" /\ running = j /\ NoPublishQueued
Over(j) == /\ \/ result[j] # "none" /\ last = Out(result[j] = "ok", j)
              \/ result[j] = "bad" /\ last = None
           /\ running \notin Publishes /\ NoPublishQueued

Shows(u) ==
    /\ report[u].from = job[u]
    /\ report[u].ok => result[job[u]] = "ok" /\ versions[job[u]] > 0
    /\ ~Queued(job[u]) /\ running # job[u]

\* The main thread's own wait keeps it from draining.
MainWaits ==
    /\ dialog[Main] = "wait" => drain = "off" /\ result[job[Main]] = "none"
    /\ dialog[Main] \in {"read", "shown"} => late[Main]

ClickInv(u) ==
    /\ \A t \in Threads : dialog[t] # "idle" => t = u
    /\ dialog[u] = "wait" => ~late[u] /\ (Ahead(job[u]) \/ Under(job[u]) \/ Over(job[u]))
    /\ dialog[u] = "read" /\ ~late[u] => Over(job[u])
    /\ dialog[u] = "shown" /\ ~late[u] => Shows(u)
    /\ MainWaits

\* A success in the global has registered a version, which stays.
SuccessInv == last # None /\ last.ok => versions[last.from] > 0

\* Versions only grow, except for a closure that is used again.
LEMMA VersionsGrow ==
    ASSUME PInv, OpStep \/ (\E k \in Publishes : HubFinishes(k)) \/ UNCHANGED versions
    PROVE  \A j \in Publishes : versions[j] \in Nat /\ versions'[j] \in Nat /\ versions'[j] >= versions[j]
<1>1. versions \in [Publishes -> Nat]
    BY DEF PInv, VersionInv
<1>2. ASSUME NEW k \in Publishes, Registers(k)
      PROVE  \A j \in Publishes : versions'[j] \in Nat /\ versions'[j] >= versions[j]
    BY <1>1, <1>2 DEF Registers
<1>3. OpStep => UNCHANGED versions \/ (running \in Publishes /\ Registers(running))
    BY DEF OpStep, Execute, Reject, ChooseWay, HubRaises, HubPublishes, HubRefuses, HubSilent, NoClient, ReadSession,
        Heartbeat, Acquire, AcquireFails, Upload, UploadFails, Release, Return, MayRegister, OpAt
<1>4. \A k : HubFinishes(k) => UNCHANGED versions \/ Registers(k)
    BY DEF HubFinishes, MayRegister
<1>5. CASE UNCHANGED versions
    BY <1>1, <1>5
<1> QED  BY <1>1, <1>2, <1>3, <1>4, <1>5

LEMMA SuccessStep == PInv /\ SuccessInv /\ [Next]_vars => SuccessInv'
<1> SUFFICES ASSUME PInv, SuccessInv, [Next]_vars PROVE SuccessInv' OBVIOUS
<1>0. VersionInv /\ last \in Outcome \union {None}
    BY DEF PInv, OpInv
<1>1. CASE UNCHANGED vars
    BY <1>1 DEF vars, opVars, SuccessInv
<1>2. ASSUME NEW w \in Threads, Click(w) PROVE SuccessInv'
    <2>1. PICK j \in Publishes : Unused(j) /\ versions' = [versions EXCEPT ![j] = 0]
        BY <1>2 DEF Click
    <2> QED  BY <1>0, <1>2, <2>1 DEF Click, opVars, Unused, SuccessInv, VersionInv, Outcome
<1>3. CASE UNCHANGED last /\ (OpStep \/ (\E k \in Publishes : HubFinishes(k)) \/ UNCHANGED versions)
    <2>1. \A j \in Publishes : versions[j] \in Nat /\ versions'[j] \in Nat /\ versions'[j] >= versions[j]
        BY <1>3, VersionsGrow
    <2> QED  BY <1>0, <1>3, <2>1 DEF SuccessInv, Outcome
<1>4. CASE OpStep /\ ~UNCHANGED last
    <2>1. running \in Publishes
        BY <1>4 DEF OpStep, Execute, Reject, ChooseWay, HubRaises, HubPublishes, HubRefuses, HubSilent, NoClient, ReadSession,
            Heartbeat, Acquire, AcquireFails, Upload, UploadFails, Release, Return, OpAt
    <2>2. \/ last' = None \/ last' = Out(FALSE, running)
          \/ last' = Out(TRUE, running) /\ Registers(running)
        BY <1>4 DEF OpStep, Execute, Reject, ChooseWay, HubRaises, HubPublishes, HubRefuses, HubSilent, NoClient, ReadSession,
            Heartbeat, Acquire, AcquireFails, Upload, UploadFails, Release, Return, Fails, Succeeds
    <2>3. Registers(running) => versions'[running] > 0
        BY <1>0, <2>1 DEF Registers, VersionInv
    <2>4. \A ok \in BOOLEAN : Out(ok, running).ok = ok /\ Out(ok, running).from = running
        BY <2>1, OutTyped
    <2> QED  BY <2>2, <2>3, <2>4 DEF SuccessInv
<1>5. \/ UNCHANGED vars \/ OpStep
      \/ \E w \in Threads : Click(w)
      \/ UNCHANGED last /\ ((\E k \in Publishes : HubFinishes(k)) \/ UNCHANGED versions)
    BY DEF Next, QueueStep, Wait, Answered, TimedOut, ReadOutcome, Dismiss, HubFinishes, QueueOther,
        FinishOther, opVars
<1> QED  BY <1>1, <1>2, <1>3, <1>4, <1>5

-----------------------------------------------------------------------------

\* The operator's steps: a dialog's own publish that has ended is not disturbed.
LEMMA OpStepClick ==
    ASSUME PInv, NEW u \in Threads, ClickInv(u), OpStep, ~Return
    PROVE  ClickInv(u)'
<1>1. UNCHANGED <<dialogVars, result>> /\ UNCHANGED queueVars /\ drain = "run" /\ running \in Publishes
    BY OpStepWithin DEF Within
<1>2. /\ UNCHANGED <<queue, running, drain, dialog, job, late, report, result>>
      /\ \A j : Queued(j)' <=> Queued(j)
    BY <1>1 DEF queueVars, dialogVars, Queued
<1>3. \A j : (Ahead(j) => Ahead(j)') /\ (Under(j) => Under(j)') /\ ~Over(j)
    BY <1>1, <1>2 DEF Ahead, Under, Over, LastPublishQueued, NoPublishQueued
<1>4. dialog[u] = "shown" => job[u] \in Publishes
    BY DEF PInv, DialogInv
<1>6. \A j \in Publishes : versions[j] \in Nat /\ versions'[j] \in Nat /\ versions'[j] >= versions[j]
    BY VersionsGrow
<1>7. Shows(u) /\ dialog[u] = "shown" => Shows(u)'
    BY <1>2, <1>4, <1>6 DEF Shows
<1> QED  BY <1>1, <1>2, <1>3, <1>7 DEF ClickInv, MainWaits

\* The closure ends: if it is the dialog's, its outcome is the global's.
LEMMA ReturnClick ==
    ASSUME PInv, NEW u \in Threads, ClickInv(u), Return
    PROVE  ClickInv(u)'
<1>1. /\ UNCHANGED <<queue, dialog, job, late, report, last, versions>>
      /\ running \in Publishes /\ drain = "run" /\ running' = None
      /\ result' = [result EXCEPT ![running] = IF last # None /\ last.ok THEN "ok" ELSE "bad"]
      /\ \A j : Queued(j)' <=> Queued(j)
    BY DEF Return, FinishJob, OpAt, dialogVars, Queued
<1>2. /\ None \notin Publishes
      /\ result \in [Publishes -> {"none", "ok", "bad"}]
      /\ last = None \/ (last \in Outcome /\ last.from = running)
      /\ dialog[u] # "idle" => job[u] \in Publishes
    BY QueueAssumption, PublishAssumption DEF PInv, OpInv, DialogInv, Return, OpAt
<1>3. ASSUME NEW j \in Publishes PROVE Ahead(j) => Ahead(j)'
    BY <1>1, <1>2 DEF Ahead, LastPublishQueued
<1>4. ASSUME NEW j \in Publishes PROVE Under(j) => Over(j)'
    <2> SUFFICES ASSUME Under(j) PROVE Over(j)' OBVIOUS
    <2>1. j = running /\ result'[j] = IF last # None /\ last.ok THEN "ok" ELSE "bad"
        BY <1>1, <1>2 DEF Under
    <2>2. NoPublishQueued' /\ running' \notin Publishes
        BY <1>1, <1>2 DEF Under, NoPublishQueued
    <2>3. CASE last = None
        BY <1>1, <2>1, <2>2, <2>3 DEF Over
    <2>4. CASE last # None
        <3>1. last = Out(last.ok, j) /\ last.ok \in BOOLEAN
            BY <1>2, <2>1, <2>4 DEF Outcome, Out
        <3>2. (result'[j] = "ok") = last.ok
            BY <2>1, <2>4, <3>1
        <3> QED  BY <1>1, <2>1, <2>2, <3>1, <3>2 DEF Over
    <2> QED  BY <2>3, <2>4
<1>5. \A j : ~Over(j)
    BY <1>1 DEF Over
<1>6. Shows(u) /\ dialog[u] = "shown" => Shows(u)'
    BY <1>1, <1>2 DEF Shows
<1> QED  BY <1>1, <1>2, <1>3, <1>4, <1>5, <1>6 DEF ClickInv, MainWaits

\* A new closure goes behind all others.
LEMMA ClickClick ==
    ASSUME PInv, NEW u \in Threads, ClickInv(u), NEW w \in Threads, Click(w), OnlyDialog(u)
    PROVE  ClickInv(u)'
<1>1. PICK j \in Publishes :
          /\ Unused(j) /\ Put(w, j)
          /\ job' = [job EXCEPT ![w] = j]
          /\ result' = [result EXCEPT ![j] = "none"]
    BY DEF Click
<1>2. /\ dialog' = [dialog EXCEPT ![w] = "wait"] /\ late' = [late EXCEPT ![w] = FALSE]
      /\ w = Main => drain = "off"
    BY DEF Click
<1>3. /\ queue \in Seq(Jobs) /\ queue' = Append(queue, j) /\ j \in Jobs
      /\ running' = running /\ drain' = drain
      /\ DialogInv /\ OpInv
    BY <1>1, PublishAssumption DEF PInv, QueueTypeOK, Put
<1>4. w = u
    BY <1>2, <1>3 DEF OnlyDialog, DialogInv
<1>5. job'[u] = j /\ result'[j] = "none" /\ dialog'[u] = "wait" /\ ~late'[u]
    BY <1>1, <1>2, <1>3, <1>4 DEF DialogInv, OpInv
<1>6. Len(queue) \in Nat /\ DOMAIN queue' = 1 .. Len(queue) + 1 /\ queue'[Len(queue) + 1] = j
    BY <1>3, Appended
<1>7. LastPublishQueued(j)'
    BY <1>6 DEF LastPublishQueued
<1>8. Ahead(j)'
    BY <1>1, <1>3, <1>5, <1>7 DEF Ahead, Unused
<1>9. \A t \in Threads : dialog'[t] # "idle" => t = u
    BY DEF OnlyDialog
<1>10. MainWaits'
    <2>1. Main \in Threads
        BY DEF Threads
    <2> QED  BY <1>2, <1>3, <1>4, <1>5, <1>9, <2>1 DEF MainWaits
<1> QED  BY <1>5, <1>8, <1>9, <1>10 DEF ClickInv

\* Waiting, reading the global, showing it.
LEMMA WaitClick ==
    ASSUME PInv, SuccessInv, NEW u \in Threads, ClickInv(u), NEW w \in Threads, Wait(w) \/ Dismiss(w)
    PROVE  ClickInv(u)'
<1>1. /\ UNCHANGED <<queue, running, drain, last, result, versions>>
      /\ \A j : Queued(j)' <=> Queued(j)
    BY DEF Wait, Answered, TimedOut, ReadOutcome, Dismiss, opVars, queueVars, Queued
<1>2. \A j : (Ahead(j) <=> Ahead(j)') /\ (Under(j) <=> Under(j)') /\ (Over(j) <=> Over(j)')
    BY <1>1 DEF Ahead, Under, Over, LastPublishQueued, NoPublishQueued
<1>3. DialogInv /\ OpInv
    BY DEF PInv
<1>4. w = u /\ dialog[u] # "idle" /\ job[u] \in Publishes
    BY <1>3 DEF Wait, Waits, Answered, TimedOut, ReadOutcome, Dismiss, ClickInv, DialogInv
<1>5. \A t \in Threads \ {u} : dialog[t] = "idle" /\ dialog'[t] = "idle"
    BY <1>3, <1>4 DEF Wait, Answered, TimedOut, ReadOutcome, Dismiss, ClickInv, DialogInv
<1>6. CASE Answered(u)
    <2>1. dialog'[u] = "read" /\ UNCHANGED <<job, late, report>> /\ result[job[u]] # "none" /\ dialog[u] = "wait"
        BY <1>3, <1>6 DEF Answered, Waits, DialogInv
    <2>2. Over(job[u])
        BY <2>1 DEF ClickInv, Ahead, Under
    <2>3. u # Main
        BY <2>1 DEF ClickInv, MainWaits
    <2> QED  BY <1>1, <1>2, <1>5, <2>1, <2>2, <2>3 DEF ClickInv, MainWaits, Threads
<1>7. CASE TimedOut(u)
    <2>1. dialog'[u] = "read" /\ late'[u] /\ UNCHANGED <<job, report>>
        BY <1>3, <1>7 DEF TimedOut, DialogInv
    <2> QED  BY <1>1, <1>5, <2>1 DEF ClickInv, MainWaits, Threads
<1>8. CASE ReadOutcome(u)
    <2>1. /\ dialog[u] = "read" /\ dialog'[u] = "shown" /\ UNCHANGED <<job, late>>
          /\ report'[u] = IF last # None THEN last ELSE Out(~late[u] /\ result[job[u]] = "ok", job[u])
        BY <1>3, <1>8 DEF ReadOutcome, DialogInv
    <2>2. ~late[u] => Shows(u)'
        <3> SUFFICES ASSUME ~late[u] PROVE Shows(u)' OBVIOUS
        <3>1. Over(job[u])
            BY <2>1 DEF ClickInv
        <3>2. (result[job[u]] = "ok") \in BOOLEAN /\ (~late[u] /\ result[job[u]] = "ok") \in BOOLEAN
            OBVIOUS
        <3>3. ~Queued(job[u]) /\ running # job[u]
            BY <1>4, <3>1 DEF Over, NoPublishQueued, Queued
        <3>4. CASE result[job[u]] # "none" /\ last = Out(result[job[u]] = "ok", job[u])
            <4>1. last # None /\ last.from = job[u] /\ (last.ok => result[job[u]] = "ok")
                BY <1>4, <3>2, <3>4, OutTyped
            <4> QED  BY <1>1, <2>1, <3>3, <4>1 DEF Shows, SuccessInv
        <3>5. CASE result[job[u]] = "bad" /\ last = None
            <4>1. report'[u].from = job[u] /\ ~report'[u].ok
                BY <1>4, <2>1, <3>2, <3>5, OutTyped
            <4> QED  BY <1>1, <2>1, <3>3, <4>1 DEF Shows
        <3> QED  BY <3>1, <3>4, <3>5 DEF Over
    <2> QED  BY <1>1, <1>5, <2>1, <2>2 DEF ClickInv, MainWaits, Threads
<1>9. CASE Dismiss(u)
    <2>1. dialog'[u] = "idle"
        BY <1>3, <1>9 DEF Dismiss, DialogInv
    <2> QED  BY <1>5, <2>1 DEF ClickInv, MainWaits, Threads
<1> QED  BY <1>4, <1>6, <1>7, <1>8, <1>9 DEF Wait

\* Steps of the queue and of other closures.
LEMMA QueueClick ==
    ASSUME PInv, NEW u \in Threads, ClickInv(u),
           QueueStep \/ FinishOther \/ (\E t \in Threads, j \in Jobs \ Publishes : QueueOther(t, j))
    PROVE  ClickInv(u)'
<1>0. /\ UNCHANGED <<dialog, job, late, report, last, result, versions>>
      /\ queue \in Seq(Jobs) /\ Once
      /\ None \notin Publishes
      /\ dialog[u] # "idle" => job[u] \in Publishes
    BY QueueAssumption, PublishAssumption
    DEF QueueStep, FinishOther, QueueOther, dialogVars, opVars, PInv, QueueTypeOK, DialogInv
<1>1. CASE Pop /\ MainFree
    <2>1. queue # <<>> /\ queue' = Tail(queue) /\ running' = Head(queue) /\ running = None
        BY <1>1 DEF Pop, PInv, QueueTypeOK
    <2>2. running' = queue[1] /\ \A j : Queued(j)' => Queued(j)
        BY <1>0, <2>1, Popped
    <2>3. ASSUME NEW j \in Publishes, Ahead(j) PROVE Ahead(j)' \/ Under(j)'
        <3>1. PICK i \in DOMAIN queue : queue[i] = j /\ \A k \in DOMAIN queue : queue[k] \in Publishes => k <= i
            BY <2>3 DEF Ahead, LastPublishQueued
        <3>2. CASE i = 1
            <4>1. NoPublishQueued'
                BY <1>0, <2>1, <3>1, <3>2, Popped DEF NoPublishQueued
            <4> QED  BY <1>0, <2>2, <2>3, <3>1, <3>2, <4>1 DEF Ahead, Under
        <3>3. CASE i # 1
            <4>1. i - 1 \in DOMAIN queue' /\ queue'[i - 1] = j
                BY <1>0, <2>1, <3>1, <3>3, Popped
            <4>2. \A k \in DOMAIN queue' : queue'[k] \in Publishes => k <= i - 1
                BY <1>0, <2>1, <3>1, Popped
            <4>3. running' # j
                BY <1>0, <2>1, <2>2, <3>1, <3>3, Popped DEF Once
            <4> QED  BY <1>0, <2>3, <4>1, <4>2, <4>3 DEF Ahead, LastPublishQueued
        <3> QED  BY <3>2, <3>3
    <2>4. ASSUME NEW j \in Publishes, Over(j) PROVE Over(j)'
        <3>1. NoPublishQueued' /\ running' \notin Publishes
            BY <1>0, <2>1, <2>2, <2>4, Popped DEF Over, NoPublishQueued
        <3> QED  BY <1>0, <2>4, <3>1 DEF Over
    <2>5. \A j \in Publishes : ~Under(j)
        BY <1>0, <2>1 DEF Under
    <2>6. Shows(u) => Shows(u)'
        BY <1>0, <2>1, <2>2, Popped DEF Shows, Queued
    <2>7. dialog[Main] # "wait"
        BY <1>1 DEF MainFree
    <2> QED  BY <1>0, <2>3, <2>4, <2>5, <2>6, <2>7 DEF ClickInv, MainWaits
<1>2. ASSUME NEW t \in Threads, NEW j \in Jobs \ Publishes, QueueOther(t, j) PROVE ClickInv(u)'
    <2>1. queue' = Append(queue, j) /\ running' = running /\ drain' = drain
        BY <1>2 DEF QueueOther, Put
    <2>2. /\ Len(queue) \in Nat /\ DOMAIN queue = 1 .. Len(queue) /\ DOMAIN queue' = 1 .. Len(queue) + 1
          /\ \A i \in DOMAIN queue : queue'[i] = queue[i]
          /\ queue'[Len(queue) + 1] \notin Publishes
          /\ \A k : Queued(k)' <=> Queued(k) \/ k = j
        BY <1>0, <2>1, Appended
    <2>3. NoPublishQueued => NoPublishQueued'
        BY <2>2 DEF NoPublishQueued
    <2>4. \A k \in Publishes : LastPublishQueued(k) => LastPublishQueued(k)'
        BY <2>2 DEF LastPublishQueued
    <2>5. \A k \in Publishes : (Ahead(k) => Ahead(k)') /\ (Under(k) => Under(k)') /\ (Over(k) => Over(k)')
        BY <1>0, <2>1, <2>3, <2>4 DEF Ahead, Under, Over
    <2>6. Shows(u) /\ dialog[u] # "idle" => Shows(u)'
        BY <1>0, <1>2, <2>1, <2>2 DEF Shows
    <2> QED  BY <1>0, <2>1, <2>5, <2>6 DEF ClickInv, MainWaits
<1>3. CASE FinishOther
    <2>1. running \notin Publishes /\ running' = None /\ queue' = queue /\ drain = "run"
        BY <1>3 DEF FinishOther, FinishJob
    <2>2. \A k \in Publishes : (Ahead(k) => Ahead(k)') /\ ~Under(k) /\ (Over(k) => Over(k)')
        BY <1>0, <2>1 DEF Ahead, Under, Over, LastPublishQueued, NoPublishQueued
    <2>3. Shows(u) /\ dialog[u] # "idle" => Shows(u)'
        BY <1>0, <2>1 DEF Shows, Queued
    <2> QED  BY <1>0, <2>1, <2>2, <2>3 DEF ClickInv, MainWaits
<1>4. CASE UNCHANGED <<queue, running>> /\ (drain' = drain \/ MainFree)
    <2>1. \A k : (Ahead(k) => Ahead(k)') /\ (Under(k) => Under(k)') /\ (Over(k) => Over(k)')
        BY <1>0, <1>4 DEF Ahead, Under, Over, LastPublishQueued, NoPublishQueued
    <2>2. Shows(u) => Shows(u)'
        BY <1>0, <1>4 DEF Shows, Queued
    <2> QED  BY <1>0, <1>4, <2>1, <2>2 DEF ClickInv, MainWaits, MainFree
<1>5. QueueStep => (Pop /\ MainFree) \/ (UNCHANGED <<queue, running>> /\ (drain' = drain \/ MainFree))
    BY DEF QueueStep, Ensure, FindTimer, RegisterTimer, SetHandle, DrainStep, BeginDrain, EndBatch,
        TestEmpty, ClearHandle, Unregister, Shutdown
<1> QED  BY <1>1, <1>2, <1>3, <1>4, <1>5

LEMMA ClickInvStep ==
    ASSUME NEW u \in Threads, PInv, SuccessInv, ClickInv(u), [Next /\ OnlyDialog(u)]_vars
    PROVE  ClickInv(u)'
<1>1. CASE UNCHANGED vars
    BY <1>1 DEF vars, queueVars, dialogVars, opVars, ClickInv, MainWaits, Shows, Ahead, Under, Over,
        LastPublishQueued, NoPublishQueued, Queued
<1>2. ASSUME NEW j \in Publishes, HubFinishes(j) PROVE ClickInv(u)'
    <2>1. /\ UNCHANGED <<queue, running, drain, dialog, job, late, report, last, result>>
          /\ \A k : Queued(k)' <=> Queued(k)
        BY <1>2 DEF HubFinishes, queueVars, dialogVars, opVars, Queued
    <2>2. \A k : (Ahead(k) => Ahead(k)') /\ (Under(k) => Under(k)') /\ (Over(k) => Over(k)')
        BY <2>1 DEF Ahead, Under, Over, LastPublishQueued, NoPublishQueued
    <2>3. \A k \in Publishes : versions[k] \in Nat /\ versions'[k] \in Nat /\ versions'[k] >= versions[k]
        BY <1>2, VersionsGrow
    <2>4. dialog[u] # "idle" => job[u] \in Publishes
        BY DEF PInv, DialogInv
    <2>5. Shows(u) /\ dialog[u] # "idle" => Shows(u)'
        BY <2>1, <2>3, <2>4 DEF Shows
    <2> QED  BY <2>1, <2>2, <2>5 DEF ClickInv, MainWaits
<1>3. ASSUME NEW w \in Threads, Click(w), OnlyDialog(u) PROVE ClickInv(u)'
    BY <1>3, ClickClick
<1>4. ASSUME NEW w \in Threads, Wait(w) \/ Dismiss(w) PROVE ClickInv(u)'
    BY <1>4, WaitClick
<1> QED  BY <1>1, <1>2, <1>3, <1>4, OpStepClick, ReturnClick, QueueClick DEF Next

(***************************************************************************)
(* With one dialog, on a worker or on the main thread, a report that does  *)
(* not follow a timeout is about its own publish, however many clicks      *)
(* timed out before and whenever their closures run.                       *)
(***************************************************************************)
THEOREM TimelyReportsOwn ==
    ASSUME NEW CONSTANT u \in Threads
    PROVE  OneDialogSpec(u) => []TimelyReportIsOwn
<1>1. Init => PInv /\ SuccessInv /\ ClickInv(u)
    <2> SUFFICES ASSUME Init PROVE PInv /\ SuccessInv /\ ClickInv(u) OBVIOUS
    <2>1. Main \in Threads
        BY DEF Threads
    <2> QED  BY <2>1, PInitInv DEF Init, SuccessInv, ClickInv, MainWaits
<1>2. PInv /\ SuccessInv /\ ClickInv(u) /\ [Next /\ OnlyDialog(u)]_vars => (PInv /\ SuccessInv /\ ClickInv(u))'
    BY PStep, SuccessStep, ClickInvStep
<1>3. ClickInv(u) => TimelyReportIsOwn
    BY DEF ClickInv, TimelyReportIsOwn, Shows, MainWaits
<1> QED  BY <1>1, <1>2, <1>3, PTL DEF OneDialogSpec
=============================================================================
