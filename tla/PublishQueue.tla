---------------------------- MODULE PublishQueue ----------------------------
(***************************************************************************)
(* Publishing from the dialogs of the Blender add-on: a worker thread      *)
(* queues the publish operator for the main thread and waits for it with a *)
(* timeout (blender_qt.py), the operator publishes through the hub or in   *)
(* process (operators_publish.py), and the worker reports the outcome it   *)
(* reads from a module global.  Composes OpsQueue.                         *)
(*                                                                         *)
(* publish_chunked_file is abstracted to what it may leave behind: a       *)
(* version, and an answer that says so or not.  A worker stands for one    *)
(* dialog, which disables its button while it publishes.  The Publisher    *)
(* dialog has no worker: it waits on the main thread (action_dialogs.py).  *)
(***************************************************************************)
EXTENDS OpsQueue

CONSTANT Publishes  \* closures that run the publish operator

ASSUME PublishAssumption ==
    /\ Publishes \subseteq Jobs
    /\ None \notin [ok : BOOLEAN, from : Publishes]

VARIABLES dialog,     \* where each dialog's publish is
          job,        \* its closure
          late,       \* its wait timed out
          report,     \* what it shows: [ok, from], from being the closure meant
          result,     \* outcome the closure has written for its waiter
          op,         \* where the running publish operator is
          last,       \* _LAST_PUBLISH_RESULT, or None when empty
          session,    \* prefs.session_id is set
          hold,       \* [sid, acquired]: execute's local variables
          assetLock,  \* this session holds the asset's lock on the server
          lockFault,  \* history: a lock call's answer was lost
          hubWork,    \* publishes the hub goes on with after its client gave up
          versions    \* versions registered for each closure

dialogVars == <<dialog, job, late, report>>
opVars == <<op, last, session, hold, assetLock, lockFault>>
vars == <<queueVars, dialogVars, opVars, result, hubWork, versions>>

Outcome == [ok : BOOLEAN, from : Publishes]
Out(ok, j) == [ok |-> ok, from |-> j]
NoHold == [sid |-> FALSE, acquired |-> FALSE]

\* Every variable has its type; a closure registers two versions at most, one
\* through the hub and one in process.
TypeOK ==
    /\ QueueTypeOK
    /\ dialog \in [Threads -> {"idle", "wait", "read", "shown"}]
    /\ job \in [Threads -> Publishes \union {None}]
    /\ late \in [Threads -> BOOLEAN]
    /\ report \in [Threads -> Outcome \union {None}]
    /\ result \in [Publishes -> {"none", "ok", "bad"}]
    /\ op \in {"off", "checked", "hub", "local", "beat", "acquire", "upload", "release", "returned"}
    /\ last \in Outcome \union {None}
    /\ {session, assetLock, lockFault} \subseteq BOOLEAN
    /\ hold \in [sid : BOOLEAN, acquired : BOOLEAN]
    /\ hubWork \subseteq Publishes
    /\ versions \in [Publishes -> 0 .. 2]

Init ==
    /\ QueueInit
    /\ dialog = [w \in Threads |-> "idle"]
    /\ job = [w \in Threads |-> None]
    /\ late = [w \in Threads |-> FALSE]
    /\ report = [w \in Threads |-> None]
    /\ result = [j \in Publishes |-> "none"]
    /\ op = "off" /\ last = None
    /\ session \in BOOLEAN
    /\ hold = NoHold
    /\ assetLock = FALSE /\ lockFault = FALSE
    /\ hubWork = {}
    /\ versions = [j \in Publishes |-> 0]

-----------------------------------------------------------------------------
\* The dialogs: _queued_publish and _run_operator_on_main_thread

\* Nothing refers to the closure any more.
Unused(j) ==
    /\ ~Queued(j) /\ running # j /\ j \notin hubWork
    /\ last # None => last.from # j
    /\ \A w \in Threads : job[w] # j

\* The main thread waits for a closure that only the main thread runs.
MainFree == dialog[Main] \notin {"wait", "read"}

Click(w) ==
    /\ loaded /\ dialog[w] = "idle"
    /\ w = Main => drain = "off"
    /\ \E j \in Publishes :
           /\ Unused(j)
           /\ Put(w, j)
           /\ job' = [job EXCEPT ![w] = j]
           /\ result' = [result EXCEPT ![j] = "none"]
           /\ versions' = [versions EXCEPT ![j] = 0]
    /\ dialog' = [dialog EXCEPT ![w] = "wait"]
    /\ late' = [late EXCEPT ![w] = FALSE]
    /\ UNCHANGED <<report, opVars, hubWork>>

\* done.wait() begins when queue_main_thread has returned.
Waits(w) == dialog[w] = "wait" /\ at[w] = "idle"

Answered(w) ==
    /\ Waits(w)
    /\ result[job[w]] # "none"
    /\ dialog' = [dialog EXCEPT ![w] = "read"]
    /\ UNCHANGED <<queueVars, job, late, report, opVars, result, hubWork, versions>>

\* Mutated form of TimedOut: the wait has no timeout.
TimedOutNever(w) == Waits(w) /\ FALSE /\ UNCHANGED vars

\* The closure stays in the queue, or goes on running.
TimedOut(w) ==
    /\ Waits(w)
    /\ result[job[w]] = "none"
    /\ dialog' = [dialog EXCEPT ![w] = "read"]
    /\ late' = [late EXCEPT ![w] = TRUE]
    /\ UNCHANGED <<queueVars, job, report, opVars, result, hubWork, versions>>

\* What the operator left in the global wins over the closure's own outcome.
ReadOutcome(w) ==
    /\ dialog[w] = "read"
    /\ report' = [report EXCEPT ![w] =
           IF last # None THEN last ELSE Out(~late[w] /\ result[job[w]] = "ok", job[w])]
    /\ dialog' = [dialog EXCEPT ![w] = "shown"]
    /\ UNCHANGED <<queueVars, job, late, opVars, result, hubWork, versions>>

Dismiss(w) ==
    /\ dialog[w] = "shown"
    /\ dialog' = [dialog EXCEPT ![w] = "idle"]
    /\ job' = [job EXCEPT ![w] = None]
    /\ report' = [report EXCEPT ![w] = None]
    /\ late' = [late EXCEPT ![w] = FALSE]
    /\ UNCHANGED <<queueVars, opVars, result, hubWork, versions>>

-----------------------------------------------------------------------------
\* The operator's execute, run by the drain timer

OpAt(step) == drain = "run" /\ running \in Publishes /\ op = step

\* The operator gives up with ok = False and goes on at the given step.
Fails(step) == last' = Out(FALSE, running) /\ op' = step
Succeeds(step) == last' = Out(TRUE, running) /\ op' = step

Registers(j) == versions' = [versions EXCEPT ![j] = @ + 1]

\* A publish that ends without an answer may have registered its version.
MayRegister(j) == Registers(j) \/ UNCHANGED versions

\* Mutated form of Execute: the waiter is woken when the operator starts.
ExecuteSignals ==
    /\ OpAt("off")
    /\ last' = None
    /\ op' = "checked"
    /\ result' = [result EXCEPT ![running] = "ok"]
    /\ UNCHANGED <<queueVars, dialogVars, session, hold, assetLock, lockFault, hubWork, versions>>

Execute ==
    /\ OpAt("off")
    /\ last' = None
    /\ op' = "checked"
    /\ UNCHANGED <<queueVars, dialogVars, session, hold, assetLock, lockFault, result, hubWork, versions>>

\* No project or asset, an unknown stage, a file that was never saved.
Reject ==
    /\ OpAt("checked")
    /\ Fails("returned")
    /\ UNCHANGED <<queueVars, dialogVars, session, hold, assetLock, lockFault, result, hubWork, versions>>

\* Hub mode is on and there is a hub; or not.
ChooseWay ==
    /\ OpAt("checked")
    /\ op' \in {"hub", "local"}
    /\ UNCHANGED <<queueVars, dialogVars, last, session, hold, assetLock, lockFault, result, hubWork, versions>>

\* get_hub_client raises, outside the operator's try: the global stays empty.
HubRaises ==
    /\ OpAt("checked")
    /\ op' = "returned"
    /\ UNCHANGED <<queueVars, dialogVars, last, session, hold, assetLock, lockFault, result, hubWork, versions>>

HubPublishes ==
    /\ OpAt("hub")
    /\ Registers(running) /\ Succeeds("returned")
    /\ UNCHANGED <<queueVars, dialogVars, session, hold, assetLock, lockFault, result, hubWork>>

HubRefuses ==
    /\ OpAt("hub")
    /\ MayRegister(running) /\ Fails("returned")
    /\ UNCHANGED <<queueVars, dialogVars, session, hold, assetLock, lockFault, result, hubWork>>

\* Mutated form of HubSilent: the hub is asked again.
HubSilentRetries ==
    /\ OpAt("hub")
    /\ MayRegister(running)
    /\ op' \in {"hub", "local"}
    /\ UNCHANGED <<queueVars, dialogVars, last, session, hold, assetLock, lockFault, result, hubWork>>

\* The request fails or times out; the hub may go on with it.  Fall back.
HubSilent ==
    /\ OpAt("hub")
    /\ hubWork' \in {hubWork, hubWork \union {running}}
    /\ op' = "local"
    /\ UNCHANGED <<queueVars, dialogVars, last, session, hold, assetLock, lockFault, result, versions>>

HubFinishes(j) ==
    /\ j \in hubWork
    /\ hubWork' = hubWork \ {j}
    /\ MayRegister(j)
    /\ UNCHANGED <<queueVars, dialogVars, opVars, result>>

NoClient ==
    /\ OpAt("local")
    /\ Fails("returned")
    /\ UNCHANGED <<queueVars, dialogVars, session, hold, assetLock, lockFault, result, hubWork, versions>>

\* The session id is read before the heartbeat creates one.
ReadSession ==
    /\ OpAt("local")
    /\ hold' = [sid |-> session, acquired |-> FALSE]
    /\ op' = "beat"
    /\ UNCHANGED <<queueVars, dialogVars, last, session, assetLock, lockFault, result, hubWork, versions>>

Heartbeat ==
    /\ OpAt("beat")
    /\ session' = TRUE
    /\ \/ op' = (IF hold.sid THEN "acquire" ELSE "upload") /\ UNCHANGED last
       \/ Fails("release")
    /\ UNCHANGED <<queueVars, dialogVars, hold, assetLock, lockFault, result, hubWork, versions>>

Acquire ==
    /\ OpAt("acquire")
    /\ assetLock' = TRUE
    /\ hold' = [hold EXCEPT !.acquired = TRUE]
    /\ op' = "upload"
    /\ UNCHANGED <<queueVars, dialogVars, last, session, lockFault, result, hubWork, versions>>

\* Mutated form of AcquireFails: the refusal is swallowed.
AcquireFailsSwallowed ==
    /\ OpAt("acquire")
    /\ op' = "upload"
    /\ UNCHANGED <<queueVars, dialogVars, last, session, hold, assetLock, lockFault, result, hubWork, versions>>

\* Somebody else holds the lock, or the call fails; the server may have granted
\* it before the answer was lost.
AcquireFails ==
    /\ OpAt("acquire")
    /\ Fails("release")
    /\ \/ UNCHANGED <<assetLock, lockFault>>
       \/ assetLock' = TRUE /\ lockFault' = TRUE
    /\ UNCHANGED <<queueVars, dialogVars, session, hold, result, hubWork, versions>>

Upload ==
    /\ OpAt("upload")
    /\ Registers(running) /\ Succeeds("release")
    /\ UNCHANGED <<queueVars, dialogVars, session, hold, assetLock, lockFault, result, hubWork>>

\* Mutated form of UploadFails: an early return past the release.
UploadFailsReturns ==
    /\ OpAt("upload")
    /\ MayRegister(running) /\ Fails("returned")
    /\ UNCHANGED <<queueVars, dialogVars, session, hold, assetLock, lockFault, result, hubWork>>

UploadFails ==
    /\ OpAt("upload")
    /\ MayRegister(running) /\ Fails("release")
    /\ UNCHANGED <<queueVars, dialogVars, session, hold, assetLock, lockFault, result, hubWork>>

\* The finally block; a release that fails is swallowed.
Release ==
    /\ OpAt("release")
    /\ \/ ~hold.acquired /\ UNCHANGED <<assetLock, lockFault>>
       \/ hold.acquired /\ assetLock' = FALSE /\ lockFault' = FALSE
       \/ hold.acquired /\ lockFault' = TRUE /\ UNCHANGED assetLock
    /\ hold' = NoHold
    /\ op' = "returned"
    /\ UNCHANGED <<queueVars, dialogVars, last, session, result, hubWork, versions>>

\* The closure writes its own outcome, wakes its waiter and ends.
Return ==
    /\ OpAt("returned")
    /\ result' = [result EXCEPT ![running] = IF last # None /\ last.ok THEN "ok" ELSE "bad"]
    /\ op' = "off"
    /\ FinishJob
    /\ UNCHANGED <<dialogVars, last, session, hold, assetLock, lockFault, hubWork, versions>>

-----------------------------------------------------------------------------
\* Other closures

\* Load, link and the review window queue from the main thread, from its GUI or
\* from a closure of theirs; any thread may, unless its dialog waits.
QueueOther(t, j) ==
    /\ dialog[t] \notin {"wait", "read"}
    /\ ~Queued(j) /\ running # j
    /\ t = Main => running \notin Publishes
    /\ Put(t, j)
    /\ UNCHANGED <<dialogVars, opVars, result, hubWork, versions>>

FinishOther ==
    /\ running \notin Publishes
    /\ FinishJob
    /\ UNCHANGED <<dialogVars, opVars, result, hubWork, versions>>

-----------------------------------------------------------------------------

QueueStep ==
    /\ (\E t \in Threads : Ensure(t)) \/ (MainFree /\ (DrainStep \/ Shutdown))
    /\ UNCHANGED <<dialogVars, opVars, result, hubWork, versions>>

OpStep ==
    \/ Execute \/ Reject \/ ChooseWay \/ HubRaises
    \/ HubPublishes \/ HubRefuses \/ HubSilent
    \/ NoClient \/ ReadSession \/ Heartbeat \/ Acquire \/ AcquireFails
    \/ Upload \/ UploadFails \/ Release \/ Return

Wait(w) == Answered(w) \/ TimedOut(w) \/ ReadOutcome(w)

Next ==
    \/ QueueStep
    \/ OpStep
    \/ \E w \in Threads : Click(w) \/ Wait(w) \/ Dismiss(w)
    \/ \E j \in Publishes : HubFinishes(j)
    \/ \E t \in Threads, j \in Jobs \ Publishes : QueueOther(t, j)
    \/ FinishOther

\* Threads run and get _LOCK, Blender calls its timers, network calls and the
\* wait time out.
Fairness ==
    /\ \A t \in Threads : SF_vars(Ensure(t) /\ UNCHANGED <<dialogVars, opVars, result, hubWork, versions>>)
    /\ WF_vars(MainFree /\ DrainStep /\ UNCHANGED <<dialogVars, opVars, result, hubWork, versions>>)
    /\ WF_vars(OpStep) /\ WF_vars(FinishOther)
    /\ \A w \in Threads : WF_vars(Wait(w))

Spec == Init /\ [][Next]_vars
FairSpec == Spec /\ Fairness

-----------------------------------------------------------------------------

(***************************************************************************)
(* With one dialog, a report that does not follow a timeout is about its   *)
(* own publish, whatever closures of earlier, timed-out clicks ran before; *)
(* when it says "published" a version was registered for that click.  The  *)
(* Publisher dialog never has such a report: its wait holds up the thread  *)
(* that would run its closure.                                             *)
(***************************************************************************)
TimelyReportIsOwn ==
    \A w \in Threads : dialog[w] = "shown" /\ ~late[w] =>
        /\ report[w].from = job[w]
        /\ report[w].ok => result[job[w]] = "ok" /\ versions[job[w]] > 0
        /\ w # Main

(***************************************************************************)
(* "Reading happens after the main-thread call returned, so there's no     *)
(* race with the operator writing it" (blender_qt.py:259-260).  False: the *)
(* global is read after a timeout too, and then holds the outcome of an    *)
(* earlier publish: the dialog says "Published" for a click that published *)
(* nothing.                                                                *)
(***************************************************************************)
ReportIsOwn ==
    \A w \in Threads : dialog[w] = "shown" /\ report[w].ok => report[w].from = job[w]

(***************************************************************************)
(* Every click is answered, even when its closure is never run: the wait   *)
(* has a timeout.                                                          *)
(***************************************************************************)
EveryClickReports == \A w \in Threads : dialog[w] = "wait" ~> dialog[w] = "shown"

\* However execute ends, the asset's lock is given back, unless the answer to a
\* lock call was lost.
ReleasesLock == op = "off" /\ assetLock => lockFault

\* A publish that knew its session id when it started uploads only while it
\* holds the asset's lock.
UploadsUnderLock == op = "upload" /\ hold.sid => assetLock

(***************************************************************************)
(* Whichever of its calls fails, and however late a click's closure runs,  *)
(* a publish uploads under the asset's lock if it could ask for it, and    *)
(* leaves no lock behind unless the answer to a lock call was lost.        *)
(***************************************************************************)
LockDiscipline == ReleasesLock /\ UploadsUnderLock
=============================================================================
