---------------------------- MODULE ReviewProofs ----------------------------
(***************************************************************************)
(* Proofs about the review tools of the Blender add-on, for any tasks,     *)
(* notes, scenes, submissions and requests in flight: what the windows     *)
(* show and send (ReviewWindow), which ticks are lost (ReviewFixes) and    *)
(* whose notes are kept (ReviewShared).                                    *)
(***************************************************************************)
EXTENDS ReviewWindow, ReviewFixes, ReviewShared, TLAPS

-----------------------------------------------------------------------------
\* ReviewWindow

(***************************************************************************)
(* The request that counts is the last one, made for the task selected at  *)
(* the time, and any later change of the task makes another.               *)
(***************************************************************************)
LastLoad ==
    /\ \A l \in loads : l.current => l.task = selected
    /\ \A l, m \in loads : l.current /\ m.current => l = m

\* A submission's task cannot be changed under it: the box is disabled, and no
\* list that counts is on its way, unless one was when Submit was clicked.
TaskHeld ==
    /\ go.at # "idle" /\ ~raced => \A l \in loads : ~(l.current /\ l.withTasks)
    /\ go.at = "waiting" /\ ~raced => go.fixesOf = selected
    /\ SubmitsFixesOfTask

AnyLoad == [current : BOOLEAN, task : AnyTask, withTasks : BOOLEAN]

WindowTyped ==
    /\ loads \subseteq AnyLoad
    /\ selected \in AnyTask
    /\ go \in [at : {"idle", "clicked", "waiting", "started", "done"}, fixesOf : AnyTask, task : AnyTask]

WindowInv == WindowTyped /\ LastLoad /\ TaskHeld /\ ShowsSelectedTask

LEMMA WindowInitInv == WindowInit => WindowInv
BY DEF WindowInit, WindowInv, LastLoad, TaskHeld, SubmitsFixesOfTask,
       ShowsSelectedTask, NotSubmitting, WindowTyped, AnyTask

\* The requests after a new one.
LEMMA LoadingLast ==
    ASSUME WindowInv, NEW t \in AnyTask, NEW w \in BOOLEAN, Loading(t, w), selected' = t
    PROVE  /\ loads' \subseteq AnyLoad
           /\ LastLoad'
           /\ ~w => \A l \in loads' : ~(l.current /\ l.withTasks)
<1>1. \A l \in Outdated : ~l.current /\ l \in AnyLoad
    BY DEF Outdated, WindowInv, WindowTyped, AnyLoad
<1>2. loads' = Outdated \union {Load(t, w)}
    BY DEF Loading
<1>3. Load(t, w) \in AnyLoad /\ Load(t, w).task = t /\ Load(t, w).withTasks = w
    BY DEF Load, AnyLoad
<1> QED  BY <1>1, <1>2, <1>3 DEF LastLoad

\* An answer that does not count, or a failure: one request less.
LEMMA AnsweredInv ==
    ASSUME WindowInv, NEW l \in loads, loads' = loads \ {l},
           UNCHANGED <<kind, box, selected, shown, reassigned, go, raced>>
    PROVE  WindowInv'
BY DEF WindowInv, WindowTyped, LastLoad, TaskHeld, SubmitsFixesOfTask, ShowsSelectedTask

LEMMA WindowNextInv == WindowInv /\ [WindowNext]_windowVars => WindowInv'
<1> SUFFICES ASSUME WindowInv, [WindowNext]_windowVars PROVE WindowInv'
    OBVIOUS
<1> USE DEF WindowInv, WindowTyped, TaskHeld, SubmitsFixesOfTask, ShowsSelectedTask
<1>1. CASE OpenNotes
    BY <1>1 DEF OpenNotes, LastLoad, NotSubmitting, Load, AnyLoad, AnyTask
<1>2. CASE OpenSubmit
    BY <1>2 DEF OpenSubmit, LastLoad, NotSubmitting, Load, AnyLoad, AnyTask
<1>3. CASE CloseWindow
    BY <1>3 DEF CloseWindow, LastLoad, NotSubmitting, AnyTask
<1>4. ASSUME NEW t \in Tasks, PickTask(t) PROVE WindowInv'
    <2>1. Loading(t, FALSE) /\ selected' = t /\ t \in AnyTask
        BY <1>4 DEF PickTask, AnyTask
    <2> QED  BY <1>4, <2>1, LoadingLast DEF PickTask, Enabled
<1>5. CASE Refresh
    BY <1>5, LoadingLast DEF Refresh, Enabled
<1>6. CASE Reload
    BY <1>6, LoadingLast DEF Reload
<1>7. CASE Answer
    <2>1. PICK l \in loads :
              OldAnswer(l) \/ NoTasksLeft(l) \/ ShowTask(l) \/ LoadFails(l) \/ \E t \in Tasks : Reassign(l, t)
        BY <1>7 DEF Answer
    <2>2. CASE OldAnswer(l) \/ LoadFails(l)
        BY <2>2, AnsweredInv DEF OldAnswer, LoadFails
    <2>3. CASE NoTasksLeft(l)
        BY <2>3 DEF NoTasksLeft, Counts, LastLoad, AnyTask, AnyLoad
    <2>4. CASE ShowTask(l)
        <3>1. l.task = selected
            BY <2>4 DEF ShowTask, Counts, LastLoad
        <3> QED  BY <2>4, <3>1 DEF ShowTask, LastLoad
    <2>5. ASSUME NEW t \in Tasks, Reassign(l, t) PROVE WindowInv'
        <3>1. Load(t, FALSE) \in AnyLoad /\ Load(t, FALSE).task = t /\ ~Load(t, FALSE).withTasks
            BY DEF Load, AnyLoad, AnyTask
        <3>2. \A m \in loads \ {l} : ~m.current
            BY <2>5 DEF Reassign, Counts, LastLoad, AnyLoad
        <3> QED  BY <2>5, <3>1, <3>2 DEF Reassign, Counts, LastLoad, AnyTask
    <2> QED  BY <2>1, <2>2, <2>3, <2>4, <2>5
<1>8. CASE Go
    BY <1>8 DEF Go, Enabled, LastLoad
<1>9. CASE TakeFixes
    BY <1>9 DEF TakeFixes, LastLoad
<1>10. CASE StartSubmission
    BY <1>10 DEF StartSubmission, LastLoad
<1>11. CASE SubmissionEnds
    BY <1>11 DEF SubmissionEnds, NotSubmitting, AnyTask, LastLoad
<1>12. CASE UNCHANGED windowVars
    BY <1>12 DEF windowVars, LastLoad
<1> QED
    BY <1>1, <1>2, <1>3, <1>4, <1>5, <1>6, <1>7, <1>8, <1>9, <1>10, <1>11, <1>12 DEF WindowNext

(***************************************************************************)
(* Whatever requests are in flight and whatever order their answers come   *)
(* in, a review window shows the task it names, and a submission takes the *)
(* ticks of its own task.                                                  *)
(***************************************************************************)
THEOREM WindowsAlwaysAgree == WindowSpec => [](ShowsSelectedTask /\ SubmitsFixesOfTask)
<1>1. WindowInv => ShowsSelectedTask /\ SubmitsFixesOfTask
    BY DEF WindowInv, TaskHeld
<1> QED  BY <1>1, WindowInitInv, WindowNextInv, PTL DEF WindowSpec

-----------------------------------------------------------------------------
\* ReviewFixes

\* A job whose record keeps to its type, and whose confirmed notes are fixed.
GoodJob(job, done) ==
    job \in Job /\ job.left \union job.sent \subseteq job.fixes /\ job.sent \subseteq done

GoodJobs == jobs \in [Jobs -> Job] /\ \A j \in Jobs : GoodJob(jobs[j], fixed)

LEMMA NoJobGood == \A done : GoodJob(NoJob, done)
BY DEF GoodJob, NoJob, Job

LEMMA FixesTypes ==
    FixesTypeOK <=> /\ scene \in Scenes /\ ticks \in [Scenes -> SUBSET Notes] /\ fixed \subseteq Notes
                    /\ GoodJobs
                    /\ submitWindow \in {"closed", "ready", "busy", "done"} /\ orphaned \in BOOLEAN
BY DEF FixesTypeOK, GoodJobs, GoodJob

LEMMA FixesInitInv == FixesInit => FixesTypeOK
<1> SUFFICES ASSUME FixesInit PROVE FixesTypeOK
    OBVIOUS
<1>1. GoodJobs
    BY NoJobGood DEF FixesInit, GoodJobs, GoodJob
<1> QED  BY <1>1, FixesTypes DEF FixesInit

\* The notes a step may take from the ticks of a scene are fixed.
LossOk == \/ OpenBlend \/ \E n \in Notes : ToggleFix(n)
          \/ \A s \in Scenes : ticks[s] \ ticks'[s] \subseteq fixed'

\* One job changes, notes are only added to the fixed ones, and ticks only lost
\* when theirs are.
LEMMA JobChanges ==
    ASSUME FixesTypeOK, NEW j \in Jobs, NEW job, jobs' = [jobs EXCEPT ![j] = job],
           UNCHANGED scene, orphaned' \in BOOLEAN,
           fixed \subseteq fixed', fixed' \subseteq Notes, GoodJob(job, fixed'),
           submitWindow' \in {"closed", "ready", "busy", "done"},
           ticks' = ticks \/ ticks' = [ticks EXCEPT ![scene] = @ \ Settled(j)]
    PROVE  FixesTypeOK' /\ LossOk
<1>1. GoodJobs'
    BY DEF FixesTypeOK, GoodJobs, GoodJob
<1>2. Settled(j) \subseteq fixed'
    BY DEF Settled, FixesTypeOK
<1>3. ticks' \in [Scenes -> SUBSET Notes] /\ \A s \in Scenes : ticks[s] \ ticks'[s] \subseteq fixed'
    BY <1>2 DEF FixesTypeOK
<1>4. scene' \in Scenes /\ orphaned' \in BOOLEAN
    BY DEF FixesTypeOK
<1> QED  BY <1>1, <1>3, <1>4 DEF FixesTypeOK, GoodJobs, GoodJob, LossOk

LEMMA StartsInv ==
    ASSUME FixesTypeOK, NEW j \in Jobs, NEW at \in {"queued", "upload", "mark"},
           NEW via \in {"operator", "submit window", "notes window"},
           Starts(j, at, via, ticks[scene]), UNCHANGED <<scene, ticks, fixed, orphaned>>,
           submitWindow' \in {"closed", "ready", "busy", "done"}
    PROVE  FixesTypeOK' /\ LossOk
<1> DEFINE job == [NoJob EXCEPT
           !.at = at, !.via = via, !.fixes = ticks[scene], !.left = ticks[scene],
           !.polled = (via = "operator"), !.shownIn = (via = "submit window")]
<1>1. jobs' = [jobs EXCEPT ![j] = job]
    BY DEF Starts
<1>2. ticks[scene] \in SUBSET Notes
    BY DEF FixesTypeOK
<1>3. GoodJob(job, fixed')
    BY <1>2 DEF GoodJob, NoJob, Job
<1>4. fixed \subseteq fixed' /\ fixed' \subseteq Notes /\ orphaned' \in BOOLEAN
    BY DEF FixesTypeOK
<1> HIDE DEF job
<1> QED  BY <1>1, <1>3, <1>4, JobChanges

LEMMA MarkFixedInv ==
    ASSUME FixesTypeOK, NEW j \in Jobs, NEW n \in Notes, MarkFixed(j, n)
    PROVE  FixesTypeOK' /\ LossOk
<1> DEFINE told == [jobs[j] EXCEPT !.left = @ \ {n}, !.sent = @ \union {n}]
           lost == [jobs[j] EXCEPT !.left = @ \ {n}]
<1>1. GoodJob(jobs[j], fixed) /\ n \in jobs[j].left
    BY DEF FixesTypeOK, GoodJob, MarkFixed
<1>2. /\ fixed \subseteq fixed' /\ fixed' \subseteq Notes /\ UNCHANGED <<scene, ticks>>
      /\ orphaned' \in BOOLEAN /\ submitWindow' \in {"closed", "ready", "busy", "done"}
    BY DEF MarkFixed, FixesTypeOK
<1>3. CASE jobs' = [jobs EXCEPT ![j] = told] /\ fixed' = fixed \union {n}
    <2>1. GoodJob(told, fixed')
        BY <1>1, <1>3 DEF GoodJob, Job
    <2> HIDE DEF told
    <2> QED  BY <1>2, <1>3, <2>1, JobChanges
<1>4. CASE jobs' = [jobs EXCEPT ![j] = lost]
    <2>1. GoodJob(lost, fixed')
        BY <1>1, <1>2 DEF GoodJob, Job
    <2> HIDE DEF lost
    <2> QED  BY <1>2, <1>4, <2>1, JobChanges
<1>5. \/ jobs' = [jobs EXCEPT ![j] = told] /\ fixed' = fixed \union {n}
      \/ jobs' = [jobs EXCEPT ![j] = lost]
    BY DEF MarkFixed
<1> QED  BY <1>3, <1>4, <1>5

LEMMA JobStepInv ==
    ASSUME FixesTypeOK, NEW j \in Jobs, JobStep(j)
    PROVE  FixesTypeOK' /\ LossOk
<1>1. GoodJob(jobs[j], fixed) /\ fixed \subseteq Notes
      /\ submitWindow \in {"closed", "ready", "busy", "done"} /\ orphaned \in BOOLEAN
    BY DEF FixesTypeOK, GoodJob
<1>2. CASE RenderPlayblast(j)
    <2> DEFINE job == [jobs[j] EXCEPT !.at = "upload", !.polled = TRUE]
    <2>1. jobs' = [jobs EXCEPT ![j] = job]
        BY <1>2 DEF RenderPlayblast
    <2>2. GoodJob(job, fixed)
        BY <1>1 DEF GoodJob, Job
    <2> HIDE DEF job
    <2> QED  BY <1>1, <1>2, <2>1, <2>2, JobChanges DEF RenderPlayblast
<1>3. CASE RenderFails(j)
    BY <1>1, <1>3, NoJobGood, JobChanges DEF RenderFails
<1>4. CASE UploadRevision(j)
    <2> DEFINE sent == [jobs[j] EXCEPT !.at = "mark"]
               failed == [jobs[j] EXCEPT !.at = "ended", !.failed = TRUE]
    <2>1. jobs' = [jobs EXCEPT ![j] = sent] \/ jobs' = [jobs EXCEPT ![j] = failed]
        BY <1>4 DEF UploadRevision
    <2>2. GoodJob(sent, fixed) /\ GoodJob(failed, fixed)
        BY <1>1 DEF GoodJob, Job
    <2> HIDE DEF sent, failed
    <2> QED  BY <1>1, <1>4, <2>1, <2>2, JobChanges DEF UploadRevision
<1>5. CASE AllMarked(j)
    <2> DEFINE job == [jobs[j] EXCEPT !.at = "ended"]
    <2>1. jobs' = [jobs EXCEPT ![j] = job]
        BY <1>5 DEF AllMarked
    <2>2. GoodJob(job, fixed)
        BY <1>1 DEF GoodJob, Job
    <2> HIDE DEF job
    <2> QED  BY <1>1, <1>5, <2>1, <2>2, JobChanges DEF AllMarked
<1>6. CASE PollUpload(j)
    BY <1>1, <1>6, NoJobGood, JobChanges DEF PollUpload
<1>7. CASE FixesSent(j)
    BY <1>1, <1>7, NoJobGood, JobChanges DEF FixesSent
<1>8. CASE EndsUnseen(j)
    BY <1>1, <1>8, NoJobGood, JobChanges DEF EndsUnseen
<1>9. CASE UploadRaises(j)
    <2>1. orphaned' \in BOOLEAN
        BY <1>1, <1>9 DEF UploadRaises, GoodJob, Job
    <2> QED  BY <1>1, <1>9, <2>1, NoJobGood, JobChanges DEF UploadRaises
<1>10. CASE PollRaises(j)
    <2>1. orphaned' \in BOOLEAN
        BY <1>1, <1>10 DEF PollRaises, GoodJob, Job
    <2> QED  BY <1>1, <1>10, <2>1, NoJobGood, JobChanges DEF PollRaises
<1> QED
    BY <1>2, <1>3, <1>4, <1>5, <1>6, <1>7, <1>8, <1>9, <1>10, MarkFixedInv DEF JobStep

LEMMA FixesNextInv == FixesTypeOK /\ [FixesNext]_fixesVars => FixesTypeOK' /\ [LossOk]_fixesVars
<1> SUFFICES ASSUME FixesTypeOK, [FixesNext]_fixesVars PROVE FixesTypeOK' /\ [LossOk]_fixesVars
    OBVIOUS
<1>1. ASSUME NEW n \in Notes, ToggleFix(n) PROVE FixesTypeOK' /\ LossOk
    <2>1. ticks' \in [Scenes -> SUBSET Notes]
        BY <1>1 DEF ToggleFix, FixesTypeOK
    <2>2. FixesTypeOK'
        BY <1>1, <2>1 DEF ToggleFix, FixesTypeOK
    <2> QED  BY <1>1, <2>2 DEF LossOk
<1>2. CASE SwitchScene
    BY <1>2 DEF SwitchScene, FixesTypeOK, LossOk
<1>3. CASE OpenBlend
    <2>1. ticks' \in [Scenes -> SUBSET Notes]
        BY <1>3 DEF OpenBlend
    <2>2. \A j \in Jobs : GoodJob(Dropped(j), fixed)
        BY DEF FixesTypeOK, GoodJob, Dropped, Job
    <2>3. GoodJobs'
        BY <1>3, <2>2 DEF OpenBlend, GoodJobs, GoodJob
    <2>4. orphaned' \in BOOLEAN
        <3>1. orphaned' = (orphaned \/ \E j \in Jobs : jobs[j].polled /\ jobs[j].shownIn)
            BY <1>3 DEF OpenBlend
        <3> QED  BY <3>1
    <2>5. FixesTypeOK'
        BY <1>3, <2>1, <2>3, <2>4 DEF OpenBlend, FixesTypeOK, GoodJobs, GoodJob
    <2> QED  BY <1>3, <2>5 DEF LossOk
<1>4. CASE OpenSubmitWindow
    BY <1>4 DEF OpenSubmitWindow, FixesTypeOK, LossOk
<1>5. CASE CloseSubmit
    <2>1. \A j \in Jobs : GoodJob([jobs[j] EXCEPT !.shownIn = FALSE], fixed)
        BY DEF FixesTypeOK, GoodJob, Job
    <2>2. GoodJobs'
        BY <1>5, <2>1 DEF CloseSubmit, GoodJobs, GoodJob
    <2> QED  BY <1>5, <2>2 DEF CloseSubmit, FixesTypeOK, GoodJobs, GoodJob, LossOk
<1>6. CASE SendFixes
    <2>1. PICK sent \in SUBSET ticks[scene], done \in SUBSET ticks[scene] :
              /\ sent \subseteq done
              /\ fixed' = fixed \union done
              /\ ticks' = [ticks EXCEPT ![scene] = @ \ sent]
        BY <1>6 DEF SendFixes
    <2>2. done \subseteq Notes
        BY <2>1 DEF FixesTypeOK
    <2>3. ticks' \in [Scenes -> SUBSET Notes] /\ \A s \in Scenes : ticks[s] \ ticks'[s] \subseteq fixed'
        BY <2>1 DEF FixesTypeOK
    <2> QED  BY <1>6, <2>1, <2>2, <2>3 DEF SendFixes, FixesTypeOK, LossOk
<1>7. ASSUME NEW j \in Jobs, SubmitOperator(j) PROVE FixesTypeOK' /\ LossOk
    BY <1>7, StartsInv DEF SubmitOperator, FixesTypeOK
<1>8. ASSUME NEW j \in Jobs, SubmitFromWindow(j) PROVE FixesTypeOK' /\ LossOk
    BY <1>8, StartsInv DEF SubmitFromWindow
<1>9. ASSUME NEW j \in Jobs, MarkFixedNow(j) PROVE FixesTypeOK' /\ LossOk
    BY <1>9, StartsInv DEF MarkFixedNow, FixesTypeOK
<1>10. CASE UNCHANGED fixesVars
    BY <1>10 DEF fixesVars, FixesTypeOK
<1> QED
    BY <1>1, <1>2, <1>3, <1>4, <1>5, <1>6, <1>7, <1>8, <1>9, <1>10, JobStepInv DEF FixesNext

(***************************************************************************)
(* A tick the artist has not taken away is lost only when its note is      *)
(* fixed on the server, whatever scenes, submissions and lost answers.     *)
(***************************************************************************)
THEOREM TicksAlwaysLostWhenFixed == FixesSpec => TicksLostOnlyWhenFixed
BY FixesInitInv, FixesNextInv, PTL DEF FixesSpec, TicksLostOnlyWhenFixed, LossOk

-----------------------------------------------------------------------------
\* ReviewShared

LEMMA SharedNextInv ==
    NotesAreOfTheirTask /\ [SharedNext]_sharedVars => NotesAreOfTheirTask'
<1> SUFFICES ASSUME NotesAreOfTheirTask, [SharedNext]_sharedVars PROVE NotesAreOfTheirTask'
    OBVIOUS
<1> USE DEF NotesAreOfTheirTask
<1>1. ASSUME NEW t, FetchNotes(t) PROVE NotesAreOfTheirTask'
    BY <1>1 DEF FetchNotes, NotesFailed
<1>2. ASSUME NEW t \in Pick, OnNotes(t) PROVE NotesAreOfTheirTask'
    BY <1>2 DEF OnNotes
<1>3. CASE PollNotes
    <2>1. PICK r \in refreshes :
              notes' = [task |-> r.task, failed |-> r.failed,
                        of |-> IF r.failed /\ r.task # NoPick THEN notes.of ELSE r.task]
        BY <1>3 DEF PollNotes, ResultTask
    <2> QED  BY <2>1
<1>4. CASE UNCHANGED notes
    BY <1>4
<1>5. \/ \E t : FetchNotes(t)
      \/ \E t \in Pick : OnNotes(t)
      \/ PollNotes
      \/ UNCHANGED notes
    BY DEF SharedNext, sharedVars, RefreshAsync, PickByHand, WorkerEnds, ReviewNotes,
           FixesSentNow, SubmitInvoke, OnTasks, StatusTasks, LoadScene
<1> QED  BY <1>1, <1>2, <1>3, <1>4, <1>5

(***************************************************************************)
(* The notes kept are those of the task they are kept for, or say that     *)
(* they could not be loaded, for any number of refreshes in flight.        *)
(***************************************************************************)
THEOREM NotesAlwaysOfTheirTask == SharedSpec => []NotesAreOfTheirTask
<1>1. SharedInit => NotesAreOfTheirTask
    BY DEF SharedInit, NotesAreOfTheirTask
<1> QED  BY <1>1, SharedNextInv, PTL DEF SharedSpec
=============================================================================
