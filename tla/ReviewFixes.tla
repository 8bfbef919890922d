---------------------------- MODULE ReviewFixes ----------------------------
(***************************************************************************)
(* Notes ticked as fixed while working in Blender, and the submissions     *)
(* that mark them fixed: rendered on the main thread, uploaded by a thread *)
(* and finished by a timer in whatever scene is current by then            *)
(* (review_ops.py, review_state.py, review_host.py, the end of a           *)
(* submission in submit_review_dialog.py, "mark fixed now" in              *)
(* review_notes_dialog.py).                                                *)
(*                                                                         *)
(* The ticks of one task: a scene keeps those of each task under its own   *)
(* key, and every operation touches one key.  ReviewWindow says which.     *)
(* Marking a note fixed is final here; reopening it is the reviewer's.     *)
(***************************************************************************)
EXTENDS FiniteSets

CONSTANTS Notes, Scenes, Jobs

VARIABLES scene,    \* the current scene
          ticks,    \* zeno_pending_fixes of each scene
          fixed,    \* notes the server has as fixed
          jobs,     \* what a submission, or a batch of fixes, is at
          submitWindow,  \* the Submit for Review window
          orphaned  \* history: nobody will tell the window of its submission

fixesVars == <<scene, ticks, fixed, jobs, submitWindow, orphaned>>

\* via: who started it.  shownIn: the window that shows it is still open.
\* left, sent: notes still to be marked, and those the server confirmed.
Job == [at : {"none", "queued", "upload", "mark", "ended"},
        via : {"operator", "submit window", "notes window"},
        failed : BOOLEAN, polled : BOOLEAN, shownIn : BOOLEAN,
        fixes : SUBSET Notes, left : SUBSET Notes, sent : SUBSET Notes]
NoJob == [at |-> "none", via |-> "operator", failed |-> FALSE, polled |-> FALSE,
          shownIn |-> FALSE, fixes |-> {}, left |-> {}, sent |-> {}]

FixesTypeOK ==
    /\ scene \in Scenes
    /\ ticks \in [Scenes -> SUBSET Notes]
    /\ fixed \subseteq Notes
    /\ jobs \in [Jobs -> Job]
    /\ \A j \in Jobs : /\ jobs[j].left \union jobs[j].sent \subseteq jobs[j].fixes
                       /\ jobs[j].sent \subseteq fixed
    /\ submitWindow \in {"closed", "ready", "busy", "done"}
    /\ orphaned \in BOOLEAN

FixesInit ==
    /\ scene \in Scenes
    /\ ticks = [s \in Scenes |-> {}]
    /\ fixed = {}
    /\ jobs = [j \in Jobs |-> NoJob]
    /\ submitWindow = "closed" /\ orphaned = FALSE

-----------------------------------------------------------------------------
\* The artist

ToggleFix(n) ==
    /\ ticks' = [ticks EXCEPT ![scene] = IF n \in @ THEN @ \ {n} ELSE @ \union {n}]
    /\ UNCHANGED <<scene, fixed, jobs, submitWindow, orphaned>>

SwitchScene ==
    /\ scene' \in Scenes \ {scene}
    /\ UNCHANGED <<ticks, fixed, jobs, submitWindow, orphaned>>

\* Polls of uploads are not persistent timers; the queue's drain is, and so is
\* the tick that runs Qt.
Dropped(j) == [jobs[j] EXCEPT !.polled = FALSE]

\* Bound: a file is saved with ticks in the scene it opens with.
OpenBlend ==
    /\ scene' \in Scenes
    /\ \E saved \in SUBSET Notes : ticks' = [s \in Scenes |-> IF s = scene' THEN saved ELSE {}]
    /\ jobs' = [j \in Jobs |-> Dropped(j)]
    /\ orphaned' = (orphaned \/ \E j \in Jobs : jobs[j].polled /\ jobs[j].shownIn)
    /\ UNCHANGED <<fixed, submitWindow>>

\* One window at a time; a submission of a window that was closed goes on.
OpenSubmitWindow ==
    /\ submitWindow = "closed"
    /\ submitWindow' = "ready" /\ orphaned' = FALSE
    /\ UNCHANGED <<scene, ticks, fixed, jobs>>

CloseSubmit ==
    /\ submitWindow # "closed"
    /\ submitWindow' = "closed" /\ orphaned' = FALSE
    /\ jobs' = [j \in Jobs |-> [jobs[j] EXCEPT !.shownIn = FALSE]]
    /\ UNCHANGED <<scene, ticks, fixed>>

\* The blocking operator "Mark Fixed Without Submitting".  An answer may be lost.
SendFixes ==
    /\ \E sent \in SUBSET ticks[scene] : \E done \in SUBSET ticks[scene] :
           /\ sent \subseteq done
           /\ fixed' = fixed \union done
           /\ ticks' = [ticks EXCEPT ![scene] = @ \ sent]
    /\ UNCHANGED <<scene, jobs, submitWindow, orphaned>>

-----------------------------------------------------------------------------
\* Submissions

Starts(j, at, via, fixes) ==
    /\ jobs[j] = NoJob
    /\ jobs' = [jobs EXCEPT ![j] = [NoJob EXCEPT
           !.at = at, !.via = via, !.fixes = fixes, !.left = fixes,
           !.polled = (via = "operator"), !.shownIn = (via = "submit window")]]

\* The operator's execute renders before it reads the ticks, in one step.
SubmitOperator(j) ==
    /\ Starts(j, "upload", "operator", ticks[scene])
    /\ UNCHANGED <<scene, ticks, fixed, submitWindow, orphaned>>

\* Go: the ticks are taken, and the render is queued for the main thread.
SubmitFromWindow(j) ==
    /\ submitWindow = "ready"
    /\ Starts(j, "queued", "submit window", ticks[scene])
    /\ submitWindow' = "busy"
    /\ UNCHANGED <<scene, ticks, fixed, orphaned>>

\* _on_send_now: a worker of Qt's pool, answered by a signal.
MarkFixedNow(j) ==
    /\ ticks[scene] # {}
    /\ Starts(j, "mark", "notes window", ticks[scene])
    /\ UNCHANGED <<scene, ticks, fixed, submitWindow, orphaned>>

RenderPlayblast(j) ==
    /\ jobs[j].at = "queued"
    /\ jobs' = [jobs EXCEPT ![j].at = "upload", ![j].polled = TRUE]
    /\ UNCHANGED <<scene, ticks, fixed, submitWindow, orphaned>>

RenderFails(j) ==
    /\ jobs[j].at = "queued"
    /\ jobs' = [jobs EXCEPT ![j] = NoJob]
    /\ submitWindow' = IF jobs[j].shownIn THEN "ready" ELSE submitWindow
    /\ UNCHANGED <<scene, ticks, fixed, orphaned>>

\* make_client or the thread raises, rendered as it is: the queue's drain only
\* prints it.
UploadRaises(j) ==
    /\ jobs[j].at = "queued"
    /\ jobs' = [jobs EXCEPT ![j] = NoJob]
    /\ orphaned' = (orphaned \/ jobs[j].shownIn)
    /\ UNCHANGED <<scene, ticks, fixed, submitWindow>>

UploadRevision(j) ==
    /\ jobs[j].at = "upload"
    /\ jobs' \in {[jobs EXCEPT ![j].at = "mark"],
                  [jobs EXCEPT ![j].at = "ended", ![j].failed = TRUE]}
    /\ UNCHANGED <<scene, ticks, fixed, submitWindow, orphaned>>

\* send_fixes: one request per note, each may fail, or its answer may be lost.
MarkFixed(j, n) ==
    /\ jobs[j].at = "mark" /\ n \in jobs[j].left
    /\ \/ /\ jobs' = [jobs EXCEPT ![j].left = @ \ {n}, ![j].sent = @ \union {n}]
          /\ fixed' = fixed \union {n}
       \/ /\ jobs' = [jobs EXCEPT ![j].left = @ \ {n}]
          /\ fixed' \in {fixed, fixed \union {n}}
    /\ UNCHANGED <<scene, ticks, submitWindow, orphaned>>

AllMarked(j) ==
    /\ jobs[j].at = "mark" /\ jobs[j].left = {}
    /\ jobs' = [jobs EXCEPT ![j].at = "ended"]
    /\ UNCHANGED <<scene, ticks, fixed, submitWindow, orphaned>>

\* Mutated form of Settled: every fix that went along is cleared.
SettledAll(j) == jobs[j].fixes

\* The notes that need not stay ticked.
Settled(j) == jobs[j].sent

\* The poll, in the scene that is current now; then the window's _on_done.
PollUpload(j) ==
    /\ jobs[j].at = "ended" /\ jobs[j].polled
    /\ ticks' = IF jobs[j].failed THEN ticks ELSE [ticks EXCEPT ![scene] = @ \ Settled(j)]
    /\ submitWindow' = IF ~jobs[j].shownIn THEN submitWindow
                 ELSE IF jobs[j].failed THEN "ready" ELSE "done"
    /\ jobs' = [jobs EXCEPT ![j] = NoJob]
    /\ UNCHANGED <<scene, fixed, orphaned>>

\* What the poll does before on_done raises, and Blender drops it.
PollRaises(j) ==
    /\ jobs[j].at = "ended" /\ jobs[j].polled /\ ~jobs[j].failed
    /\ ticks' \in {ticks, [ticks EXCEPT ![scene] = @ \ Settled(j)]}
    /\ jobs' = [jobs EXCEPT ![j] = NoJob]
    /\ orphaned' = (orphaned \/ jobs[j].shownIn)
    /\ UNCHANGED <<scene, fixed, submitWindow>>

FixesSent(j) ==
    /\ jobs[j].at = "ended" /\ jobs[j].via = "notes window"
    /\ ticks' = [ticks EXCEPT ![scene] = @ \ Settled(j)]
    /\ jobs' = [jobs EXCEPT ![j] = NoJob]
    /\ UNCHANGED <<scene, fixed, submitWindow, orphaned>>

\* The poll was dropped: nobody looks at the result.
EndsUnseen(j) ==
    /\ jobs[j].at = "ended" /\ ~jobs[j].polled /\ jobs[j].via # "notes window"
    /\ jobs' = [jobs EXCEPT ![j] = NoJob]
    /\ UNCHANGED <<scene, ticks, fixed, submitWindow, orphaned>>

JobStep(j) ==
    \/ RenderPlayblast(j) \/ RenderFails(j) \/ UploadRaises(j) \/ UploadRevision(j)
    \/ \E n \in Notes : MarkFixed(j, n)
    \/ AllMarked(j) \/ PollUpload(j) \/ PollRaises(j) \/ FixesSent(j) \/ EndsUnseen(j)

FixesNext ==
    \/ \E n \in Notes : ToggleFix(n)
    \/ SwitchScene \/ OpenBlend \/ OpenSubmitWindow \/ CloseSubmit \/ SendFixes
    \/ \E j \in Jobs : \/ SubmitOperator(j) \/ SubmitFromWindow(j) \/ MarkFixedNow(j)
                       \/ JobStep(j)

\* Threads run, requests end, Blender calls its timers and Qt's.
FixesFairness == \A j \in Jobs : WF_fixesVars(JobStep(j))

FixesSpec == FixesInit /\ [][FixesNext]_fixesVars

-----------------------------------------------------------------------------

(***************************************************************************)
(* Whatever scenes are switched to, whichever notes fail and however       *)
(* submissions overlap, a tick the artist has not taken away is lost only  *)
(* when the server has its note as fixed: a note that could not be updated *)
(* stays ticked and goes with the next submission.                         *)
(***************************************************************************)
TicksLostOnlyWhenFixed ==
    [][ \/ OpenBlend \/ \E n \in Notes : ToggleFix(n)
        \/ \A s \in Scenes : ticks[s] \ ticks'[s] \subseteq fixed' ]_fixesVars

(***************************************************************************)
(* The Submit window does not stay busy when its render, its upload or a   *)
(* note's update fails.  Except where nobody calls its on_done: a file     *)
(* opened while it uploads drops the poll, though the window says "you can *)
(* keep working" (submit_review_dialog.py:464), and start_upload or the    *)
(* poll may raise first: its buttons then stay disabled.                   *)
(***************************************************************************)
BusyEnds == []<>(submitWindow # "busy" \/ orphaned)
=============================================================================
