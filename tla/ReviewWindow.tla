---------------------------- MODULE ReviewWindow ----------------------------
(***************************************************************************)
(* The Review Notes and the Submit for Review window: how each loads its   *)
(* tasks and the notes or the context of the task it has selected, with    *)
(* requests that may be answered late, in any order or not at all          *)
(* (review_notes_dialog.py, submit_review_dialog.py, qt_workers.py), and   *)
(* how a submission starts, two events after the click.                    *)
(*                                                                         *)
(* One window of either kind at a time.  What notes say is left out: shown *)
(* is the task they were loaded for.  A sequence number is compared only   *)
(* for being the last one given out, so a load carries just that.          *)
(***************************************************************************)
EXTENDS Naturals, FiniteSets

CONSTANTS Tasks, NoTask

ASSUME ReviewWindowAssumption == NoTask \notin Tasks

VARIABLES kind,        \* which window is open, or "closed"
          box,         \* the task the combo box names
          selected,    \* _task_id
          shown,       \* the task of the notes, or of the context, on display
          loads,       \* requests in flight: [current, task, withTasks]
          reassigned,  \* history: a list without the task selected another one
          go,          \* a submission: [at, fixesOf, task]
          raced        \* history: Submit was clicked while a task list was loading

windowVars == <<kind, box, selected, shown, loads, reassigned, go, raced>>

AnyTask == Tasks \union {NoTask}
Load(task, withTasks) == [current |-> TRUE, task |-> task, withTasks |-> withTasks]
NotSubmitting == [at |-> "idle", fixesOf |-> NoTask, task |-> NoTask]

WindowTypeOK ==
    /\ kind \in {"closed", "notes", "submit"}
    /\ {box, selected, shown} \subseteq AnyTask
    /\ loads \subseteq [current : BOOLEAN, task : AnyTask, withTasks : BOOLEAN]
    /\ Cardinality({l \in loads : l.current}) <= 1
    /\ {reassigned, raced} \subseteq BOOLEAN
    /\ go \in [at : {"idle", "clicked", "waiting", "started", "done"}, fixesOf : AnyTask, task : AnyTask]

WindowInit ==
    /\ kind = "closed"
    /\ box = NoTask /\ selected = NoTask /\ shown = NoTask
    /\ loads = {}
    /\ reassigned = FALSE
    /\ go = NotSubmitting /\ raced = FALSE

-----------------------------------------------------------------------------

\* Requests that were in flight when a new one is made: their number is old.
Outdated == {[l EXCEPT !.current = FALSE] : l \in loads}

\* _load: the answers of older requests no longer count.
Loading(task, withTasks) == loads' = Outdated \union {Load(task, withTasks)}

\* A new window: the old one's signals are gone with it.
OpenNotes ==
    /\ kind = "closed"
    /\ kind' = "notes"
    /\ loads' = {Load(NoTask, TRUE)}
    /\ box' = NoTask /\ selected' = NoTask /\ shown' = NoTask /\ reassigned' = FALSE
    /\ go' = NotSubmitting /\ raced' = FALSE

\* For the task of the scene, or of the Review Notes window, if there is one.
OpenSubmit ==
    /\ kind = "closed"
    /\ kind' = "submit"
    /\ selected' \in AnyTask
    /\ loads' = {Load(selected', TRUE)}
    /\ box' = NoTask /\ shown' = NoTask /\ reassigned' = FALSE
    /\ go' = NotSubmitting /\ raced' = FALSE

\* Close is disabled while a submission runs, the window's own button is not.
CloseWindow ==
    /\ kind # "closed"
    /\ kind' = "closed"
    /\ loads' = {}
    /\ box' = NoTask /\ selected' = NoTask /\ shown' = NoTask /\ reassigned' = FALSE
    /\ go' = NotSubmitting /\ raced' = FALSE

\* The fields a submission disables.
Enabled(field) == kind # "closed" /\ go.at = "idle"

PickTask(t) ==
    /\ Enabled("task")
    /\ t # selected
    /\ box' = t /\ selected' = t
    /\ shown' = NoTask
    /\ reassigned' = FALSE
    /\ Loading(t, FALSE)
    /\ UNCHANGED <<kind, go, raced>>

\* Also while a load runs: the notes window disables the button meanwhile, but
\* the failure of an older load enables it.
Refresh ==
    /\ Enabled("refresh")
    /\ Loading(selected, TRUE)
    /\ UNCHANGED <<kind, box, selected, shown, reassigned, go, raced>>

\* The timer of the notes window, opening it again, a submission or a batch of
\* fixes that ended, a check's fix that changed the file.
Reload ==
    /\ kind # "closed"
    /\ Loading(selected, FALSE)
    /\ UNCHANGED <<kind, box, selected, shown, reassigned, go, raced>>

-----------------------------------------------------------------------------
\* Answers

\* Mutated form of Counts: the number is not compared.
CountsAlways(l) == TRUE

Counts(l) == l.current

OldAnswer(l) ==
    /\ ~Counts(l)
    /\ loads' = loads \ {l}
    /\ UNCHANGED <<kind, box, selected, shown, reassigned, go, raced>>

\* A task list without the task: the window turns to the launched task, the
\* scene's or the first one, and loads again.  The notes of the task before
\* stay on display until then.
Reassign(l, t) ==
    /\ Counts(l) /\ l.withTasks /\ t # l.task
    /\ box' = t /\ selected' = t
    /\ loads' = (loads \ {l}) \union {Load(t, FALSE)}
    /\ reassigned' = (shown \notin {t, NoTask})
    /\ UNCHANGED <<kind, shown, go, raced>>

\* No tasks are assigned: the notes window empties, the other keeps its context.
NoTasksLeft(l) ==
    /\ Counts(l) /\ l.withTasks
    /\ box' = NoTask /\ selected' = NoTask
    /\ shown' = IF kind = "notes" THEN NoTask ELSE shown
    /\ reassigned' = (shown' # NoTask)
    /\ loads' = loads \ {l}
    /\ UNCHANGED <<kind, go, raced>>

\* The task's notes, or _task_context, the parts of which may be missing.
ShowTask(l) ==
    /\ Counts(l) /\ (l.withTasks => l.task # NoTask)
    /\ box' = IF l.withTasks THEN l.task ELSE box
    /\ selected' = l.task
    /\ shown' = l.task
    /\ reassigned' = FALSE
    /\ loads' = loads \ {l}
    /\ UNCHANGED <<kind, go, raced>>

\* _on_failed shows the error and keeps what is on display.
LoadFails(l) ==
    /\ loads' = loads \ {l}
    /\ UNCHANGED <<kind, box, selected, shown, reassigned, go, raced>>

Answer ==
    \E l \in loads :
        OldAnswer(l) \/ NoTasksLeft(l) \/ ShowTask(l) \/ LoadFails(l) \/ \E t \in Tasks : Reassign(l, t)

-----------------------------------------------------------------------------
\* Render & Submit

Go ==
    /\ kind = "submit" /\ Enabled("go") /\ selected # NoTask
    /\ go' = [go EXCEPT !.at = "clicked"]
    /\ raced' = \E l \in loads : l.withTasks /\ l.current
    /\ UNCHANGED <<kind, box, selected, shown, loads, reassigned>>

\* processEvents has run: the ticked notes of the selected task are taken.
TakeFixes ==
    /\ go.at = "clicked"
    /\ go' = [go EXCEPT !.at = "waiting", !.fixesOf = selected]
    /\ UNCHANGED <<kind, box, selected, shown, loads, reassigned, raced>>

\* 60 ms later, the task is read again.
StartSubmission ==
    /\ go.at = "waiting"
    /\ go' = [go EXCEPT !.at = "started", !.task = selected]
    /\ UNCHANGED <<kind, box, selected, shown, loads, reassigned, raced>>

\* _on_done: the fields are enabled after an error, not after a success.
SubmissionEnds ==
    /\ go.at = "started"
    /\ go' \in {NotSubmitting, [go EXCEPT !.at = "done"]}
    /\ UNCHANGED <<kind, box, selected, shown, loads, reassigned, raced>>

WindowNext ==
    \/ OpenNotes \/ OpenSubmit \/ CloseWindow
    \/ \E t \in Tasks : PickTask(t)
    \/ Refresh \/ Reload \/ Answer
    \/ Go \/ TakeFixes \/ StartSubmission \/ SubmissionEnds

WindowSpec == WindowInit /\ [][WindowNext]_windowVars

-----------------------------------------------------------------------------

(***************************************************************************)
(* Whatever order answers come in, the window is about the task its box    *)
(* names: an answer for a task picked earlier does not turn it back, and   *)
(* the notes (or the context) on display are "the selected task's"         *)
(* (review_notes_dialog.py:82), under which the window files the ticks.    *)
(* Unless a task list came without the task: that selects another one and  *)
(* leaves the notes of the first on display until the next answer.         *)
(***************************************************************************)
ShowsSelectedTask ==
    /\ box \in {selected, NoTask}
    /\ shown \in {selected, NoTask} \/ reassigned

(***************************************************************************)
(* The ticked notes that go with a submission are those of the task it is  *)
(* made for, although the task is read again after they are taken; unless  *)
(* the task list was being refreshed when Submit was clicked.              *)
(***************************************************************************)
SubmitsFixesOfTask == go.at \in {"started", "done"} => go.fixesOf = go.task \/ raced
=============================================================================
