---------------------------- MODULE ReviewShared ----------------------------
(***************************************************************************)
(* What the notes window, the native popup, the top bar and the viewport   *)
(* overlay share in Blender: the task list, the picked task and the notes  *)
(* loaded last.  Threads fetch them and timers store what they fetched,    *)
(* blocking operators and the window store theirs in between               *)
(* (review_state.py and its callers).                                      *)
(*                                                                         *)
(* What notes say is left out: they are the task they belong to.  A task   *)
(* picked in one scene is the picked task of the current scene; Blender's  *)
(* way of keeping an enum is left out, so is the flag `loading`, which     *)
(* nothing reads.                                                          *)
(***************************************************************************)
EXTENDS Naturals, FiniteSets

CONSTANTS SharedTasks, NoPick,
          Launched,     \* the task Blender was launched for, or NoPick
          MaxRefreshes  \* bound: results of refresh_async not stored yet

ASSUME ReviewSharedAssumption == NoPick \notin SharedTasks /\ Launched \in SharedTasks \union {NoPick}

VARIABLES listed,     \* task_items, {} before the first list
          picked,     \* scene.zeno_review_task
          notes,      \* notes: [task, of, failed]
          refreshes   \* refresh_async: its thread, its result and its poll

sharedVars == <<listed, picked, notes, refreshes>>

Pick == SharedTasks \union {NoPick}
Running == [task : Pick, withTasks : BOOLEAN, polled : BOOLEAN, at : {"running"}]
Fetched == [task : Pick, tasks : SUBSET SharedTasks, withTasks : BOOLEAN, at : {"fetched"}, failed : BOOLEAN]

SharedTypeOK ==
    /\ listed \subseteq SharedTasks
    /\ picked \in Pick
    /\ notes \in [task : Pick, of : Pick, failed : BOOLEAN]
    /\ refreshes \subseteq Running \union Fetched
    /\ Cardinality({r \in refreshes : r.at = "running"}) <= 1

SharedInit ==
    /\ listed = {} /\ picked = NoPick
    /\ notes = [task |-> NoPick, of |-> NoPick, failed |-> FALSE]
    /\ refreshes = {}

\* The launched task when it is listed, else the first one unless the picked
\* one is listed.
DefaultTask(tasks, task) ==
    IF Launched \in tasks THEN {Launched}
    ELSE IF tasks = {} \/ task \in tasks THEN {task} ELSE tasks

-----------------------------------------------------------------------------
\* refresh_async

IsAlive == \E r \in refreshes : r.at = "running"

\* For the picked task, or after an upload for the task submitted.  A refresh
\* while another one runs is dropped, whatever task it is for.
RefreshAsync(t) ==
    /\ ~IsAlive /\ Cardinality(refreshes) < MaxRefreshes
    /\ \E withTasks \in BOOLEAN :
           refreshes' = refreshes \union
               {[task |-> t, withTasks |-> withTasks, polled |-> TRUE, at |-> "running"]}
    /\ UNCHANGED <<listed, picked, notes>>

\* The thread ends: the list may be there when the notes failed.  Without its
\* poll nobody has a use for the result.
WorkerEnds ==
    \E r \in refreshes : \E failed, gotTasks \in BOOLEAN : \E tasks \in SUBSET SharedTasks :
        /\ r.at = "running"
        /\ gotTasks => r.withTasks
        /\ failed \/ gotTasks = r.withTasks
        /\ ~gotTasks => tasks = {}
        /\ refreshes' = (refreshes \ {r}) \union
               IF r.polled THEN {[task |-> r.task, tasks |-> tasks, withTasks |-> gotTasks,
                                  at |-> "fetched", failed |-> failed]} ELSE {}
        /\ UNCHANGED <<listed, picked, notes>>

\* Mutated form of ResultTask: a result is stored for the task picked by now.
ResultPicked(r) == picked

\* The task a result is stored for.
ResultTask(r) == r.task

\* A poll: it waits for the latest thread, not for its own, so that results may
\* be stored together and in any order.
PollNotes ==
    \E r \in refreshes :
        /\ r.at = "fetched" /\ ~IsAlive
        /\ listed' = IF r.withTasks THEN r.tasks ELSE listed
        /\ picked' \in IF r.withTasks THEN DefaultTask(r.tasks, picked) ELSE {picked}
        /\ notes' = [task |-> ResultTask(r), failed |-> r.failed,
                     of |-> IF r.failed /\ r.task # NoPick THEN notes.of ELSE r.task]
        /\ refreshes' = refreshes \ {r}

-----------------------------------------------------------------------------
\* Blocking operators, the window and the top bar

\* Mutated form of NotesFailed: the error is not kept.
NotesUnflagged(t) == [task |-> t, of |-> notes.of, failed |-> FALSE]

NotesFailed(t) == [task |-> t, of |-> notes.of, failed |-> TRUE]

FetchNotes(t) ==
    notes' \in IF t = NoPick THEN {[task |-> t, of |-> t, failed |-> FALSE]}
               ELSE {[task |-> t, of |-> t, failed |-> FALSE], NotesFailed(t)}

\* The popup: tasks, default task, notes.  A list that fails leaves the old one.
ReviewNotes ==
    /\ listed' \in SUBSET SharedTasks
    /\ picked' \in DefaultTask(listed', picked)
    /\ FetchNotes(picked')
    /\ UNCHANGED refreshes

\* The end of "Mark Fixed Without Submitting".
FixesSentNow == FetchNotes(picked) /\ UNCHANGED <<listed, picked, refreshes>>

\* The native submit dialog loads tasks only.
SubmitInvoke ==
    /\ listed' \in SUBSET SharedTasks
    /\ picked' \in DefaultTask(listed', picked)
    /\ UNCHANGED <<notes, refreshes>>

PickByHand(t) ==
    /\ t \in listed
    /\ picked' = t
    /\ UNCHANGED <<listed, notes, refreshes>>

\* The window's answers; a submission started from it picks its task too.
OnTasks ==
    /\ listed' \in SUBSET SharedTasks
    /\ UNCHANGED <<picked, notes, refreshes>>

OnNotes(t) ==
    /\ notes' = [task |-> t, of |-> t, failed |-> FALSE]
    /\ picked' = IF t \in listed THEN t ELSE picked
    /\ UNCHANGED <<listed, refreshes>>

\* The top bar's poll fills an empty list, and picks its task when none is.
StatusTasks ==
    /\ listed' \in IF listed = {} THEN SUBSET SharedTasks ELSE {listed}
    /\ picked' \in IF picked = NoPick THEN listed' \union {NoPick} ELSE {picked}
    /\ UNCHANGED <<notes, refreshes>>

\* The pick is not saved, the polls are not persistent.
LoadScene ==
    /\ picked' \in listed \union {NoPick}
    /\ refreshes' = {[r EXCEPT !.polled = FALSE] : r \in {q \in refreshes : q.at = "running"}}
    /\ UNCHANGED <<listed, notes>>

SharedNext ==
    \/ \E t \in Pick : RefreshAsync(t) \/ OnNotes(t)
    \/ \E t \in SharedTasks : PickByHand(t)
    \/ WorkerEnds \/ PollNotes \/ ReviewNotes \/ FixesSentNow \/ SubmitInvoke
    \/ OnTasks \/ StatusTasks \/ LoadScene

SharedSpec == SharedInit /\ [][SharedNext]_sharedVars

-----------------------------------------------------------------------------

(***************************************************************************)
(* Whatever order results are stored in, the notes drawn over the viewport *)
(* and listed in the popup are those of the task they are kept for, or an  *)
(* error says that they are not.                                           *)
(***************************************************************************)
NotesAreOfTheirTask == ~notes.failed => notes.of = notes.task
=============================================================================
