---------------------------- MODULE SubmitChecks ----------------------------
(***************************************************************************)
(* What the Submit for Review window checks before it renders, and the     *)
(* format it offers: the scene is polled, the task's context arrives when  *)
(* it arrives, and every handler has to bring the rows and the button up   *)
(* to date (submit_review_dialog.py, submit_checks of review.py,           *)
(* facts_checks, BlenderReviewHost).                                       *)
(*                                                                         *)
(* ReviewWindow has which task the context is of, ReviewFixes what becomes *)
(* of the submission.  Rows that only inform are left out.                 *)
(***************************************************************************)
EXTENDS Integers

CONSTANTS SceneInfos,   \* what scene_info can say: [from, to, camera]
          Contexts,     \* what _task_context can return: [cut, off, facts]
          NoContext,    \* {}: not loaded yet
          Unread,       \* the scene could not be read yet
          NoRange       \* the task has no shot, or the shot no frame range

Off(c) == c # NoContext /\ c.off

ASSUME SubmitChecksAssumption ==
    /\ Unread \notin SceneInfos /\ NoContext \notin Contexts
    /\ \A s \in SceneInfos : {s.from, s.to} \subseteq Int /\ s.camera \in BOOLEAN
    /\ \A c \in Contexts : /\ c.off \in BOOLEAN
                           /\ c.facts \in {"none", "outdated", "current"}
                           /\ c.cut = NoRange \/ {c.cut.from, c.cut.to, c.cut.head, c.cut.tail} \subseteq Int

VARIABLES info,      \* what scene_info says of Blender's scene
          polled,    \* _scene
          assigned,  \* _task_id is not empty
          context,   \* _ctx
          frames,    \* "Image sequence" is checked
          choice,    \* ... and can be
          submit,    \* the submission
          button,    \* Render & Submit
          updating,  \* a fix that changes the file is queued
          request    \* what the last submission asked for: [seq, off]

checksVars == <<info, polled, assigned, context, frames, choice, submit, button, updating, request>>

ChecksTypeOK ==
    /\ polled \in SceneInfos \union {Unread}
    /\ context \in Contexts \union {NoContext}
    /\ {assigned, frames, choice, updating} \subseteq BOOLEAN
    /\ submit \in {"no", "clicked", "rendering", "submitted"}
    /\ button \in {"off", "render", "browse"}
    /\ request \in [seq : BOOLEAN, off : BOOLEAN]

ChecksInit ==
    /\ info \in SceneInfos /\ polled \in {info, Unread}
    /\ assigned \in BOOLEAN /\ context = NoContext
    /\ frames = FALSE /\ choice = TRUE
    /\ submit = "no" /\ button = "off" /\ updating = FALSE
    /\ request = [seq |-> FALSE, off |-> FALSE]

-----------------------------------------------------------------------------
\* submit_checks, facts_checks

\* The scene's frames against the shot's cut, with or without its handles.
RangeCheck(s, cut) ==
    IF \/ cut = NoRange
       \/ s.from = cut.from /\ s.to = cut.to
       \/ s.from = cut.from - cut.head /\ s.to = cut.to + cut.tail
    THEN "ok" ELSE "warning"

Blocked(s, c, seq) == ~s.camera \/ (seq /\ Off(c))

\* The fixes the rows offer: the shot's range, the approved version.
Fixes(s, c) ==
    IF s = Unread \/ c = NoContext THEN {}
    ELSE (IF RangeCheck(s, c.cut) = "warning" THEN {"range"} ELSE {})
         \union (IF c.facts = "outdated" THEN {"asset"} ELSE {})

-----------------------------------------------------------------------------
\* The window

\* _render_checks, from the new state: the button is left alone while a
\* submission runs and once there is a review to open.
RenderChecks ==
    button' = IF submit' \in {"clicked", "rendering"} \/ button = "browse" THEN button
              ELSE IF assigned' /\ polled' # Unread /\ ~Blocked(polled', context', frames')
                   THEN "render" ELSE "off"

\* _render_all: also while a submission runs.
RenderAll ==
    /\ choice' = ~Off(context')
    /\ frames' = (frames /\ ~Off(context'))
    /\ RenderChecks

\* The artist works on, also while the window uploads.
EditScene ==
    /\ info' \in SceneInfos
    /\ UNCHANGED <<polled, assigned, context, frames, choice, submit, button, updating, request>>

PollScene ==
    /\ polled # info
    /\ polled' = info
    /\ UNCHANGED <<info, assigned, context, frames, choice, submit, updating, request>>
    /\ RenderChecks

PickFormat ==
    /\ choice
    /\ frames' = ~frames
    /\ UNCHANGED <<info, polled, assigned, context, choice, submit, updating, request>>
    /\ RenderChecks

\* The artist picks another task: its context is asked for.
TaskChanged ==
    /\ submit = "no"
    /\ assigned' = TRUE /\ context' = NoContext
    /\ UNCHANGED <<info, polled, submit, updating, request>>
    /\ RenderAll

\* A task list without the task: the window turns to another one, if there is
\* one, and keeps the context until its own arrives.
TaskListArrives ==
    /\ assigned' \in BOOLEAN
    /\ UNCHANGED <<info, polled, context, submit, updating, request>>
    /\ IF assigned' THEN UNCHANGED <<frames, choice, button>> ELSE RenderAll

ContextArrives ==
    /\ assigned
    /\ context' \in Contexts
    /\ UNCHANGED <<info, polled, assigned, submit, updating, request>>
    /\ RenderAll

\* set_frame_range: the next poll sees it.
UseShotRange ==
    /\ "range" \in Fixes(polled, context)
    /\ info' \in SceneInfos
    /\ info'.from = context.cut.from /\ info'.to = context.cut.to /\ info'.camera = info.camera
    /\ UNCHANGED <<polled, assigned, context, frames, choice, submit, button, updating, request>>

\* apply_fix queues the update.  If it succeeds the context is loaded again.
UpdateAsset ==
    /\ "asset" \in Fixes(polled, context)
    /\ updating' = TRUE
    /\ UNCHANGED <<info, polled, assigned, context, frames, choice, submit, button, request>>

AssetUpdated ==
    /\ updating
    /\ updating' = FALSE
    /\ UNCHANGED <<info, polled, assigned, context, frames, choice, submit, button, request>>

-----------------------------------------------------------------------------
\* The submission

ClickGo ==
    /\ button = "render" /\ assigned
    /\ submit' = "clicked" /\ button' = "off" /\ choice' = FALSE
    /\ UNCHANGED <<info, polled, assigned, context, frames, updating, request>>

\* 60 ms later the format is read again.
StartRender ==
    /\ submit = "clicked"
    /\ submit' = "rendering"
    /\ request' = [seq |-> frames, off |-> Off(context)]
    /\ UNCHANGED <<info, polled, assigned, context, frames, choice, button, updating>>

\* Mutated form of FormatAfterError: all fields are enabled.
FormatAfterAny == TRUE

FormatAfterError == ~Off(context)

\* _on_done with an error: the fields are enabled again.
NotSubmitted ==
    /\ submit = "rendering"
    /\ submit' = "no"
    /\ choice' = FormatAfterError
    /\ UNCHANGED <<info, polled, assigned, context, frames, updating, request>>
    /\ RenderChecks

\* A review without an address leaves the window to submit once more.
Submitted ==
    /\ submit = "rendering"
    /\ submit' = "submitted"
    /\ button' \in {"browse", "off"}
    /\ UNCHANGED <<info, polled, assigned, context, frames, choice, updating, request>>

ChecksNext ==
    \/ EditScene \/ PollScene \/ PickFormat \/ TaskChanged \/ TaskListArrives \/ ContextArrives
    \/ UseShotRange \/ UpdateAsset \/ AssetUpdated
    \/ ClickGo \/ StartRender \/ NotSubmitted \/ Submitted

-----------------------------------------------------------------------------

(***************************************************************************)
(* Whatever comes in between, Render & Submit can be clicked only when     *)
(* nothing the window knows forbids it, and frames are not rendered for a  *)
(* studio that is known not to take them: not even when that becomes known *)
(* between the click and the rendering, which re-enables the fields.       *)
(***************************************************************************)
SubmitsOnlyAllowed ==
    /\ button = "render" => assigned /\ polled # Unread /\ ~Blocked(polled, context, frames)
    /\ frames => ~Off(context)
    /\ request.seq => ~request.off
=============================================================================
