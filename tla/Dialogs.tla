------------------------------ MODULE Dialogs -------------------------------
(***************************************************************************)
(* The Navigator and the Command Palette: boxes that depend on each other, *)
(* filled by requests whose answers may be late and in any order           *)
(* (qt_dialogs.py).                                                        *)
(*                                                                         *)
(* What the lists hold is left out (DataCache): a list is the project it   *)
(* is of.  So are the search text and the dialog's other fields.           *)
(***************************************************************************)
EXTENDS Naturals, FiniteSets

CONSTANTS Projects, NoProject,
          MaxRequests  \* bound: requests in flight

ASSUME DialogsAssumption == NoProject \notin Projects

VARIABLES requests,  \* in flight: [by, project, old], old when there is a later one
          nav,       \* Navigator: the selected project, and whose assets it lists
          pal,       \* Palette: the typed project, those of _state and of the tasks
          busy,      \* the Palette waits for a publish
          astray     \* history: runners whose last answer was an old one, or a failure

dialogVars == <<requests, nav, pal, busy, astray>>

Runners == {"assets", "state", "tasks"}
AnyProject == Projects \union {NoProject}

\* due: the timer of the debounced refresh runs.
Palette == [typed : AnyProject, due : BOOLEAN, state : AnyProject,
            tasksFor : AnyProject, tasks : AnyProject]

DialogsTypeOK ==
    /\ requests \subseteq [by : Runners, project : AnyProject, old : BOOLEAN]
    /\ nav \in [project : AnyProject, list : AnyProject]
    /\ pal \in Palette
    /\ busy \in BOOLEAN
    /\ astray \subseteq Runners

DialogsInit ==
    /\ requests = {} /\ astray = {} /\ busy = FALSE
    /\ nav = [project |-> NoProject, list |-> NoProject]
    /\ pal = [typed |-> NoProject, due |-> FALSE, state |-> NoProject,
              tasksFor |-> NoProject, tasks |-> NoProject]

InFlight(d) == {r \in requests : r.by = d}

\* The requests of d are no longer its last.
Superseded(d, asked) == {IF r.by = d THEN [r EXCEPT !.old = TRUE] ELSE r : r \in asked}

\* A runner's submit: the requests before it are not cancelled, and of those
\* an equal one stands for both.
AskedWith(d, p, asked) == Superseded(d, asked) \union {[by |-> d, project |-> p, old |-> FALSE]}

Asks(d, p) ==
    /\ Cardinality(requests) < MaxRequests
    /\ requests' = AskedWith(d, p, requests)

\* The code does not tell a late answer from the current one.
BoxAnswered(r) == astray' = IF r.old THEN astray \union {r.by} ELSE astray \ {r.by}

-----------------------------------------------------------------------------
\* Navigator

\* The artist, or the project list a refresh has brought: the asset box is
\* emptied until the answer.
OnProjectChanged(p) ==
    /\ nav' = [project |-> p, list |-> NoProject]
    /\ Asks("assets", p)
    /\ UNCHANGED <<pal, busy, astray>>

NoProjects ==
    /\ nav' = [project |-> NoProject, list |-> NoProject]
    /\ requests' = Superseded("assets", requests)
    /\ UNCHANGED <<pal, busy, astray>>

OnAssetsLoaded(r) ==
    /\ r.by = "assets"
    /\ nav' = [nav EXCEPT !.list = r.project]
    /\ requests' = requests \ {r}
    /\ BoxAnswered(r)
    /\ UNCHANGED <<pal, busy>>

-----------------------------------------------------------------------------
\* Palette

\* A timer of 250 ms, started again with every character.
TypeProject(p) ==
    /\ pal' = [pal EXCEPT !.typed = p, !.due = TRUE]
    /\ UNCHANGED <<requests, nav, busy, astray>>

DebouncedRefresh ==
    /\ pal.due
    /\ pal' = [pal EXCEPT !.due = FALSE]
    /\ Asks("state", pal.typed)
    /\ UNCHANGED <<nav, busy, astray>>

\* The refresh button; Run before anything was loaded; the default project.
PaletteReload ==
    /\ ~busy
    /\ \E p \in IF pal.typed = NoProject THEN AnyProject ELSE {pal.typed} :
           /\ pal' = [pal EXCEPT !.typed = p]
           /\ Asks("state", p)
    /\ UNCHANGED <<nav, busy, astray>>

\* Mutated form of NewTasksFor: the tasks are asked for once.
NewTasksForFirst == pal.typed # NoProject /\ pal.tasksFor = NoProject

NewTasksFor == pal.typed \notin {NoProject, pal.tasksFor}

\* The assets are of the project asked for, the tasks of the one typed by now,
\* and asked for once; no project has no tasks, and leaves those there are.
OnStateLoaded(r) ==
    /\ r.by = "state"
    /\ IF NewTasksFor
       THEN /\ pal' = [pal EXCEPT !.state = r.project, !.tasksFor = pal.typed]
            /\ requests' = AskedWith("tasks", pal.typed, requests \ {r})
       ELSE /\ pal' = [pal EXCEPT !.state = r.project]
            /\ requests' = requests \ {r}
    /\ BoxAnswered(r)
    /\ UNCHANGED <<nav, busy>>

OnTasksLoaded(r) ==
    /\ r.by = "tasks"
    /\ pal' = [pal EXCEPT !.tasks = r.project]
    /\ requests' = requests \ {r}
    /\ BoxAnswered(r)
    /\ UNCHANGED <<nav, busy>>

\* Tasks that could not be loaded are not asked for again: the rows of the
\* project before stay.
OnLoadFailed(r) ==
    /\ requests' = requests \ {r}
    /\ astray' = IF r.old THEN astray ELSE astray \union {r.by}
    /\ UNCHANGED <<nav, pal, busy>>

\* A publish keeps the Palette open, and Run and Refresh disabled until it ends.
RunPublish ==
    /\ ~busy /\ pal.state # NoProject /\ pal.tasks # NoProject
    /\ busy' = TRUE
    /\ UNCHANGED <<requests, nav, pal, astray>>

OnPublishDone ==
    /\ busy
    /\ busy' = FALSE
    /\ UNCHANGED <<requests, nav, pal, astray>>

DialogsNext ==
    \/ \E p \in Projects : OnProjectChanged(p)
    \/ \E p \in AnyProject : TypeProject(p)
    \/ NoProjects \/ DebouncedRefresh \/ PaletteReload \/ RunPublish \/ OnPublishDone
    \/ \E r \in requests :
           OnAssetsLoaded(r) \/ OnStateLoaded(r) \/ OnTasksLoaded(r) \/ OnLoadFailed(r)

-----------------------------------------------------------------------------

(***************************************************************************)
(* What the Navigator opens and the Palette runs is named by a project and *)
(* by an asset or a task from boxes of their own.  The Navigator's assets  *)
(* are of the project selected; once nothing the Palette asked for is on   *)
(* its way, its assets and its tasks are of the project typed, however     *)
(* often another was typed meanwhile.  Except where the answer a box shows *)
(* was given to an older request than the last, which the code does not    *)
(* notice, or its last request failed: then the box stays wrong until the  *)
(* next answer.  Tasks also stay while no project is typed.                *)
(***************************************************************************)
BoxesAgree ==
    LET loading == pal.due \/ InFlight("state") # {} IN
    /\ nav.list \in {nav.project, NoProject} \/ "assets" \in astray
    /\ loading \/ "state" \in astray \/ pal.state = pal.typed
    /\ \/ loading \/ InFlight("tasks") # {} \/ {"state", "tasks"} \cap astray # {}
       \/ pal.typed = NoProject \/ pal.tasks = pal.typed
=============================================================================
