----------------------------- MODULE QtRuntime ------------------------------
(***************************************************************************)
(* How Blender keeps Qt alive: the binding is installed in the background, *)
(* the QApplication made once or warmed up while Blender is idle, and Qt's *)
(* events are processed by a timer that runs only while there are dialogs  *)
(* (qt_host.py, blender_qt.py, pyside_provision.py).                       *)
(*                                                                         *)
(* All but the installation runs on Blender's main thread; dialogs are     *)
(* opened from a menu or from within Qt's event processing.  The timer of  *)
(* the main-thread queue is OpsQueue's.                                    *)
(***************************************************************************)
EXTENDS Naturals, FiniteSets

CONSTANTS Windows,       \* dialogs, in the order-free set of all ever made
          SelfDeleting   \* WA_DeleteOnClose: the two review windows

ASSUME QtRuntimeAssumption == SelfDeleting \subseteq Windows

VARIABLES binding,   \* PySide: "missing", "installing" or "there"
          app,       \* _APP_REF
          tickHandle,\* _TICK_HANDLE is set
          ticking,   \* Blender knows the timer
          pump,      \* the timer is processing events
          window,    \* of each dialog: "none", "shown", "hidden", "deleting", "deleted"
          retained,  \* _DIALOGS
          warm,      \* steps left in _warm_steps
          warmTimer  \* Blender knows the warm-up timer

qtVars == <<binding, app, tickHandle, ticking, pump, window, retained, warm, warmTimer>>

QtTypeOK ==
    /\ binding \in {"missing", "installing", "there"}
    /\ app \in BOOLEAN /\ tickHandle \in BOOLEAN /\ ticking \in BOOLEAN
    /\ pump \in BOOLEAN /\ warmTimer \in BOOLEAN
    /\ window \in [Windows -> {"none", "shown", "hidden", "deleting", "deleted"}]
    /\ retained \subseteq Windows
    /\ warm \in 0..3

QtInit ==
    /\ binding \in {"missing", "there"}
    /\ app = FALSE /\ tickHandle = FALSE /\ ticking = FALSE /\ pump = FALSE
    /\ window = [w \in Windows |-> "none"] /\ retained = {}
    /\ warm = 0 /\ warmTimer = FALSE

Visible == {w \in Windows : window[w] = "shown"}

-----------------------------------------------------------------------------
\* Opening and closing dialogs

\* _load_dialog_classes without Qt: the installation starts, or goes on, and the
\* operator falls back to Blender's own dialog.
EnsurePySide ==
    /\ binding = "missing"
    /\ binding' = "installing"
    /\ UNCHANGED <<app, tickHandle, ticking, pump, window, retained, warm, warmTimer>>

\* pip ends, fails or times out; what it installed may still not be importable.
InstallEnds ==
    /\ binding = "installing"
    /\ binding' \in {"there", "missing"}
    /\ UNCHANGED <<app, tickHandle, ticking, pump, window, retained, warm, warmTimer>>

\* _ensure_tick_timer, called by retain_dialog.
EnsureTick ==
    IF tickHandle THEN UNCHANGED <<tickHandle, ticking>>
    ELSE tickHandle' = TRUE /\ ticking' = TRUE

OpenWindow(w) ==
    /\ binding = "there" /\ window[w] = "none"
    /\ app' = TRUE
    /\ retained' = retained \union {w}
    /\ window' = [window EXCEPT ![w] = "shown"]
    /\ EnsureTick
    /\ UNCHANGED <<binding, pump, warm, warmTimer>>

\* The dialog's constructor raises.
OpenFails ==
    /\ binding = "there"
    /\ app' = TRUE
    /\ UNCHANGED <<binding, tickHandle, ticking, pump, window, retained, warm, warmTimer>>

\* Its button or its frame: an event, or the code behind one.
CloseByUser(w) ==
    /\ pump /\ window[w] = "shown"
    /\ window' = [window EXCEPT ![w] = IF w \in SelfDeleting THEN "deleting" ELSE "hidden"]
    /\ UNCHANGED <<binding, app, tickHandle, ticking, pump, retained, warm, warmTimer>>

\* A posted event: the dialog emits destroyed.
Destroyed(w) ==
    /\ pump /\ window[w] = "deleting"
    /\ window' = [window EXCEPT ![w] = "deleted"]
    /\ retained' = retained \ {w}
    /\ UNCHANGED <<binding, app, tickHandle, ticking, pump, warm, warmTimer>>

-----------------------------------------------------------------------------
\* _process_qt_events

BeginTick ==
    /\ ticking /\ ~pump
    /\ app
    /\ pump' = TRUE
    /\ UNCHANGED <<binding, app, tickHandle, ticking, window, retained, warm, warmTimer>>

\* Mutated form of StopTick: the handle is not cleared.
StopTickQuietly == ticking' = FALSE /\ UNCHANGED tickHandle

\* Returning None removes the timer.
StopTick == ticking' = FALSE /\ tickHandle' = FALSE

EndTick ==
    /\ pump
    /\ pump' = FALSE
    /\ IF retained = {} THEN StopTick ELSE UNCHANGED <<ticking, tickHandle>>
    /\ UNCHANGED <<binding, app, window, retained, warm, warmTimer>>

-----------------------------------------------------------------------------
\* Warm-up, and the life of the add-on

\* register, when the preferences want it.
ScheduleWarmUp ==
    /\ warm = 0 /\ ~warmTimer /\ ~app
    /\ warm' = 3 /\ warmTimer' = TRUE
    /\ UNCHANGED <<binding, app, tickHandle, ticking, pump, window, retained>>

\* One step per tick: import Qt, make the application, import the dialogs.  A
\* step that fails ends the warm-up.
WarmTick ==
    /\ warmTimer /\ ~pump
    /\ \/ /\ warm > 0 /\ (warm = 3 => binding = "there")
          /\ warm' = warm - 1
          /\ app' = (app \/ warm = 2)
       \/ warm' = 0 /\ UNCHANGED app
    /\ warmTimer' = (warm' > 0)
    /\ UNCHANGED <<binding, tickHandle, ticking, pump, window, retained>>

\* unregister: cancel_warm_up and shutdown_qt_runtime.
ShutDown ==
    /\ ~pump
    /\ warm' = 0 /\ warmTimer' = FALSE
    /\ tickHandle' = FALSE /\ ticking' = FALSE
    /\ window' = [w \in Windows |-> IF w \in retained /\ window[w] = "shown"
                                    THEN IF w \in SelfDeleting THEN "deleting" ELSE "hidden"
                                    ELSE window[w]]
    /\ retained' = {} /\ app' = FALSE
    /\ UNCHANGED <<binding, pump>>

QtNext ==
    \/ EnsurePySide \/ InstallEnds \/ OpenFails
    \/ \E w \in Windows : OpenWindow(w) \/ CloseByUser(w) \/ Destroyed(w)
    \/ BeginTick \/ EndTick \/ ScheduleWarmUp \/ WarmTick \/ ShutDown

QtSpec == QtInit /\ [][QtNext]_qtVars

-----------------------------------------------------------------------------

(***************************************************************************)
(* A dialog on the screen is never frozen: whatever dialogs opened and     *)
(* closed before it, in whatever tick, it is retained, there is an         *)
(* application, and the timer that processes its events is registered; the *)
(* warm-up has a timer as long as it has steps.  And Blender's idle loop   *)
(* is not disturbed for nothing, "auto-stop when no Zeno dialogs are       *)
(* visible" (qt_host.py:46), with an exception that the comment does not   *)
(* know: a dialog without WA_DeleteOnClose that is closed is only hidden,  *)
(* is never destroyed, and keeps the timer running.                        *)
(***************************************************************************)
VisibleIsPumped ==
    /\ \A w \in Visible : app /\ w \in retained /\ ticking
    /\ warm > 0 => warmTimer
    /\ ticking /\ ~pump =>
           \E w \in Windows : \/ window[w] \in {"shown", "deleting"}
                              \/ window[w] = "hidden" /\ w \notin SelfDeleting
=============================================================================
