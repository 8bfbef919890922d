----------------------------- MODULE MCDesktop -----------------------------
(***************************************************************************)
(* The parts of the add-on's windows and background work that have a       *)
(* module of their own, in one run.  They share no state, so that          *)
(* interleaving them would multiply states and show nothing: a behaviour   *)
(* is one of a part, and the other parts stay at one initial state.        *)
(***************************************************************************)
EXTENDS Relink, ReviewWindow, ReviewFixes, ReviewShared, TaskStatus, DataCache,
        Dialogs, EntityPicker, UiService, Chunking, SubmitChecks, QtRuntime, TLC

VARIABLE part  \* the part whose behaviour this is

CONSTANTS lib1, lib2, mani, whole, raw,  \* libraries, a chunked version and its file's hash, a blob
          prop, set, model, rig, usd     \* two assets, two stages, a representation

vars == <<relinkVars, windowVars, fixesVars, sharedVars, statusVars, listsVars, dialogVars,
          pickerVars, uiVars, chunkVars, checksVars, qtVars, part>>

-----------------------------------------------------------------------------
\* Values of constants

CachedAsOf == (mani :> whole) @@ (raw :> raw)

\* A file from another machine, with a tag and without.
Elsewhere(id, tag) == [path |-> [here |-> FALSE, id |-> id], tag |-> tag]
SavedFiles == {(lib1 :> Elsewhere(whole, mani)) @@ (lib2 :> Elsewhere(raw, Unlinked))}

\* Groups with and without a stage, an asset without versions.
Group(v, s, r) == [version |-> v, stage |-> s, rep |-> r]
CatalogsOf ==
    {(prop :> {Group(1, model, Blend), Group(1, rig, usd), Group(2, rig, Blend)}) @@ (set :> {}),
     (prop :> {Group(1, Unset, usd), Group(2, model, usd)}) @@ (set :> {Group(1, rig, usd)})}

\* A scene that fits the shot, with its handles or not at all, with and without
\* a camera; a studio that takes frames or does not.
Infos == {[from |-> f, to |-> 3, camera |-> c] : f \in {1, 2}, c \in BOOLEAN}
CutFrom(f, h) == [from |-> f, to |-> 3, head |-> h, tail |-> 0]
ContextsOf ==
    {[cut |-> NoRange, off |-> TRUE, facts |-> "none"],
     [cut |-> CutFrom(1, 0), off |-> FALSE, facts |-> "outdated"],
     [cut |-> CutFrom(2, 1), off |-> FALSE, facts |-> "current"],
     [cut |-> CutFrom(1, 0), off |-> TRUE, facts |-> "current"]}

-----------------------------------------------------------------------------

\* The initial states of a part that does not move are one.
Still(p, condition) == part = p \/ condition

Init ==
    /\ RelinkInit /\ WindowInit /\ FixesInit /\ SharedInit /\ StatusInit /\ ListsInit
    /\ DialogsInit /\ PickerInit /\ UiInit /\ ChunkingInit /\ ChecksInit /\ QtInit
    /\ part \in {"relink", "window", "fixes", "shared", "status", "lists",
                 "dialogs", "picker", "ui", "chunks", "checks", "qt"}
    /\ Still("fixes", scene = CHOOSE s \in Scenes : TRUE)
    /\ Still("status", ~hasTask /\ ~preferred)
    /\ Still("chunks", size = 0 /\ cuts = {})
    /\ Still("checks", info = (CHOOSE i \in Infos : TRUE) /\ polled = Unread /\ ~assigned)
    /\ Still("qt", binding = "missing")

Moves(p, others) == part = p /\ UNCHANGED <<others, part>>

Next ==
    \/ /\ Moves("relink", <<windowVars, fixesVars, sharedVars, statusVars, listsVars, dialogVars,
                            pickerVars, uiVars, chunkVars, checksVars, qtVars>>)
       /\ RelinkNext
    \/ /\ Moves("window", <<relinkVars, fixesVars, sharedVars, statusVars, listsVars, dialogVars,
                            pickerVars, uiVars, chunkVars, checksVars, qtVars>>)
       /\ WindowNext
    \/ /\ Moves("fixes", <<relinkVars, windowVars, sharedVars, statusVars, listsVars, dialogVars,
                           pickerVars, uiVars, chunkVars, checksVars, qtVars>>)
       /\ FixesNext
    \/ /\ Moves("shared", <<relinkVars, windowVars, fixesVars, statusVars, listsVars, dialogVars,
                            pickerVars, uiVars, chunkVars, checksVars, qtVars>>)
       /\ SharedNext
    \/ /\ Moves("status", <<relinkVars, windowVars, fixesVars, sharedVars, listsVars, dialogVars,
                            pickerVars, uiVars, chunkVars, checksVars, qtVars>>)
       /\ StatusNext
    \/ /\ Moves("lists", <<relinkVars, windowVars, fixesVars, sharedVars, statusVars, dialogVars,
                           pickerVars, uiVars, chunkVars, checksVars, qtVars>>)
       /\ ListsNext
    \/ /\ Moves("dialogs", <<relinkVars, windowVars, fixesVars, sharedVars, statusVars, listsVars,
                             pickerVars, uiVars, chunkVars, checksVars, qtVars>>)
       /\ DialogsNext
    \/ /\ Moves("picker", <<relinkVars, windowVars, fixesVars, sharedVars, statusVars, listsVars,
                            dialogVars, uiVars, chunkVars, checksVars, qtVars>>)
       /\ PickerNext
    \/ /\ Moves("ui", <<relinkVars, windowVars, fixesVars, sharedVars, statusVars, listsVars,
                        dialogVars, pickerVars, chunkVars, checksVars, qtVars>>)
       /\ UiNext
    \/ /\ Moves("chunks", <<relinkVars, windowVars, fixesVars, sharedVars, statusVars, listsVars,
                            dialogVars, pickerVars, uiVars, checksVars, qtVars>>)
       /\ ChunkingNext
    \/ /\ Moves("checks", <<relinkVars, windowVars, fixesVars, sharedVars, statusVars, listsVars,
                            dialogVars, pickerVars, uiVars, chunkVars, qtVars>>)
       /\ ChecksNext
    \/ /\ Moves("qt", <<relinkVars, windowVars, fixesVars, sharedVars, statusVars, listsVars,
                        dialogVars, pickerVars, uiVars, chunkVars, checksVars>>)
       /\ QtNext

Spec == Init /\ [][Next]_vars /\ RelinkFairness /\ FixesFairness /\ StatusFairness

-----------------------------------------------------------------------------

(***************************************************************************)
(* Every variable of every part keeps to its type.                         *)
(***************************************************************************)
TypesOK ==
    /\ RelinkTypeOK /\ WindowTypeOK /\ FixesTypeOK /\ SharedTypeOK /\ StatusTypeOK /\ ListsTypeOK
    /\ DialogsTypeOK /\ PickerTypeOK /\ UiTypeOK /\ ChunkingTypeOK /\ ChecksTypeOK /\ QtTypeOK

(***************************************************************************)
(* What the review windows show, file and send is that of the task they    *)
(* name: its notes, its context, its ticked notes, its checks.             *)
(***************************************************************************)
WindowsTellTruth == ShowsSelectedTask /\ SubmitsFixesOfTask /\ SubmitsOnlyAllowed

(***************************************************************************)
(* The dialogs' lists: none that was fetched after a refresh began is      *)
(* older than it, except one whose fetch had ended and was not stored yet  *)
(* when the refresh emptied the cache; and once nothing is awaited, a box  *)
(* holds what is of the project named beside it, unless the last answer it *)
(* got was to an older request, or its last request failed.                *)
(***************************************************************************)
ListsAgree == RefreshIsFresh /\ BoxesAgree

(***************************************************************************)
(* What a click asks for is one thing: a version that was listed with its  *)
(* representation, a file with the DCC that has it open.                   *)
(***************************************************************************)
ClicksAskForOneThing == AsksForListed /\ HintNotTorn

(***************************************************************************)
(* Work in the background ends and is seen to end: a fetch of linked       *)
(* assets, a submission, a count of unread notifications that was guessed. *)
(***************************************************************************)
WorkEnds == RelinkEnds /\ BusyEnds /\ UnreadSettles
=============================================================================
