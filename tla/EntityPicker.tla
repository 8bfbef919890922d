---------------------------- MODULE EntityPicker ----------------------------
(***************************************************************************)
(* The action dialogs that name a version of an asset by boxes depending   *)
(* on one another: asset, stage, version, representation.  Requests block  *)
(* the dialog; what can go wrong is the order in which a change of one box *)
(* rebuilds the next, and what a refresh that fails half-way leaves        *)
(* (ZenoNavigatorActionDialog and ZenoVersionSwitcherDialog of             *)
(* action_dialogs.py).                                                     *)
(***************************************************************************)
EXTENDS Naturals, FiniteSets

CONSTANTS Assets, Stages,
          Reps, Blend,  \* representations; Blend is asked for when there is none
          Catalogs,     \* what the service may list: version groups per asset
          Unset         \* an empty box, a group without stage, the latest version

ASSUME EntityPickerAssumption ==
    /\ Unset \notin Assets \union Stages \union Reps \union Nat
    /\ Blend \in Reps
    /\ \A cat \in Catalogs : \A a \in Assets :
           \A g \in cat[a] : g.version \in Nat /\ g.stage \in Stages \union {Unset} /\ g.rep \in Reps

VARIABLES dialog,  \* "closed", "navigator" or "switcher"
          groups,  \* _groups_by_asset_id; of the assets in the tree
          tree,    \* assets the tree lists
          asset,   \* _asset_ctx
          stage, version, rep,  \* the boxes
          asked    \* what the last Load or Link asked for, or Unset

pickerVars == <<dialog, groups, tree, asset, stage, version, rep, asked>>

\* In the same version, and in the same stage if they have one.
Matches(g, s, v) == (v # Unset => g.version = v) /\ (s # Unset /\ g.stage # Unset => g.stage = s)

PickerTypeOK ==
    /\ dialog \in {"closed", "navigator", "switcher"}
    /\ tree \subseteq Assets /\ asset \in Assets \union {Unset}
    /\ stage \in Stages \union {Unset}
    /\ version = Unset \/ version \in {g.version : g \in UNION {groups[a] : a \in Assets}}
    /\ rep \in Reps \union {Unset}

NoGroups == [a \in Assets |-> {}]

PickerInit ==
    /\ dialog = "closed" /\ groups = NoGroups /\ tree = {}
    /\ asset = Unset /\ stage = Unset /\ version = Unset /\ rep = Unset
    /\ asked = Unset

-----------------------------------------------------------------------------
\* What a box holds once it is rebuilt: its first entry, or another one later.

OneOf(S) == IF S = {} THEN {Unset} ELSE S

\* A default list when no group names a stage.
StageBox(gs) ==
    LET seen == {g.stage : g \in gs} \ {Unset}
    IN IF seen = {} THEN Stages ELSE seen

VersionBox(gs, s) == OneOf({g.version : g \in {h \in gs : Matches(h, s, Unset)}})

\* Mutated form of RepBox: the stage is not looked at.
RepBoxAnyStage(gs, s, v) ==
    LET found == {g.rep : g \in {h \in gs : Matches(h, Unset, v)}}
    IN IF found = {} THEN {Blend} ELSE found

RepBox(gs, s, v) ==
    LET found == {g.rep : g \in {h \in gs : Matches(h, s, v)}}
    IN IF found = {} THEN {Blend} ELSE found

\* _rebuild_versions, which rebuilds the representations.
RebuildVersions(gs, s) ==
    /\ version' \in VersionBox(gs, s)
    /\ rep' \in RepBox(gs, s, version')

RebuildStages(gs) ==
    /\ stage' \in StageBox(gs)
    /\ RebuildVersions(gs, stage')

\* Clearing a box rebuilds the ones after it, from the old groups: the order of
\* the three clears leaves all of them empty.
ClearBoxes == stage' = Unset /\ version' = Unset /\ rep' = Unset

-----------------------------------------------------------------------------
\* Navigator

OpenNavigator ==
    /\ dialog = "closed"
    /\ dialog' = "navigator"
    /\ groups' = NoGroups /\ tree' = {} /\ asset' = Unset /\ asked' = Unset
    /\ ClearBoxes

\* Groups that cannot be listed are none; the launched asset is selected.
ReloadEntities ==
    /\ dialog = "navigator"
    /\ \E cat \in Catalogs : \E known \in SUBSET Assets :
           groups' = [a \in Assets |-> IF a \in known THEN cat[a] ELSE {}]
    /\ tree' = Assets
    /\ \/ asset' \in Assets /\ RebuildStages(groups'[asset'])
       \/ UNCHANGED asset /\ ClearBoxes
    /\ asked' = Unset
    /\ UNCHANGED dialog

\* No project, no connection: the boxes are empty, the asset stays selected.
ReloadFails ==
    /\ dialog = "navigator"
    /\ tree' = {}
    /\ ClearBoxes
    /\ UNCHANGED <<dialog, groups, asset, asked>>

SelectAsset(a) ==
    /\ dialog = "navigator" /\ a \in tree
    /\ asset' = a
    /\ RebuildStages(groups[a])
    /\ UNCHANGED <<dialog, groups, tree, asked>>

PickStage ==
    /\ dialog = "navigator" /\ stage # Unset
    /\ stage' \in StageBox(groups[asset])
    /\ RebuildVersions(groups[asset], stage')
    /\ UNCHANGED <<dialog, groups, tree, asset, asked>>

PickVersion ==
    /\ dialog # "closed" /\ version # Unset
    /\ version' \in VersionBox(groups[asset], stage)
    /\ IF dialog = "navigator" THEN rep' \in RepBox(groups[asset], stage, version') ELSE UNCHANGED rep
    /\ UNCHANGED <<dialog, groups, tree, asset, stage, asked>>

\* Load Entity, and Link into this file, which leaves the dialog open.
LoadEntity ==
    /\ dialog = "navigator" /\ asset # Unset
    /\ asked' = [asset |-> asset, rep |-> IF rep = Unset THEN Blend ELSE rep, stage |-> stage,
                 version |-> version]
    /\ dialog' \in {"closed", "navigator"}
    /\ UNCHANGED <<groups, tree, asset, stage, version, rep>>

-----------------------------------------------------------------------------
\* Version switcher

\* The launched asset, or the first; the stage comes with the launch.
OpenSwitcher ==
    /\ dialog = "closed"
    /\ dialog' = "switcher"
    /\ groups' \in Catalogs \union {NoGroups}
    /\ tree' = Assets /\ asset' \in Assets /\ stage' \in Stages
    /\ version' \in VersionBox(groups'[asset'], stage') /\ rep' = Unset
    /\ asked' = Unset

\* _queued_load has no parameter for the stage it is passed: the slot raises
\* before the dialog is accepted.
OnSwitch ==
    /\ dialog = "switcher" /\ version # Unset
    /\ asked' = Unset
    /\ UNCHANGED <<dialog, groups, tree, asset, stage, version, rep>>

CloseDialog ==
    /\ dialog # "closed"
    /\ dialog' = "closed"
    /\ UNCHANGED <<groups, tree, asset, stage, version, rep, asked>>

PickerNext ==
    \/ OpenNavigator \/ ReloadEntities \/ ReloadFails
    \/ \E a \in Assets : SelectAsset(a)
    \/ PickStage \/ PickVersion \/ LoadEntity
    \/ OpenSwitcher \/ OnSwitch \/ CloseDialog

-----------------------------------------------------------------------------

(***************************************************************************)
(* What is loaded or linked was listed when the dialog was last filled: a  *)
(* group of that asset has the version, and the representation in the      *)
(* stage on display.  With empty boxes, after a refresh that failed or for *)
(* an asset without versions, the latest version's .blend is asked for.    *)
(***************************************************************************)
AsksForListed ==
    asked = Unset \/ asked.version = Unset
    \/ \E g \in groups[asked.asset] : Matches(g, asked.stage, asked.version) /\ g.rep = asked.rep
=============================================================================
